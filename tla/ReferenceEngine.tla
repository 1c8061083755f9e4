--------------------------- MODULE ReferenceEngine ---------------------------
(* engines/reference.py: LongFlatReferenceEngine.run checks its bars and     *)
(* targets, then goes over the bars once; at the open of a bar it trades to  *)
(* the target that takes effect there, and at its close it records a point.  *)
(* Prices and cash are exact fractions; overflow of the Decimal context, one *)
(* more refusal, is not modelled.                                            *)
EXTENDS Fraction, Sequences, FiniteSets

CONSTANTS
    Histories,    \* sequences of bars the engine is called with
    TargetLists,  \* sequences of targets
    Costs,        \* pairs of commission_rate and slippage_rate
    Cash          \* initial_cash, a positive number

Bar == [session : Nat, session_open_at : Nat, open : Nat \ {0}, close : Nat \ {0}]
Target == [effective_at : Nat, weight : Nat]

\* A rate: a fraction in lowest terms that is not negative.
Rate(x) == x.n \in Nat /\ x.d \in Nat \ {0} /\ x = Ratio(x.n, x.d)

\* run() refuses any other cash and any other rates.
ASSUME EngineAssumption ==
    /\ Histories \subseteq Seq(Bar)
    /\ TargetLists \subseteq Seq(Target)
    /\ Cash \in Nat \ {0}
    /\ \A r \in Costs : /\ Rate(r.commission) /\ Rate(r.slippage)
                        /\ r.slippage.n < r.slippage.d

VARIABLES
    bars, targets, rates,   \* what run() was called with
    outcome,                \* how far the call is
    cash, quantity, target_weight,
    trades, points

input == <<bars, targets, rates>>
account == <<cash, quantity, target_weight>>
vars == <<input, outcome, account, trades, points>>

Init ==
    /\ bars \in Histories /\ targets \in TargetLists /\ rates \in Costs
    /\ outcome = "called"
    /\ cash = Whole(Cash) /\ quantity = Whole(0) /\ target_weight = 0
    /\ trades = <<>> /\ points = <<>>

-----------------------------------------------------------------------------
(* The checks before the loop *)

opens == {bars[i].session_open_at : i \in DOMAIN bars}

\* Fault: a target need not meet the open of a bar.
AcceptsAnyTime ==
    /\ bars # <<>>
    /\ \A i \in 1 .. Len(bars) - 1 : bars[i].session < bars[i + 1].session
    /\ \A i \in DOMAIN targets : targets[i].weight \in {0, 1}
    /\ \A i, j \in DOMAIN targets :
         i # j => targets[i].effective_at # targets[j].effective_at

Accepts ==
    /\ bars # <<>>
    /\ \A i \in 1 .. Len(bars) - 1 : bars[i].session < bars[i + 1].session
    /\ \A i \in DOMAIN targets : /\ targets[i].weight \in {0, 1}
                                 /\ targets[i].effective_at \in opens
    /\ \A i, j \in DOMAIN targets :
         i # j => targets[i].effective_at # targets[j].effective_at

Refuse ==
    /\ outcome = "called"
    /\ ~Accepts
    /\ outcome' = "refused"
    /\ UNCHANGED <<input, account, trades, points>>

Start ==
    /\ outcome = "called"
    /\ Accepts
    /\ outcome' = "running"
    /\ UNCHANGED <<input, account, trades, points>>

-----------------------------------------------------------------------------
(* One round of the loop *)

One == Whole(1)
bar == bars[Len(points) + 1]

\* Weights that take effect at the open of a bar: one, or none.
EffectiveAt(b) ==
    {targets[i].weight : i \in {j \in DOMAIN targets :
                                   targets[j].effective_at = b.session_open_at}}

\* The point of the bar; its validator wants equity positive, cash not negative.
Record(point) ==
    IF Positive(point.equity) /\ AtMost(Whole(0), point.cash)
    THEN points' = Append(points, point) /\ UNCHANGED outcome
    ELSE outcome' = "invalid" /\ UNCHANGED points

MarkToMarket ==
    Record([close |-> bar.close, cash |-> cash', quantity |-> quantity',
            equity |-> Plus(cash', Times(quantity', Whole(bar.close))),
            target_weight |-> target_weight'])

\* Fault: slippage is the markup on the open, on a sale too.
TradeMarkup(side, q, price, commission) ==
    trades' = Append(trades, [side |-> side, executed_at |-> bar.session_open_at,
                              reference_price |-> bar.open, quantity |-> q,
                              commission |-> commission,
                              slippage |-> Times(q, Minus(price, Whole(bar.open)))])

Trade(side, q, price, commission) ==
    trades' = Append(trades, [side |-> side, executed_at |-> bar.session_open_at,
                              reference_price |-> bar.open, quantity |-> q,
                              commission |-> commission,
                              slippage |-> IF side = "buy"
                                           THEN Times(q, Minus(price, Whole(bar.open)))
                                           ELSE Times(q, Minus(Whole(bar.open), price))])

\* No target takes effect, or it is the weight already held.
HoldBar ==
    /\ outcome = "running" /\ Len(points) < Len(bars)
    /\ EffectiveAt(bar) \subseteq {target_weight}
    /\ UNCHANGED <<input, account, trades>>
    /\ MarkToMarket

\* Fault: the commission is taken from the cash, not from the notional.
BuyBarOnCash ==
    /\ outcome = "running" /\ Len(points) < Len(bars)
    /\ 1 \in EffectiveAt(bar) /\ target_weight # 1
    /\ LET price == Times(Whole(bar.open), Plus(One, rates.slippage))
           commission == Times(cash, rates.commission)
           q == Over(Minus(cash, commission), price)
       IN  /\ Trade("buy", q, price, commission)
           /\ quantity' = q
    /\ cash' = Whole(0)
    /\ target_weight' = 1
    /\ UNCHANGED input
    /\ MarkToMarket

\* All cash is spent, on the notional and the commission on it.
BuyBar ==
    /\ outcome = "running" /\ Len(points) < Len(bars)
    /\ 1 \in EffectiveAt(bar) /\ target_weight # 1
    /\ LET price == Times(Whole(bar.open), Plus(One, rates.slippage))
           notional == Over(cash, Plus(One, rates.commission))
           q == Over(notional, price)
       IN  /\ Trade("buy", q, price, Minus(cash, notional))
           /\ quantity' = q
    /\ cash' = Whole(0)
    /\ target_weight' = 1
    /\ UNCHANGED input
    /\ MarkToMarket

\* Fault: the position is sold and the weight kept.
SellBarForgetful ==
    /\ outcome = "running" /\ Len(points) < Len(bars)
    /\ EffectiveAt(bar) \ {1, target_weight} # {}
    /\ LET price == Times(Whole(bar.open), Minus(One, rates.slippage))
           proceeds == Times(quantity, price)
           commission == Times(proceeds, rates.commission)
       IN  /\ Trade("sell", quantity, price, commission)
           /\ cash' = Minus(proceeds, commission)
    /\ quantity' = Whole(0)
    /\ UNCHANGED <<input, target_weight>>
    /\ MarkToMarket

SellBar ==
    /\ outcome = "running" /\ Len(points) < Len(bars)
    /\ \E w \in EffectiveAt(bar) \ {1, target_weight} : target_weight' = w
    /\ LET price == Times(Whole(bar.open), Minus(One, rates.slippage))
           proceeds == Times(quantity, price)
           commission == Times(proceeds, rates.commission)
       IN  /\ Trade("sell", quantity, price, commission)
           /\ cash' = Minus(proceeds, commission)
    /\ quantity' = Whole(0)
    /\ UNCHANGED input
    /\ MarkToMarket

Return ==
    /\ outcome = "running"
    /\ Len(points) = Len(bars)
    /\ outcome' = "returned"
    /\ UNCHANGED <<input, account, trades, points>>

Next == Refuse \/ Start \/ HoldBar \/ BuyBar \/ SellBar \/ Return

Spec == Init /\ [][Next]_vars

-----------------------------------------------------------------------------
(* Properties *)

Fraction == [n : Int, d : Nat \ {0}]

TypeOK ==
    /\ bars \in Seq(Bar) /\ targets \in Seq(Target)
    /\ outcome \in {"called", "refused", "running", "invalid", "returned"}
    /\ cash \in Fraction /\ quantity \in Fraction
    /\ target_weight \in {0, 1}
    /\ Len(points) <= Len(bars) /\ Len(trades) <= Len(bars)

\* The weight the targets ask for once bar i has opened: that of the last bar
\* at whose open a target takes effect.
Asked(i) ==
    LET S == {j \in 1 .. i : EffectiveAt(bars[j]) # {}}
    IN  IF S = {} THEN {0}
        ELSE EffectiveAt(bars[CHOOSE j \in S : \A k \in S : k <= j])

\* What bar i does to the equity of an account that follows the targets: the
\* gap from the last close, the costs of a change of weight, and the day.
Factor(i) ==
    LET before == IF i = 1 THEN 0 ELSE CHOOSE w \in Asked(i - 1) : TRUE
        after  == CHOOSE w \in Asked(i) : TRUE
        gap    == IF before = 1 THEN Ratio(bars[i].open, bars[i - 1].close) ELSE One
        day    == IF after = 1 THEN Ratio(bars[i].close, bars[i].open) ELSE One
        switch == CASE after > before -> Over(One, Times(Plus(One, rates.commission),
                                                         Plus(One, rates.slippage)))
                    [] after < before -> Times(Minus(One, rates.commission),
                                               Minus(One, rates.slippage))
                    [] OTHER -> One
    IN  Times(gap, Times(switch, day))

Compounded[i \in 0 .. Len(bars)] ==
    IF i = 0 THEN Whole(Cash) ELSE Times(Compounded[i - 1], Factor(i))

\* Every recorded equity is the initial cash compounded by the returns of the
\* sessions in which the targets asked for the asset, less the costs of each
\* change: no return leaks into a session that was flat, and none is missed.
EquityCompounds ==
    \A i \in DOMAIN points : points[i].equity = Compounded[i]

\* What a trade does to cash and quantity, as it reports itself.
AfterTrade(books, t) ==
    LET amount == Times(t.quantity, Whole(t.reference_price))
        costs == Plus(t.commission, t.slippage)
    IN  IF t.side = "buy"
        THEN [cash |-> Minus(Minus(books.cash, amount), costs),
              quantity |-> Plus(books.quantity, t.quantity)]
        ELSE [cash |-> Minus(Plus(books.cash, amount), costs),
              quantity |-> Minus(books.quantity, t.quantity)]

Explained(ts) ==
    LET after[k \in 0 .. Len(ts)] ==
          IF k = 0 THEN [cash |-> Whole(Cash), quantity |-> Whole(0)]
          ELSE AfterTrade(after[k - 1], ts[k])
    IN  after[Len(ts)]

\* The trades explain the account: initial cash, less purchases and plus sales
\* at the reference prices, less the commission and slippage reported, is the
\* cash; shares bought less shares sold are the quantity.
BooksBalance == Explained(trades) = [cash |-> cash, quantity |-> quantity]

\* Purchases and sales alternate, beginning with a purchase, and the weight
\* says which came last; each was asked for by a target that takes effect at
\* the time of the trade.
TradesAlternate ==
    /\ target_weight = Len(trades) % 2
    /\ \A k \in DOMAIN trades :
         /\ trades[k].side = IF k % 2 = 1 THEN "buy" ELSE "sell"
         /\ \E i \in DOMAIN targets :
              /\ targets[i].effective_at = trades[k].executed_at
              /\ targets[i].weight = k % 2

\* Past the checks only a commission of the whole proceeds, or more, stops a
\* run, and every target of a run that returned had its session.
AcceptedRunsReturn ==
    /\ outcome = "invalid" => AtMost(One, rates.commission)
    /\ outcome = "returned" =>
         /\ Len(points) = Len(bars)
         /\ \A i \in DOMAIN targets : \E j \in DOMAIN bars :
              /\ bars[j].session_open_at = targets[i].effective_at
              /\ points[j].target_weight = targets[i].weight
=============================================================================
