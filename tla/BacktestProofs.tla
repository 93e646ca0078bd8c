---------------------------- MODULE BacktestProofs ----------------------------
(***************************************************************************)
(* The backtest, for any prices, costs, cash and number of sessions: no    *)
(* negative cash or shares, TargetIsReached, MetricsAddUp; and, if the     *)
(* tolerance covers the rounding of the largest position, ChecksNeverTrip  *)
(* and ClearRunsPassAudit.  And the V1 database its artifact is stored in, *)
(* for any number of calls, run ids, artifacts and faults: NoStrandedLock, *)
(* and the refinement of ArtifactPromise, step by step.                    *)
(*                                                                         *)
(* The argument for the backtest: the commission of a fill is exact, so an *)
(* order changes cash and position by what is charged for it and nothing   *)
(* else; the sizing never asks for more than there is, unless it asks for  *)
(* one share; so each record follows from the portfolio before it, and the *)
(* accounts follow by induction over the sessions.                         *)
(*                                                                         *)
(* The argument for its audit: a fill is read back with half a grain of    *)
(* error for each share and two more, always from the cash as recorded, so *)
(* the errors of a replay do not add up over the sessions and stay within  *)
(* half the edge.  An entry off the edge is of the same size, and rejected *)
(* for the same reasons, in every portfolio that close.                    *)
(*                                                                         *)
(* The argument for the database: the write lock is taken with the first   *)
(* table, whose key refuses a run id that is stored; so what the writer    *)
(* has inserted is all there is of its artifact, nobody else commits       *)
(* meanwhile, and no later table can refuse it.  A committed artifact is   *)
(* never replaced, so a load that found its first row finds all the        *)
(* others, though its statements share no transaction.                     *)
(***************************************************************************)
EXTENDS Backtest, ArtifactDatabase, FiniteSetTheorems, NaturalsInduction, WellFoundedInduction,
        TLAPS

---------------------------------------------------------------------------
(* Integers and rounding *)

\* Division rounds down.
LEMMA Division ==
    ASSUME NEW m \in Int, NEW d \in Nat \ {0}
    PROVE  m \div d \in Int /\ d * (m \div d) <= m /\ m < d * (m \div d) + d
    OBVIOUS

LEMMA Cancels ==
    ASSUME NEW a \in Int, NEW s \in Nat \ {0}
    PROVE  (a * s) \div s = a
    OBVIOUS

LEMMA Products ==
    ASSUME NEW a \in Nat, NEW b \in Nat
    PROVE  a * b \in Nat /\ (a > 0 /\ b > 0 => a * b > 0)
    OBVIOUS

LEMMA Monotone ==
    ASSUME NEW a \in Nat, NEW b \in Int, NEW c \in Int, b <= c
    PROVE  a * b <= a * c
    OBVIOUS

\* A float is at most half a grain away.
LEMMA Rounded ==
    ASSUME NEW x \in Int
    PROVE  Recorded(x) \in Int /\ 2 * Abs(Recorded(x) - x) <= Grain
    <1> DEFINE h == Grain \div 2
               y == x + h
    <1>1. Grain \in Nat \ {0}
        BY BacktestAssumption DEF BacktestAssumption
    <1>2. h \in Int /\ 2 * h <= Grain /\ 2 * h >= Grain - 1
        BY <1>1, Division
    <1>3. y \in Int
        BY <1>2
    <1> HIDE DEF h
    <1>4. y \div Grain \in Int /\ Grain * (y \div Grain) <= y
          /\ y < Grain * (y \div Grain) + Grain
        BY <1>1, <1>3, Division
    <1>5. Recorded(x) = (y \div Grain) * Grain
        BY DEF Recorded, h
    <1> DEFINE k == y \div Grain
               p == k * Grain
    <1>6. p \in Int /\ p = Grain * k
        BY <1>1, <1>4
    <1>7. p <= x + h /\ x + h < p + Grain
        BY <1>1, <1>2, <1>4, <1>6
    <1>8. Recorded(x) = p
        BY <1>5
    <1> HIDE DEF p, k
    <1> QED
        BY <1>1, <1>2, <1>6, <1>7, <1>8 DEF Abs

---------------------------------------------------------------------------
(* Fills *)

Fields == {"price", "notional", "commission", "slippage", "total", "change", "cash"}

\* What is recorded of a fill.
LEMMA WrittenIs ==
    ASSUME NEW order
    PROVE  LET fill == Written(order)
               price == ExecutionPrice(order.side, order.open)
               quantity == order.quantity
           IN  /\ fill.price = Recorded(price)
               /\ fill.notional = Recorded(quantity * price)
               /\ fill.commission = Recorded(Commission(order.side, quantity, order.open))
               /\ fill.slippage = Recorded(quantity * Abs(price - Value(order.open)))
               /\ fill.total = Recorded(TransactionCost(order.side, quantity, order.open))
               /\ fill.change = Recorded(order.change)
               /\ fill.cash = Recorded(order.cash + order.change)
    BY DEF Written, Amounts

LEMMA CostsTyped ==
    ASSUME costs \in Costs
    PROVE  /\ costs.slippage \in Nat /\ costs.commission \in Nat
           /\ Scale \in Nat \ {0} /\ Unit \in Nat \ {0} /\ Unit = Scale * Scale
    <1>1. costs \in [slippage : Nat, commission : Nat] /\ Scale \in Nat \ {0}
        BY BacktestAssumption DEF BacktestAssumption
    <1>2. Scale * Scale \in Nat /\ Scale * Scale > 0
        BY <1>1, Products
    <1> QED
        BY <1>1, <1>2 DEF Unit

\* The price of a share at this open, in parts of Scale.
Rate(side, open) ==
    open * (IF side = "buy" THEN Scale + costs.slippage ELSE Scale - costs.slippage)

\* The commission is exact.
LEMMA Prices ==
    ASSUME costs \in Costs, NEW side \in {"buy", "sell"}, NEW q \in Nat, NEW open \in Nat
    PROVE  /\ Rate(side, open) \in Int
           /\ ExecutionPrice(side, open) = Rate(side, open) * Scale
           /\ ExecutionPrice(side, open) \in Int
           /\ Commission(side, q, open) = q * Rate(side, open) * costs.commission
           /\ Commission(side, q, open) \in Int
    <1> DEFINE f == IF side = "buy" THEN Scale + costs.slippage ELSE Scale - costs.slippage
    <1>1. f \in Int /\ Scale \in Nat \ {0} /\ costs.commission \in Nat
        BY CostsTyped
    <1>2. Rate(side, open) = open * f /\ ExecutionPrice(side, open) = open * Scale * f
        BY DEF Rate, ExecutionPrice
    <1> HIDE DEF f
    <1>3. Rate(side, open) \in Int /\ ExecutionPrice(side, open) = Rate(side, open) * Scale
        BY <1>1, <1>2
    <1>4. ExecutionPrice(side, open) \div Scale = Rate(side, open)
        BY <1>1, <1>3, Cancels
    <1>5. Commission(side, q, open) = q * Rate(side, open) * costs.commission
        BY <1>4 DEF Commission
    <1> QED
        BY <1>1, <1>3, <1>5

\* What an entry takes out of the cash.
LEMMA EntryCost ==
    ASSUME costs \in Costs, NEW q \in Nat, NEW open \in Nat
    PROVE  /\ CashChange("buy", q, open) = -(q * ShareCost(open))
           /\ ShareCost(open) \in Nat
           /\ open > 0 => ShareCost(open) > 0
    <1> DEFINE u == Rate("buy", open)
               s == Scale + costs.slippage
               c == Scale + costs.commission
    <1>1. s \in Nat /\ c \in Nat /\ s > 0 /\ c > 0 /\ c = Scale + costs.commission
          /\ Scale \in Nat /\ costs.commission \in Nat
        BY CostsTyped
    <1>2. u = open * s /\ ShareCost(open) = open * s * c
        BY DEF Rate, ShareCost
    <1>3. CashChange("buy", q, open)
             = -(q * ExecutionPrice("buy", open) + Commission("buy", q, open))
        BY DEF CashChange
    <1> HIDE DEF s, c
    <1>4. u \in Nat /\ (open > 0 => u > 0)
        BY <1>1, <1>2, Products
    <1>5. /\ ExecutionPrice("buy", open) = u * Scale
          /\ Commission("buy", q, open) = q * u * costs.commission
        BY Prices
    <1> HIDE DEF u
    <1>6. ShareCost(open) = u * c
        BY <1>2
    <1>7. u * c \in Nat /\ (u > 0 => u * c > 0)
        BY <1>1, <1>4, Products
    <1>8. q * (u * Scale) + q * u * costs.commission = q * (u * c)
        BY <1>1, <1>4
    <1> QED
        BY <1>3, <1>4, <1>5, <1>6, <1>7, <1>8

\* A fill costs what is reported of it: the rest changes hands at the open.
LEMMA FillCost ==
    ASSUME costs \in Costs, NEW side \in {"buy", "sell"}, NEW q \in Nat, NEW open \in Nat
    PROVE  /\ CashChange(side, q, open) \in Int /\ TransactionCost(side, q, open) \in Int
           /\ side = "buy" => CashChange(side, q, open) + q * Value(open)
                                = -TransactionCost(side, q, open)
           /\ side = "sell" => CashChange(side, q, open) - q * Value(open)
                                = -TransactionCost(side, q, open)
    <1> DEFINE P == ExecutionPrice(side, open)
               V == Value(open)
               C == Commission(side, q, open)
               D == open * Scale * costs.slippage
    <1>1. P \in Int /\ C \in Int
        BY Prices
    <1>2. Scale \in Nat /\ costs.slippage \in Nat /\ Unit = Scale * Scale
        BY CostsTyped
    <1>3. V \in Int /\ D \in Nat
        <2>1. open * Scale \in Nat
            BY <1>2, Products
        <2> QED
            BY <1>2, <2>1, Products DEF Value
    <1>4. P = (IF side = "buy" THEN V + D ELSE V - D)
        BY <1>2 DEF ExecutionPrice, Value
    <1>5. /\ TransactionCost(side, q, open) = C + q * Abs(P - V)
          /\ CashChange(side, q, open) = IF side = "buy" THEN -(q * P + C) ELSE q * P - C
        BY DEF TransactionCost, CashChange
    <1> HIDE DEF P, V, C, D
    <1>6. Abs(P - V) = D
        BY <1>1, <1>3, <1>4 DEF Abs
    <1>7. CASE side = "buy"
        <2>1. q * P = q * V + q * D
            BY <1>3, <1>4, <1>7
        <2> QED
            BY <1>1, <1>3, <1>5, <1>6, <1>7, <2>1 DEF V
    <1>8. CASE side = "sell"
        <2>1. q * P = q * V - q * D
            BY <1>3, <1>4, <1>8
        <2> QED
            BY <1>1, <1>3, <1>5, <1>6, <1>8, <2>1 DEF V
    <1> QED
        BY <1>7, <1>8

---------------------------------------------------------------------------
(* Sizing and risk rules *)

Portfolios == [cash : Nat, shares : Nat]

\* A record of a session is what the engine does in the portfolio before it.
RowFollows(row, before) ==
    /\ row.target \in {0, 1} /\ row.open \in Opens /\ row.close \in Closes
    /\ row.order = ProposeOrder(row.target, row.open, before.cash, before.shares)
    /\ row.order # NoOrder => ~Unbuildable(row.order)
    /\ row.reasons = IF row.order = NoOrder THEN {}
                     ELSE Reasons(row.order, before.cash, before.shares)
    /\ row.cash = (IF Approved(row) THEN Filled(row.order).cash ELSE before.cash)
    /\ row.shares = (IF Approved(row) THEN Filled(row.order).shares ELSE before.shares)
    /\ row.cash \in Nat

LEMMA Opening ==
    ASSUME NEW open \in Opens
    PROVE  open \in Nat \ {0}
    BY BacktestAssumption DEF BacktestAssumption

\* The sizing spends what there is, or proposes one share.
LEMMA Sizing ==
    ASSUME costs \in Costs, NEW open \in Opens, NEW money \in Nat
    PROVE  LET q == Max({1, Affordable(money, open)}) IN
           /\ q \in Nat \ {0}
           /\ money >= ShareCost(open) => q * ShareCost(open) <= money
           /\ q * ShareCost(open) <= money \/ money < ShareCost(open)
    <1> DEFINE d == ShareCost(open)
               a == Affordable(money, open)
               q == Max({1, a})
    <1>1. d \in Nat \ {0}
        <2>1. open \in Nat /\ open > 0 /\ 0 \in Nat
            BY Opening
        <2> QED
            BY <2>1, EntryCost
    <1>2. a = money \div d
        BY DEF Affordable
    <1> HIDE DEF d, a
    <1>3. a \in Int /\ d * a <= money /\ money < d * a + d
        BY <1>1, <1>2, Division
    <1>4. a >= 0
        <2>1. ASSUME a < 0 PROVE FALSE
            <3>1. d * a <= d * (-1)
                BY <1>1, <1>3, <2>1, Monotone
            <3> QED
                BY <1>1, <1>3, <3>1
        <2> QED
            BY <1>3, <2>1
    <1>5. CASE a = 0
        <2>1. q = 1 /\ money < d
            <3>1. \E x \in {1, a} : \A y \in {1, a} : x >= y
                BY <1>5
            <3>2. q \in {1, a} /\ \A y \in {1, a} : q >= y
                BY <3>1 DEF Max
            <3> QED
                BY <1>1, <1>3, <1>5, <3>2
        <2> HIDE DEF q
        <2> QED
            BY <1>1, <2>1 DEF d, q, a
    <1>6. CASE a > 0
        <2>1. q = a
            <3>1. \E x \in {1, a} : \A y \in {1, a} : x >= y
                BY <1>3, <1>6
            <3>2. q \in {1, a} /\ \A y \in {1, a} : q >= y
                BY <3>1 DEF Max
            <3> QED
                BY <1>3, <1>6, <3>2
        <2> HIDE DEF q
        <2>2. q * d = d * a
            BY <1>1, <1>3, <2>1
        <2> QED
            BY <1>3, <1>6, <2>1, <2>2 DEF d, q, a
    <1> QED
        BY <1>3, <1>4, <1>5, <1>6

\* The rules approve an entry if and only if it is affordable.
LEMMA EntryJudged ==
    ASSUME costs \in Costs, NEW open \in Opens, NEW money \in Nat,
           NEW order, order = ProposeOrder(1, open, money, 0)
    PROVE  /\ order.side = "buy" /\ order.quantity \in Nat \ {0} /\ order.open = open
           /\ order.cash = money /\ order.shares = 0
           /\ order.change = CashChange("buy", order.quantity, open)
           /\ money >= ShareCost(open) => Reasons(order, money, 0) = {}
           /\ Reasons(order, money, 0) = {} => money + order.change \in Nat
    <1> DEFINE q == Max({1, Affordable(money, open)})
               d == ShareCost(open)
               worth == Value(open) * q
    <1>1. order = [side |-> "buy", quantity |-> q, target |-> 1, open |-> open,
                   change |-> CashChange("buy", q, open), cash |-> money, shares |-> 0]
        BY DEF ProposeOrder, Order
    <1>2. q \in Nat \ {0} /\ (money >= d => q * d <= money) /\ (q * d <= money \/ money < d)
        BY Sizing
    <1> HIDE DEF q
    <1>3. CashChange("buy", q, open) = -(q * d) /\ d \in Nat \ {0} /\ q * d \in Nat
        <2>1. q \in Nat /\ open \in Nat /\ open > 0
            BY <1>2, Opening
        <2>2. CashChange("buy", q, open) = -(q * d) /\ d \in Nat /\ d > 0
            BY <2>1, EntryCost
        <2> HIDE DEF d
        <2> QED
            BY <2>1, <2>2, Products
    <1>4. worth \in Nat /\ worth > 0
        <2>1. Value(open) \in Nat /\ Value(open) > 0
            BY CostsTyped, Opening, Products DEF Value
        <2> QED
            BY <1>2, <2>1, Products
    <1> HIDE DEF d
    <1>5. Misfits(order, money, 0) = {}
        BY <1>1 DEF Misfits, Flag
    <1>6. Reasons(order, money, 0) = BuyReasons(order, money, 0)
        BY <1>1, <1>5 DEF Reasons
    <1>7. Value(order.open) * (0 + order.quantity) = worth
        BY <1>1, <1>2
    <1> HIDE DEF worth
    <1>8. ASSUME q * d <= money PROVE BuyReasons(order, money, 0) = {}
        <2> DEFINE left == money + order.change
        <2>1. left \in Nat /\ -order.change <= money /\ order.target = 1
            BY <1>1, <1>3, <1>8
        <2> HIDE DEF left
        <2>2. ~(left < 0 \/ left + worth <= 0) /\ ~(left + worth > 0 /\ worth > left + worth)
            BY <1>4, <2>1
        <2>3. ~(-order.change > money)
            BY <1>1, <1>3, <1>8
        <2> QED
            BY <1>7, <2>1, <2>2, <2>3 DEF BuyReasons, Flag, left
    <1>9. ASSUME BuyReasons(order, money, 0) = {} PROVE money + order.change \in Nat
        <2>1. ~(-order.change > money)
            BY <1>9 DEF BuyReasons, Flag
        <2> QED
            BY <1>1, <1>3, <2>1
    <1> QED
        BY <1>1, <1>2, <1>6, <1>8, <1>9 DEF d

\* The rules approve every exit that can be built.
LEMMA ExitJudged ==
    ASSUME costs \in Costs, NEW open \in Opens, NEW money \in Nat, NEW held \in Nat, held > 0,
           NEW order, order = ProposeOrder(0, open, money, held)
    PROVE  /\ order.side = "sell" /\ order.quantity = held /\ order.open = open
           /\ order.cash = money /\ order.shares = held
           /\ order.change = CashChange("sell", held, open)
           /\ ~Unbuildable(order) => Reasons(order, money, held) = {}
    <1>1. order = [side |-> "sell", quantity |-> held, target |-> 0, open |-> open,
                   change |-> CashChange("sell", held, open), cash |-> money, shares |-> held]
        BY DEF ProposeOrder, Order
    <1>2. Misfits(order, money, held) = {}
        BY <1>1 DEF Misfits, Flag
    <1>3. Reasons(order, money, held) = SellReasons(order, held)
        BY <1>1, <1>2 DEF Reasons
    <1>4. ~Unbuildable(order) => SellReasons(order, held) = {}
        <2>1. ~(held > held)
            OBVIOUS
        <2> QED
            BY <1>1, <2>1 DEF SellReasons, Flag, Unbuildable
    <1> QED
        BY <1>1, <1>3, <1>4

Charged(row) ==
    IF Approved(row) THEN TransactionCost(row.order.side, row.order.quantity, row.order.open) ELSE 0

LEMMA RowFacts ==
    ASSUME costs \in Costs, NEW row, NEW before \in Portfolios, RowFollows(row, before)
    PROVE  /\ row.shares \in Nat
           /\ row.target = 0 => row.shares = 0
           /\ row.target = 1 => row.shares > 0 \/ row.cash < ShareCost(row.open)
           /\ Charged(row) \in Int
           /\ row.cash + row.shares * Value(row.open)
                = before.cash + before.shares * Value(row.open) - Charged(row)
    <1> DEFINE open == row.open  order == row.order
               money == before.cash  held == before.shares
    <1>1. /\ open \in Opens /\ open \in Nat /\ open > 0 /\ money \in Nat /\ held \in Nat
          /\ row.cash \in Nat /\ row.target \in {0, 1}
        BY Opening DEF RowFollows, Portfolios
    <1>2. Value(open) \in Int
        BY <1>1, CostsTyped DEF Value
    <1>3. CASE row.target = 1 /\ held = 0
        <2>1. order = ProposeOrder(1, open, money, 0)
            BY <1>3 DEF RowFollows
        <2>2. /\ order.side = "buy" /\ order.quantity \in Nat \ {0} /\ order.open = open
              /\ order.cash = money /\ order.shares = 0
              /\ order.change = CashChange("buy", order.quantity, open)
              /\ money >= ShareCost(open) => Reasons(order, money, 0) = {}
            BY <1>1, <2>1, EntryJudged
        <2>3. order # NoOrder
            BY <2>2 DEF NoOrder
        <2>4. row.reasons = Reasons(order, money, 0)
            BY <1>3, <2>3 DEF RowFollows
        <2>5. ShareCost(open) \in Nat
            BY <1>1, EntryCost
        <2>6. CASE row.reasons = {}
            <3> DEFINE q == order.quantity
            <3>1. Approved(row)
                BY <2>2, <2>6 DEF Approved
            <3>2. row.cash = money + order.change /\ row.shares = q
                BY <3>1, <2>2 DEF RowFollows, Filled
            <3>3. /\ CashChange("buy", q, open) \in Int /\ TransactionCost("buy", q, open) \in Int
                  /\ CashChange("buy", q, open) + q * Value(open) = -TransactionCost("buy", q, open)
                <4>1. q \in Nat /\ "buy" \in {"buy", "sell"}
                    BY <2>2
                <4> HIDE DEF q
                <4> QED
                    BY <1>1, <4>1, FillCost
            <3>4. Charged(row) = TransactionCost("buy", q, open)
                BY <3>1, <2>2 DEF Charged
            <3> QED
                BY <1>1, <1>2, <1>3, <2>2, <3>2, <3>3, <3>4
        <2>7. CASE row.reasons # {}
            <3>1. ~Approved(row)
                BY <2>7 DEF Approved
            <3>2. row.cash = money /\ row.shares = held /\ Charged(row) = 0
                BY <3>1 DEF RowFollows, Charged
            <3>3. money < ShareCost(open)
                BY <1>1, <2>2, <2>4, <2>5, <2>7
            <3> QED
                BY <1>1, <1>2, <1>3, <3>2, <3>3
        <2> QED
            BY <2>6, <2>7
    <1>4. CASE row.target = 0 /\ held > 0
        <2>1. order = ProposeOrder(0, open, money, held)
            BY <1>4 DEF RowFollows
        <2>2. /\ order.side = "sell" /\ order.quantity = held /\ order.open = open
              /\ order.cash = money /\ order.shares = held
              /\ order.change = CashChange("sell", held, open)
              /\ ~Unbuildable(order) => Reasons(order, money, held) = {}
            BY <1>1, <1>4, <2>1, ExitJudged
        <2>3. order # NoOrder
            BY <2>2 DEF NoOrder
        <2>4. row.reasons = {}
            BY <2>2, <2>3 DEF RowFollows
        <2>5. Approved(row)
            BY <2>2, <2>4 DEF Approved
        <2>6. row.cash = money + order.change /\ row.shares = 0
            BY <1>1, <2>5, <2>2 DEF RowFollows, Filled
        <2>7. /\ CashChange("sell", held, open) \in Int
              /\ TransactionCost("sell", held, open) \in Int
              /\ CashChange("sell", held, open) - held * Value(open)
                   = -TransactionCost("sell", held, open)
            BY <1>1, FillCost
        <2>8. Charged(row) = TransactionCost("sell", held, open)
            BY <2>5, <2>2 DEF Charged
        <2> QED
            BY <1>1, <1>2, <1>4, <2>2, <2>6, <2>7, <2>8
    <1>5. CASE (row.target = 1 /\ held > 0) \/ (row.target = 0 /\ held = 0)
        <2>1. order = NoOrder
            BY <1>1, <1>5 DEF RowFollows, ProposeOrder
        <2>2. ~Approved(row)
            BY <2>1 DEF Approved, NoOrder
        <2>3. row.cash = money /\ row.shares = held /\ Charged(row) = 0
            BY <2>2 DEF RowFollows, Charged
        <2> QED
            BY <1>1, <1>2, <1>5, <2>3
    <1> QED
        BY <1>1, <1>3, <1>4, <1>5

---------------------------------------------------------------------------
(* The books of a run *)

Codes ==
    {"invalid_portfolio_state", "order_cost_estimate_mismatch", "invalid_target_transition",
     "pyramiding_forbidden", "insufficient_cash", "leverage_forbidden",
     "maximum_position_exceeded", "full_exit_required", "invalid_price",
     "sell_quantity_exceeds_position", "short_selling_forbidden"}
Orders ==
    {NoOrder} \cup [side : {"buy", "sell"}, quantity : Nat \ {0}, target : {0, 1}, open : Opens,
                    change : Int, cash : Nat, shares : Nat]
Records == [target : {0, 1}, open : Opens, close : Closes, order : Orders,
            reasons : SUBSET Codes, cash : Nat, shares : Nat]

\* The portfolio after n sessions.
HeldAfter(n) == IF n = 0 THEN [cash |-> Value(InitialCash), shares |-> 0]
                    ELSE [cash |-> rows[n].cash, shares |-> rows[n].shares]

\* The records follow one from another, and the portfolio from the last.
Books ==
    /\ costs \in Costs /\ rows \in Seq(Records)
    /\ \A i \in 1..Len(rows) : RowFollows(rows[i], HeldAfter(i - 1))
    /\ cash = HeldAfter(Len(rows)).cash /\ shares = HeldAfter(Len(rows)).shares

BookInv == BacktestTypeOK /\ Books /\ (phase = "audit" => rows # <<>> /\ metrics = Metrics)

LEMMA HeldTyped ==
    ASSUME costs \in Costs, rows \in Seq(Records), NEW n \in 0..Len(rows)
    PROVE  HeldAfter(n) \in Portfolios
    <1>1. Value(InitialCash) \in Nat
        BY CostsTyped, Products, BacktestAssumption DEF BacktestAssumption, Value
    <1>2. CASE n = 0
        BY <1>1, <1>2 DEF HeldAfter, Portfolios
    <1>3. CASE n # 0
        <2>1. rows[n] \in Records
            BY <1>3
        <2> QED
            BY <1>3, <2>1 DEF HeldAfter, Portfolios, Records
    <1> QED
        BY <1>2, <1>3

\* What is proposed is an order, and it names the portfolio it is proposed in.
LEMMA Proposed ==
    ASSUME costs \in Costs, NEW target \in {0, 1}, NEW open \in Opens,
           NEW money \in Nat, NEW held \in Nat
    PROVE  ProposeOrder(target, open, money, held) \in Orders
    <1> DEFINE order == ProposeOrder(target, open, money, held)
    <1>1. CASE target = 1 /\ held = 0
        <2> DEFINE q == Max({1, Affordable(money, open)})
        <2>1. order = [side |-> "buy", quantity |-> q, target |-> target, open |-> open,
                       change |-> CashChange("buy", q, open), cash |-> money, shares |-> held]
            BY <1>1 DEF ProposeOrder, Order
        <2>2. q \in Nat \ {0}
            BY Sizing
        <2> HIDE DEF q
        <2>3. CashChange("buy", q, open) \in Int
            <3>1. q \in Nat /\ open \in Nat /\ "buy" \in {"buy", "sell"}
                BY <2>2, Opening
            <3> QED
                BY <3>1, FillCost
        <2> QED
            BY <2>1, <2>2, <2>3 DEF Orders
    <1>2. CASE target = 0 /\ held > 0
        <2>1. order = [side |-> "sell", quantity |-> held, target |-> target, open |-> open,
                       change |-> CashChange("sell", held, open), cash |-> money, shares |-> held]
            BY <1>2 DEF ProposeOrder, Order
        <2>2. CashChange("sell", held, open) \in Int
            <3>1. open \in Nat /\ "sell" \in {"buy", "sell"}
                BY Opening
            <3> QED
                BY <3>1, FillCost
        <2> QED
            BY <1>2, <2>1, <2>2 DEF Orders
    <1>3. CASE ~(target = 1 /\ held = 0) /\ ~(target = 0 /\ held > 0)
        BY <1>3 DEF ProposeOrder, Orders
    <1> QED
        BY <1>1, <1>2, <1>3

LEMMA ReasonsTyped ==
    ASSUME NEW order, NEW money, NEW held
    PROVE  Reasons(order, money, held) \in SUBSET Codes
    <1>1. ASSUME NEW x \in Misfits(order, money, held) PROVE x \in Codes
        BY DEF Misfits, Flag, Codes
    <1>2. ASSUME NEW x \in BuyReasons(order, money, held) PROVE x \in Codes
        BY DEF BuyReasons, Flag, Codes
    <1>3. ASSUME NEW x \in SellReasons(order, held) PROVE x \in Codes
        BY DEF SellReasons, Flag, Codes
    <1> QED
        BY <1>1, <1>2, <1>3 DEF Reasons

\* The costs of a run are fixed, so a session stands as it was judged.
LEMMA CostsFixed ==
    ASSUME costs' = costs
    PROVE  /\ \A target, open, money, held :
                 ProposeOrder(target, open, money, held)' = ProposeOrder(target, open, money, held)
           /\ \A order : Unbuildable(order)' <=> Unbuildable(order)
           /\ \A order, money, held : Reasons(order, money, held)' = Reasons(order, money, held)
    <1>1. \A side, open : ExecutionPrice(side, open)' = ExecutionPrice(side, open)
        BY DEF ExecutionPrice
    <1>2. \A side, q, open : CashChange(side, q, open)' = CashChange(side, q, open)
        BY <1>1 DEF CashChange, Commission
    <1>3. \A money, open : Affordable(money, open)' = Affordable(money, open)
        BY DEF Affordable, ShareCost
    <1>4. \A target, open, money, held :
             ProposeOrder(target, open, money, held)' = ProposeOrder(target, open, money, held)
        BY <1>2, <1>3 DEF ProposeOrder, Order
    <1>5. \A order : Unbuildable(order)' <=> Unbuildable(order)
        BY <1>1 DEF Unbuildable
    <1>6. \A order, money, held : Misfits(order, money, held)' = Misfits(order, money, held)
        BY <1>2 DEF Misfits
    <1>7. \A order, held : SellReasons(order, held)' = SellReasons(order, held)
        BY <1>1 DEF SellReasons
    <1>8. \A order, money, held : Reasons(order, money, held)' = Reasons(order, money, held)
        BY <1>6, <1>7 DEF Reasons, BuyReasons
    <1> QED
        BY <1>4, <1>5, <1>8

LEMMA BooksKept ==
    ASSUME Books, UNCHANGED <<costs, cash, shares, rows>>
    PROVE  Books'
    <1>1. costs' = costs /\ cash' = cash /\ shares' = shares /\ rows' = rows
        OBVIOUS
    <1>2. ASSUME NEW i \in 1..Len(rows) PROVE RowFollows(rows[i], HeldAfter(i - 1))'
        <2>1. RowFollows(rows[i], HeldAfter(i - 1))
            BY DEF Books
        <2> QED
            BY <1>1, <2>1, CostsFixed DEF RowFollows, HeldAfter, Approved
    <1> QED
        BY <1>1, <1>2 DEF Books, HeldAfter

\* One session.
LEMMA TradeKeeps ==
    ASSUME BookInv, NEW target \in {0, 1}, NEW open \in Opens, NEW close \in Closes,
           Trade(target, open, close)
    PROVE  BookInv'
    <1> DEFINE order == ProposeOrder(target, open, cash, shares)
               reasons == IF order = NoOrder THEN {} ELSE Reasons(order, cash, shares)
               after == After(order, reasons)
               row == [target |-> target, open |-> open, close |-> close, order |-> order,
                       reasons |-> reasons, cash |-> after.cash, shares |-> after.shares]
               n == Len(rows)
    <1>1. /\ phase = "trading" /\ n < MaxSessions /\ costs \in Costs /\ rows \in Seq(Records)
          /\ n \in Nat /\ cash \in Nat /\ shares \in Nat /\ at \in 1..(n + 1)
          /\ MaxSessions \in Nat /\ replayed \in Portfolios
        BY BacktestAssumption
        DEF BookInv, Books, BacktestTypeOK, Trade, BacktestAssumption, Portfolios
    <1>2. CASE Abort
        <2>1. Books'
            BY <1>2, BooksKept DEF Abort, BookInv
        <2> QED
            BY <1>2, <2>1 DEF Abort, BookInv, BacktestTypeOK
    <1>3. CASE ~Abort
        <2>1. ~(order # NoOrder /\ (Unbuildable(order) \/ after.cash < 0))
            BY <1>3 DEF Trade
        <2>2. /\ cash' = after.cash /\ shares' = after.shares /\ rows' = Append(rows, row)
              /\ UNCHANGED <<phase, costs, metrics, at, replayed>>
            BY <1>3, <2>1 DEF Trade
        <2>3. order \in Orders
            BY <1>1, Proposed
        <2>4. reasons \in SUBSET Codes
            BY ReasonsTyped
        <2>5. Approved(row) <=> order.side # "none" /\ reasons = {}
            BY DEF Approved
        <2>6. order.side = "none" <=> order = NoOrder
            BY <2>3 DEF Orders, NoOrder
        <2>7. HeldAfter(n) = [cash |-> cash, shares |-> shares]
            BY DEF BookInv, Books, HeldAfter
        <2>8. /\ after.cash = (IF Approved(row) THEN Filled(order).cash ELSE cash)
              /\ after.shares = (IF Approved(row) THEN Filled(order).shares ELSE shares)
            BY <2>5 DEF After
        <2> HIDE DEF order, reasons
        <2>9. after.cash \in Nat
            <3>1. CASE Approved(row)
                <4>1. order # NoOrder
                    BY <3>1, <2>5, <2>6
                <4>2. order.cash \in Nat /\ order.change \in Int
                    BY <4>1, <2>3 DEF Orders
                <4> QED
                    BY <3>1, <4>1, <4>2, <2>1, <2>8 DEF Filled
            <3>2. CASE ~Approved(row)
                BY <3>2, <1>1, <2>8
            <3> QED
                BY <3>1, <3>2
        <2>10. RowFollows(row, HeldAfter(n))
            BY <2>1, <2>7, <2>8, <2>9 DEF RowFollows, order, reasons
        <2>11. after.shares \in Nat
            <3>1. HeldAfter(n) \in Portfolios
                BY <1>1, <2>7 DEF Portfolios
            <3>2. row.shares \in Nat
                BY <1>1, <2>10, <3>1, RowFacts
            <3> QED
                BY <3>2
        <2> HIDE DEF after
        <2>12. row \in Records
            BY <2>3, <2>4, <2>9, <2>11 DEF Records
        <2> HIDE DEF row
        <2>13. /\ rows' \in Seq(Records) /\ Len(rows') = n + 1 /\ rows'[n + 1] = row
               /\ \A i \in 1..n : rows'[i] = rows[i]
            BY <1>1, <2>2, <2>12
        <2>14. \A i \in 0..n : HeldAfter(i)' = HeldAfter(i)
            BY <1>1, <2>13 DEF HeldAfter, Value, Unit
        <2>15. ASSUME NEW i \in 1..(n + 1) PROVE RowFollows(rows[i], HeldAfter(i - 1))'
            <3>1. costs' = costs
                BY <2>2
            <3>2. HeldAfter(i - 1)' = HeldAfter(i - 1)
                BY <2>14
            <3>3. RowFollows(rows'[i], HeldAfter(i - 1))
                <4>1. CASE i = n + 1
                    BY <1>1, <2>10, <2>13, <4>1
                <4>2. CASE i \in 1..n
                    BY <2>13, <4>2 DEF BookInv, Books
                <4> QED
                    BY <1>1, <4>1, <4>2
            <3> QED
                BY <3>1, <3>2, <3>3, CostsFixed DEF RowFollows, Approved
        <2>16. HeldAfter(Len(rows))' = [cash |-> row.cash, shares |-> row.shares]
            BY <1>1, <2>13 DEF HeldAfter
        <2>17. row.cash = after.cash /\ row.shares = after.shares
            BY DEF row
        <2>18. Books'
            BY <1>1, <2>2, <2>13, <2>15, <2>16, <2>17 DEF Books
        <2>19. BacktestTypeOK'
            BY <1>1, <2>2, <2>9, <2>11, <2>13 DEF BacktestTypeOK, Portfolios
        <2> QED
            BY <1>1, <2>2, <2>18, <2>19 DEF BookInv
    <1> QED
        BY <1>2, <1>3

LEMMA BookInit == BacktestInit => BookInv
    <1> SUFFICES ASSUME BacktestInit PROVE BookInv
        OBVIOUS
    <1>1. costs \in Costs /\ rows = <<>> /\ rows \in Seq(Records) /\ Len(rows) = 0
        BY DEF BacktestInit
    <1>2. Value(InitialCash) \in Nat
        BY <1>1, CostsTyped, Products, BacktestAssumption DEF BacktestAssumption, Value
    <1>3. Books
        BY <1>1 DEF BacktestInit, Books, HeldAfter
    <1>4. MaxSessions \in Nat
        BY BacktestAssumption DEF BacktestAssumption
    <1> QED
        BY <1>1, <1>2, <1>3, <1>4 DEF BacktestInit, BookInv, BacktestTypeOK

\* The metrics are taken once, of rows that stay.
LEMMA MeasureKeeps ==
    ASSUME BookInv, Measure
    PROVE  BookInv'
    <1>1. UNCHANGED <<costs, cash, shares, rows, at, replayed>>
          /\ phase' \in {"failed", "audit"}
        BY DEF Measure, Abort
    <1>2. Books'
        BY <1>1, BooksKept DEF BookInv
    <1>3. BacktestTypeOK'
        BY <1>1 DEF BookInv, BacktestTypeOK
    <1>4. phase' = "audit" => rows' # <<>> /\ metrics' = Metrics
        BY DEF Measure, Abort
    <1>5. Metrics' = Metrics
        BY <1>1 DEF Metrics, RowCost, Written, Amounts, TransactionCost, Commission,
            ExecutionPrice, ApprovedRows, ProposedRows, Equity
    <1> QED
        BY <1>2, <1>3, <1>4, <1>5 DEF BookInv

\* A fill is read back as a number that the audit has found not to be negative.
LEMMA ReplayTyped ==
    ASSUME costs \in Costs, NEW row \in Records, replayed \in Portfolios,
           Approved(row) => Readable(row)
    PROVE  Replay(row) \in Portfolios
    <1>1. CASE ~Approved(row)
        BY <1>1 DEF Replay
    <1>2. CASE Approved(row)
        <2> DEFINE o == row.order
                   p == Recorded(ExecutionPrice(o.side, o.open))
                   c == Recorded(Commission(o.side, o.quantity, o.open))
                   m == Recorded(o.cash)
        <2>1. o.side \in {"buy", "sell"} /\ o.quantity \in Nat /\ o.open \in Nat /\ o.cash \in Nat
              /\ row.shares \in Nat
            BY <1>2, Opening DEF Approved, Records, Orders, NoOrder
        <2>2. /\ ExecutionPrice(o.side, o.open) \in Int
              /\ Commission(o.side, o.quantity, o.open) \in Int
            BY <2>1, Prices
        <2>3. p \in Int /\ c \in Int /\ m \in Int
            BY <2>1, <2>2, Rounded
        <2>4. ReadBack(o).cash = m + (IF o.side = "buy" THEN -(o.quantity * p + c)
                                                        ELSE o.quantity * p - c)
            BY WrittenIs DEF ReadBack
        <2>5. ReadBack(o).cash >= 0
            BY <1>2 DEF Readable
        <2> HIDE DEF o, p, c, m
        <2>6. ReadBack(o).cash \in Nat
            BY <2>1, <2>3, <2>4, <2>5
        <2> QED
            BY <1>2, <2>1, <2>6 DEF Replay, Portfolios, o
    <1> QED
        BY <1>1, <1>2

LEMMA AuditKeeps ==
    ASSUME BookInv, AuditRow \/ Accept
    PROVE  BookInv'
    <1>1. UNCHANGED <<costs, cash, shares, rows, metrics>> /\ phase = "audit"
        BY DEF AuditRow, Accept
    <1>2. Books'
        BY <1>1, BooksKept DEF BookInv
    <1>3. Metrics' = Metrics
        BY <1>1 DEF Metrics, RowCost, Written, Amounts, TransactionCost, Commission,
            ExecutionPrice, ApprovedRows, ProposedRows, Equity
    <1>4. /\ phase' \in {"audit", "accepted", "refuted"} /\ at' \in 1..(Len(rows) + 1)
          /\ replayed' \in Portfolios
        <2>1. rows \in Seq(Records) /\ costs \in Costs /\ at \in 1..(Len(rows) + 1)
              /\ replayed \in Portfolios
            BY DEF BookInv, Books, BacktestTypeOK, Portfolios
        <2>2. CASE Accept
            BY <1>1, <2>1, <2>2 DEF Accept
        <2>3. CASE AuditRow /\ UNCHANGED <<replayed, at>>
            BY <1>1, <2>1, <2>3 DEF AuditRow
        <2>4. CASE AuditRow /\ ~UNCHANGED <<replayed, at>>
            <3>1. /\ at <= Len(rows) /\ replayed' = Replay(rows[at]) /\ at' = at + 1
                  /\ phase' = phase /\ (Approved(rows[at]) => Readable(rows[at]))
                BY <2>4 DEF AuditRow, FillStands
            <3>2. rows[at] \in Records
                BY <2>1, <3>1
            <3>3. replayed' \in Portfolios
                BY <2>1, <3>1, <3>2, ReplayTyped
            <3> QED
                BY <1>1, <2>1, <3>1, <3>3
        <2> QED
            BY <2>2, <2>3, <2>4
    <1>5. BacktestTypeOK'
        BY <1>1, <1>4 DEF BookInv, BacktestTypeOK, Portfolios
    <1> QED
        BY <1>1, <1>2, <1>3, <1>5 DEF BookInv

\* The records of a run follow one from another, the portfolio is that of the
\* last, and the metrics are those of the records (_run_validated_signal_backtest).
THEOREM BooksBalance == BacktestSpec => []BookInv
    <1>1. BookInv /\ [BacktestNext]_backtestVars => BookInv'
        <2> SUFFICES ASSUME BookInv, [BacktestNext]_backtestVars PROVE BookInv'
            OBVIOUS
        <2>1. CASE \E target \in {0, 1}, open \in Opens, close \in Closes :
                       Trade(target, open, close)
            BY <2>1, TradeKeeps
        <2>2. CASE Measure
            BY <2>2, MeasureKeeps
        <2>3. CASE AuditRow \/ Accept
            BY <2>3, AuditKeeps
        <2>4. CASE UNCHANGED backtestVars
            <3>1. Books'
                BY <2>4, BooksKept DEF backtestVars, BookInv
            <3>2. Metrics' = Metrics
                BY <2>4 DEF backtestVars, Metrics, RowCost, Written, Amounts, TransactionCost,
                    Commission, ExecutionPrice, ApprovedRows, ProposedRows, Equity
            <3> QED
                BY <2>4, <3>1, <3>2 DEF backtestVars, BookInv, BacktestTypeOK
        <2> QED
            BY <2>1, <2>2, <2>3, <2>4 DEF BacktestNext
    <1> QED
        BY <1>1, BookInit, PTL DEF BacktestSpec

\* Cash and shares are never negative, in the run or in its replay, whatever the
\* prices, the costs and the rounding (BacktestPortfolioState).
THEOREM BacktestTypeCorrect == BacktestSpec => []BacktestTypeOK
    <1>1. BookInv => BacktestTypeOK
        BY DEF BookInv
    <1> QED
        BY <1>1, BooksBalance, PTL

\* What a record in the books rests on.
LEMMA RowsStand ==
    ASSUME BookInv, NEW i \in 1..Len(rows)
    PROVE  /\ rows[i] \in Records /\ RowFollows(rows[i], HeldAfter(i - 1))
           /\ HeldAfter(i - 1) \in Portfolios /\ costs \in Costs
    <1>1. costs \in Costs /\ rows \in Seq(Records) /\ i - 1 \in 0..Len(rows)
        BY DEF BookInv, Books
    <1> QED
        BY <1>1, HeldTyped DEF BookInv, Books

\* The strategy gets what it asked for: no exit is rejected, and only an entry
\* too dear for one share is (propose_target_order, evaluate_order_risk).
THEOREM StrategyIsServed == BacktestSpec => []TargetIsReached
    <1>1. BookInv => TargetIsReached
        <2> SUFFICES ASSUME BookInv, NEW i \in DOMAIN rows
                     PROVE LET row == rows[i] IN
                           /\ row.target = 0 => row.shares = 0
                           /\ row.target = 1 => row.shares > 0 \/ row.cash < ShareCost(row.open)
            BY DEF TargetIsReached
        <2>1. i \in 1..Len(rows)
            BY DEF BookInv, Books
        <2> QED
            BY <2>1, RowsStand, RowFacts
    <1> QED
        BY <1>1, BooksBalance, PTL

---------------------------------------------------------------------------
(* Sums *)

\* Induction over the naturals with the set in the place of the predicate.
Below == {pair \in Nat \X Nat : pair[1] < pair[2]}

LEMMA BelowIsWellFounded == IsWellFoundedOn(Below, Nat)
    BY NatLessThanWellFounded DEF OpToRel, Below

LEMMA LeastElement ==
    ASSUME NEW T, T \subseteq Nat, T # {}
    PROVE  \E x \in T : \A y \in T : x <= y
    <1>1. \E x \in T : \A y \in T : <<y, x>> \notin Below
        BY BelowIsWellFounded, WFMin
    <1>2. ASSUME NEW x \in Nat, NEW y \in Nat, ~(x <= y) PROVE <<y, x>> \in Below
        BY <1>2 DEF Below
    <1> QED
        BY <1>1, <1>2

LEMMA SetInduction ==
    ASSUME NEW S, 0 \in S, \A n \in Nat : n \in S => n + 1 \in S
    PROVE  Nat \subseteq S
    <1> SUFFICES ASSUME Nat \ S # {} PROVE FALSE
        OBVIOUS
    <1>1. PICK x \in Nat \ S : \A y \in Nat \ S : x <= y
        BY LeastElement
    <1>2. x # 0 /\ x - 1 \in Nat /\ ~(x <= x - 1) /\ x = (x - 1) + 1
        BY <1>1
    <1>3. x - 1 \in S
        BY <1>1, <1>2
    <1> QED
        BY <1>1, <1>2, <1>3

\* The partial sums of a sequence of amounts.
Sums(f, a, n) == f = [i \in 0..n |-> IF i = 0 THEN 0 ELSE f[i - 1] + a[i]]

LEMMA SumsExist ==
    ASSUME NEW a, NEW n \in Nat
    PROVE  \E f : Sums(f, a, n)
    <1> DEFINE S == {k \in Nat : \E f : Sums(f, a, k)}
    <1>1. 0 \in S
        <2> DEFINE f0 == [i \in 0..0 |-> 0]
        <2>1. Sums(f0, a, 0)
            BY DEF Sums
        <2> QED
            BY <2>1
    <1>2. ASSUME NEW k \in Nat, k \in S PROVE k + 1 \in S
        <2>1. PICK f : Sums(f, a, k)
            BY <1>2
        <2> DEFINE last == f[k] + a[k + 1]
                   g == [i \in 0..(k + 1) |-> IF i = k + 1 THEN last ELSE f[i]]
        <2>2. ASSUME NEW i \in 0..(k + 1)
              PROVE g[i] = IF i = 0 THEN 0 ELSE g[i - 1] + a[i]
            <3>1. CASE i = 0
                <4>1. f[0] = 0
                    BY <2>1 DEF Sums
                <4> QED
                    BY <3>1, <4>1
            <3>2. CASE i = k + 1
                <4>1. i # 0 /\ i - 1 = k /\ k \in 0..(k + 1) /\ k # k + 1
                    BY <3>2
                <4>2. g[i - 1] = f[k] /\ g[i] = last
                    BY <3>2, <4>1
                <4> QED
                    BY <3>2, <4>1, <4>2
            <3>3. CASE i # 0 /\ i # k + 1
                <4>1. i \in 0..k /\ i - 1 # k + 1 /\ i - 1 \in 0..(k + 1)
                    BY <3>3
                <4>2. g[i] = f[i] /\ g[i - 1] = f[i - 1]
                    BY <3>3, <4>1
                <4>3. f[i] = IF i = 0 THEN 0 ELSE f[i - 1] + a[i]
                    BY <2>1, <4>1 DEF Sums
                <4> QED
                    BY <4>2, <4>3
            <3> QED
                BY <3>1, <3>2, <3>3
        <2> HIDE DEF last
        <2>3. Sums(g, a, k + 1)
            BY <2>2 DEF Sums
        <2> QED
            BY <2>3
    <1> HIDE DEF S
    <1>3. n \in S
        BY <1>1, <1>2, SetInduction
    <1> QED
        BY <1>3 DEF S

\* They are integers, each the one before and an amount.
LEMMA SumsTyped ==
    ASSUME NEW a, NEW n \in Nat, \A i \in 1..n : a[i] \in Int, NEW f, Sums(f, a, n)
    PROVE  /\ f[0] = 0 /\ \A i \in 0..n : f[i] \in Int
           /\ \A i \in 1..n : f[i] = f[i - 1] + a[i]
    <1> DEFINE S == {k \in Nat : k <= n => f[k] \in Int}
    <1>1. f[0] = 0 /\ \A i \in 1..n : f[i] = f[i - 1] + a[i]
        BY DEF Sums
    <1>2. 0 \in S
        BY <1>1
    <1>3. ASSUME NEW k \in Nat, k \in S PROVE k + 1 \in S
        <2> SUFFICES ASSUME k + 1 <= n PROVE f[k + 1] \in Int
            OBVIOUS
        <2>1. k + 1 \in 1..n /\ (k + 1) - 1 = k /\ f[k] \in Int
            BY <1>3
        <2>2. f[k + 1] = f[k] + a[k + 1]
            BY <1>1, <2>1
        <2> QED
            BY <2>1, <2>2
    <1> HIDE DEF S
    <1>4. Nat \subseteq S
        BY <1>2, <1>3, SetInduction
    <1> QED
        BY <1>1, <1>4 DEF S

LEMMA TotalIs ==
    ASSUME NEW n \in Nat, NEW a, Len(a) = n
    PROVE  \E f : Sums(f, a, n) /\ Total(a) = f[n]
    <1>1. \E f : Sums(f, a, n)
        BY SumsExist
    <1> QED
        BY <1>1 DEF Sums, Total

---------------------------------------------------------------------------
(* What the metrics report *)

LEMMA Marked ==
    ASSUME NEW s \in Int, NEW o \in Int, NEW m \in Int, NEW u \in Int
    PROVE  s * (o * u) - s * (m * u) = (s * (o - m)) * u
    OBVIOUS

Worth(n) == IF n = 0 THEN Value(InitialCash) ELSE Equity(rows[n])

\* One session changes the equity by what the positions gained and what was charged.
LEMMA SessionGain ==
    ASSUME BookInv, NEW n \in 1..Len(rows)
    PROVE  /\ Gain(n) \in Int /\ Charged(rows[n]) \in Int
           /\ Worth(n - 1) \in Int /\ Worth(n) \in Int
           /\ Worth(n) = Worth(n - 1) + Gain(n) * Unit - Charged(rows[n])
    <1> DEFINE row == rows[n]
               before == HeldAfter(n - 1)
               mark == IF n = 1 THEN row.open ELSE rows[n - 1].close
               s == before.shares  t == row.shares
               o == row.open       c == row.close
    <1>1. row \in Records /\ RowFollows(row, before) /\ before \in Portfolios /\ costs \in Costs
        BY RowsStand
    <1>2. /\ Charged(row) \in Int
          /\ row.cash + t * Value(o) = before.cash + s * Value(o) - Charged(row)
        BY <1>1, RowFacts
    <1>3. Unit \in Int /\ s \in Int /\ t \in Int /\ o \in Int /\ c \in Int /\ row.cash \in Int
          /\ before.cash \in Int
        <2>1. Unit \in Int
            BY <1>1, CostsTyped
        <2>2. Opens \subseteq Int /\ Closes \subseteq Int
            BY BacktestAssumption DEF BacktestAssumption
        <2> HIDE DEF row, before
        <2>3. row.open \in Opens /\ row.close \in Closes /\ row.cash \in Nat /\ row.shares \in Nat
            BY <1>1 DEF Records
        <2>4. before.cash \in Nat /\ before.shares \in Nat
            BY <1>1 DEF Portfolios
        <2>5. o \in Int /\ c \in Int
            BY <2>2, <2>3
        <2>6. s \in Int /\ t \in Int /\ row.cash \in Int /\ before.cash \in Int
            BY <2>3, <2>4
        <2> QED
            BY <2>1, <2>5, <2>6
    <1>4. mark \in Int /\ Worth(n - 1) = before.cash + s * Value(mark)
        <2>1. CASE n = 1
            <3>1. s = 0 /\ Worth(n - 1) = before.cash /\ mark = o
                BY <2>1 DEF HeldAfter, Worth
            <3>2. Value(mark) \in Int
                BY <1>3, <3>1 DEF Value
            <3> HIDE DEF s, mark, o
            <3>3. s * Value(mark) = 0
                BY <3>1, <3>2
            <3> QED
                BY <1>3, <3>1, <3>3
        <2>2. CASE n # 1
            <3>1. n - 1 \in 1..Len(rows)
                BY <2>2
            <3>2. rows[n - 1] \in Records
                BY <3>1, RowsStand
            <3>3. mark \in Int
                <4>1. rows[n - 1].close \in Closes
                    BY <3>2 DEF Records
                <4>2. Closes \subseteq Int
                    BY BacktestAssumption DEF BacktestAssumption
                <4>3. mark = rows[n - 1].close
                    BY <2>2
                <4> QED
                    BY <4>1, <4>2, <4>3
            <3>4. before = [cash |-> rows[n - 1].cash, shares |-> rows[n - 1].shares]
                BY <2>2 DEF HeldAfter
            <3>5. Worth(n - 1) = rows[n - 1].cash + rows[n - 1].shares * Value(rows[n - 1].close)
                BY <3>1 DEF Worth, Equity
            <3>6. mark = rows[n - 1].close
                BY <2>2
            <3> QED
                BY <3>3, <3>4, <3>5, <3>6
        <2> QED
            BY <2>1, <2>2
    <1>5. Gain(n) = s * (o - mark) + t * (c - o)
        BY DEF Gain, HeldAfter
    <1>6. Worth(n) = row.cash + t * Value(c)
        BY DEF Worth, Equity
    <1>7. Value(o) = o * Unit /\ Value(mark) = mark * Unit /\ Value(c) = c * Unit
        BY DEF Value
    <1> HIDE DEF row, before, mark, s, t, o, c
    <1> DEFINE g == s * (o - mark)  h == t * (c - o)
    <1>8. g \in Int /\ h \in Int
        BY <1>3, <1>4
    <1>9. s * Value(o) - s * Value(mark) = g * Unit /\ t * Value(c) - t * Value(o) = h * Unit
        BY <1>3, <1>4, <1>7, Marked
    <1>10. s * Value(o) \in Int /\ s * Value(mark) \in Int /\ t * Value(o) \in Int
           /\ t * Value(c) \in Int
        BY <1>3, <1>4, <1>7
    <1> HIDE DEF g, h
    <1>11. Gain(n) = g + h /\ (g + h) * Unit = g * Unit + h * Unit
        BY <1>3, <1>5, <1>8 DEF g, h
    <1>12. Charged(rows[n]) = Charged(row)
        BY DEF row
    <1>13. g * Unit \in Int /\ h * Unit \in Int
        BY <1>3, <1>8
    <1>14. row.cash + t * Value(c)
              = (before.cash + s * Value(mark)) + (g * Unit + h * Unit) - Charged(row)
        <2> DEFINE x == row.cash  y == before.cash  ch == Charged(row)
                   to == t * Value(o)  tc == t * Value(c)
                   so == s * Value(o)  sm == s * Value(mark)
                   gu == g * Unit      hu == h * Unit
        <2>1. x + to = y + so - ch /\ so - sm = gu /\ tc - to = hu
            BY <1>2, <1>9
        <2>2. /\ x \in Int /\ y \in Int /\ ch \in Int /\ to \in Int /\ tc \in Int
              /\ so \in Int /\ sm \in Int /\ gu \in Int /\ hu \in Int
            BY <1>2, <1>3, <1>10, <1>13
        <2> HIDE DEF x, y, ch, to, tc, so, sm, gu, hu
        <2>3. x + tc = (y + sm) + (gu + hu) - ch
            BY <2>1, <2>2
        <2> QED
            BY <2>3 DEF x, y, ch, tc, sm, gu, hu
    <1>15. before.cash + s * Value(mark) \in Int /\ row.cash + t * Value(c) \in Int
        BY <1>3, <1>10
    <1>16. Worth(n) = Worth(n - 1) + Gain(n) * Unit - Charged(rows[n])
        <2>1. Gain(n) * Unit = g * Unit + h * Unit
            BY <1>11
        <2> QED
            BY <1>4, <1>6, <1>12, <1>14, <2>1
    <1>17. Gain(n) \in Int /\ Charged(rows[n]) \in Int
        BY <1>2, <1>8, <1>11, <1>12
    <1>18. Worth(n - 1) \in Int /\ Worth(n) \in Int
        BY <1>4, <1>6, <1>15
    <1> QED
        BY <1>16, <1>17, <1>18

ApprovedTo(n) == {i \in 1..n : Approved(rows[i])}

LEMMA ApprovedCount ==
    ASSUME NEW n \in Nat
    PROVE  /\ Cardinality(ApprovedTo(n)) \in Nat
           /\ n = 0 => Cardinality(ApprovedTo(n)) = 0
           /\ Cardinality(ApprovedTo(n + 1)) = Cardinality(ApprovedTo(n))
                + (IF Approved(rows[n + 1]) THEN 1 ELSE 0)
    <1>1. IsFiniteSet(ApprovedTo(n)) /\ Cardinality(ApprovedTo(n)) \in Nat
        <2>1. IsFiniteSet(1..n)
            BY FS_Interval
        <2>2. ApprovedTo(n) \subseteq 1..n
            BY DEF ApprovedTo
        <2>3. IsFiniteSet(ApprovedTo(n))
            BY <2>1, <2>2, FS_Subset
        <2> QED
            BY <2>3, FS_CardinalityType
    <1>2. n = 0 => Cardinality(ApprovedTo(n)) = 0
        <2>1. n = 0 => ApprovedTo(n) = {}
            BY DEF ApprovedTo
        <2> QED
            BY <2>1, FS_EmptySet
    <1>3. CASE Approved(rows[n + 1])
        <2>1. ApprovedTo(n + 1) = ApprovedTo(n) \cup {n + 1} /\ n + 1 \notin ApprovedTo(n)
            BY <1>3 DEF ApprovedTo
        <2> QED
            BY <1>1, <1>2, <1>3, <2>1, FS_AddElement
    <1>4. CASE ~Approved(rows[n + 1])
        <2>1. ApprovedTo(n + 1) = ApprovedTo(n)
            BY <1>4 DEF ApprovedTo
        <2> QED
            BY <1>1, <1>2, <1>4, <2>1
    <1> QED
        BY <1>3, <1>4

\* A reported cost is half a grain from the charge.
LEMMA ReportedCost ==
    ASSUME NEW row, Charged(row) \in Int
    PROVE  LET c == IF Approved(row) THEN RowCost(row) ELSE 0 IN
           /\ c \in Int
           /\ 2 * Abs(c - Charged(row)) <= (IF Approved(row) THEN Grain ELSE 0)
    <1>1. CASE Approved(row)
        <2>1. RowCost(row) = Recorded(Charged(row))
            BY <1>1, WrittenIs DEF RowCost, Charged
        <2> QED
            BY <1>1, <2>1, Rounded
    <1>2. CASE ~Approved(row)
        BY <1>2 DEF Charged, Abs
    <1> QED
        BY <1>1, <1>2

LEMMA ErrorsAdd ==
    ASSUME NEW a \in Int, NEW b \in Int, NEW g \in Int, NEW h \in Int,
           2 * Abs(a) <= g, 2 * Abs(b) <= h
    PROVE  2 * Abs(a + b) <= g + h
    BY DEF Abs

\* After n sessions: the equity is what the positions earned less the charges,
\* and what is reported of the charges is off by half a grain for each fill.
LEMMA Accounts ==
    ASSUME BookInv, NEW e, NEW x, NEW t, NEW N, N = Len(rows),
           Sums(e, [i \in 1..N |-> Gain(i)], N),
           Sums(x, [i \in 1..N |-> Charged(rows[i])], N),
           Sums(t, [i \in 1..N |-> IF Approved(rows[i]) THEN RowCost(rows[i]) ELSE 0], N)
    PROVE  \A n \in 0..N :
              /\ e[n] \in Int /\ x[n] \in Int /\ t[n] \in Int
              /\ Worth(n) = Value(InitialCash) + e[n] * Unit - x[n]
              /\ 2 * Abs(t[n] - x[n]) <= Grain * Cardinality(ApprovedTo(n))
    <1>1. N \in Nat /\ costs \in Costs /\ Grain \in Nat
        BY BacktestAssumption DEF BookInv, Books, BacktestAssumption
    <1>2. \A i \in 1..N : Gain(i) \in Int /\ Charged(rows[i]) \in Int
        BY SessionGain
    <1>3. \A i \in 1..N : (IF Approved(rows[i]) THEN RowCost(rows[i]) ELSE 0) \in Int
        BY <1>2, ReportedCost
    <1>4. /\ e[0] = 0 /\ \A i \in 0..N : e[i] \in Int
          /\ \A i \in 1..N : e[i] = e[i - 1] + Gain(i)
        <2> DEFINE gains == [j \in 1..N |-> Gain(j)]
        <2>1. \A i \in 1..N : gains[i] = Gain(i) /\ gains[i] \in Int
            BY <1>2
        <2>2. Sums(e, gains, N)
            OBVIOUS
        <2> HIDE DEF gains
        <2>3. /\ e[0] = 0 /\ \A i \in 0..N : e[i] \in Int
              /\ \A i \in 1..N : e[i] = e[i - 1] + gains[i]
            BY <1>1, <2>1, <2>2, SumsTyped
        <2> QED
            BY <2>1, <2>3
    <1>5. /\ x[0] = 0 /\ \A i \in 0..N : x[i] \in Int
          /\ \A i \in 1..N : x[i] = x[i - 1] + Charged(rows[i])
        <2> DEFINE charges == [i \in 1..N |-> Charged(rows[i])]
        <2>1. \A i \in 1..N : charges[i] = Charged(rows[i]) /\ charges[i] \in Int
            BY <1>2
        <2>2. Sums(x, charges, N)
            OBVIOUS
        <2> HIDE DEF charges
        <2>3. /\ x[0] = 0 /\ \A i \in 0..N : x[i] \in Int
              /\ \A i \in 1..N : x[i] = x[i - 1] + charges[i]
            BY <1>1, <2>1, <2>2, SumsTyped
        <2> QED
            BY <2>1, <2>3
    <1> DEFINE C(i) == IF Approved(rows[i]) THEN RowCost(rows[i]) ELSE 0
    <1>6. /\ t[0] = 0 /\ \A i \in 0..N : t[i] \in Int
          /\ \A i \in 1..N : t[i] = t[i - 1] + C(i)
        <2> DEFINE reported == [i \in 1..N |-> C(i)]
        <2>1. \A i \in 1..N : reported[i] = C(i) /\ reported[i] \in Int
            BY <1>3
        <2>2. Sums(t, reported, N)
            OBVIOUS
        <2> HIDE DEF reported, C
        <2>3. /\ t[0] = 0 /\ \A i \in 0..N : t[i] \in Int
              /\ \A i \in 1..N : t[i] = t[i - 1] + reported[i]
            BY <1>1, <2>1, <2>2, SumsTyped
        <2> QED
            BY <2>1, <2>3
    <1> DEFINE A(n) == Worth(n) = Value(InitialCash) + e[n] * Unit - x[n]
               B(n) == 2 * Abs(t[n] - x[n]) <= Grain * Cardinality(ApprovedTo(n))
               S == {n \in Nat : n <= N => A(n) /\ B(n)}
    <1>7. Value(InitialCash) \in Int /\ Unit \in Int
        BY <1>1, CostsTyped, BacktestAssumption DEF BacktestAssumption, Value
    <1>8. 0 \in S
        <2>1. A(0)
            BY <1>4, <1>5, <1>7 DEF Worth
        <2>2. B(0)
            BY <1>1, <1>5, <1>6, ApprovedCount DEF Abs
        <2> QED
            BY <2>1, <2>2
    <1>9. ASSUME NEW k \in Nat, k \in S PROVE k + 1 \in S
        <2> SUFFICES ASSUME k + 1 <= N PROVE A(k + 1) /\ B(k + 1)
            BY <1>9
        <2> DEFINE n == k + 1
        <2>1. n \in 1..N /\ n - 1 = k /\ k \in 0..N /\ n \in 0..N /\ A(k) /\ B(k)
            BY <1>1, <1>9
        <2> HIDE DEF n, A, B
        <2>2. /\ Worth(n) = Worth(k) + Gain(n) * Unit - Charged(rows[n])
              /\ Worth(k) \in Int /\ Gain(n) \in Int /\ Charged(rows[n]) \in Int
            BY <2>1, SessionGain
        <2>3. e[n] = e[k] + Gain(n) /\ x[n] = x[k] + Charged(rows[n]) /\ t[n] = t[k] + C(n)
            BY <1>4, <1>5, <1>6, <2>1
        <2>4. e[k] \in Int /\ x[k] \in Int /\ t[k] \in Int
            BY <1>4, <1>5, <1>6, <2>1
        <2>5. /\ C(n) \in Int
              /\ 2 * Abs(C(n) - Charged(rows[n])) <= (IF Approved(rows[n]) THEN Grain ELSE 0)
            BY <2>2, ReportedCost
        <2> HIDE DEF C
        <2>6. A(n)
            <3> DEFINE g == Gain(n)  c == Charged(rows[n])  ek == e[k]  xk == x[k]
                       V == Value(InitialCash)  w == Worth(k)
            <3>1. w = V + ek * Unit - xk
                BY <2>1 DEF A
            <3>2. Worth(n) = w + g * Unit - c /\ e[n] = ek + g /\ x[n] = xk + c
                BY <2>2, <2>3
            <3>3. g \in Int /\ c \in Int /\ ek \in Int /\ xk \in Int /\ V \in Int /\ Unit \in Int
                BY <1>7, <2>2, <2>4
            <3> HIDE DEF g, c, ek, xk, V, w
            <3>4. (ek + g) * Unit = ek * Unit + g * Unit /\ ek * Unit \in Int /\ g * Unit \in Int
                BY <3>3
            <3> DEFINE p == ek * Unit  q == g * Unit
            <3> HIDE DEF p, q
            <3>5. V + p - xk + q - c = V + (p + q) - (xk + c)
                BY <3>3, <3>4 DEF p, q
            <3>6. Worth(n) = V + e[n] * Unit - x[n]
                BY <3>1, <3>2, <3>4, <3>5 DEF p, q
            <3> QED
                BY <3>6 DEF A, V
        <2>7. B(n)
            <3> DEFINE m == Cardinality(ApprovedTo(k))
                       h == IF Approved(rows[n]) THEN 1 ELSE 0
                       a == t[k] - x[k]
                       b == C(n) - Charged(rows[n])
            <3>1. m \in Nat /\ Cardinality(ApprovedTo(n)) = m + h /\ h \in {0, 1}
                BY <2>1, ApprovedCount DEF n
            <3>2. a \in Int /\ b \in Int /\ t[n] - x[n] = a + b
                <4>1. a \in Int /\ b \in Int
                    BY <2>2, <2>4, <2>5
                <4> DEFINE tk == t[k]  xk == x[k]  cn == C(n)  dn == Charged(rows[n])
                <4>2. t[n] = tk + cn /\ x[n] = xk + dn
                    BY <2>3
                <4>3. tk \in Int /\ xk \in Int /\ cn \in Int /\ dn \in Int
                    BY <2>2, <2>4, <2>5
                <4> HIDE DEF tk, xk, cn, dn
                <4>4. (tk + cn) - (xk + dn) = (tk - xk) + (cn - dn)
                    BY <4>3
                <4> QED
                    BY <4>1, <4>2, <4>4 DEF tk, xk, cn, dn
            <3>3. 2 * Abs(a) <= Grain * m
                BY <2>1 DEF B
            <3>4. 2 * Abs(b) <= Grain * h
                BY <1>1, <2>5
            <3> HIDE DEF m, h, a, b
            <3>5. Grain * m \in Int /\ Grain * h \in Int /\ Grain * m + Grain * h = Grain * (m + h)
                BY <1>1, <3>1
            <3>6. 2 * Abs(a + b) <= Grain * m + Grain * h
                BY <3>2, <3>3, <3>4, <3>5, ErrorsAdd
            <3> QED
                BY <3>1, <3>2, <3>5, <3>6 DEF B
        <2> QED
            BY <2>6, <2>7 DEF n
    <1> HIDE DEF S
    <1>10. Nat \subseteq S
        BY <1>8, <1>9, SetInduction
    <1> QED
        BY <1>4, <1>5, <1>6, <1>10 DEF S

LEMMA BooksAddUp == BookInv => MetricsAddUp
    <1> SUFFICES ASSUME BookInv, phase = "audit"
                 PROVE LET earned == Total([i \in DOMAIN rows |-> Gain(i)])
                           explained == Value(InitialCash + earned) - metrics.totalCost
                       IN  /\ 2 * Abs(metrics.finalEquity - explained)
                                <= Grain * (metrics.approved + 1)
                           /\ metrics.approved <= metrics.proposed
                           /\ metrics.exposed
                                = Cardinality({i \in DOMAIN rows :
                                                 rows[i].target = 1 /\ rows[i].shares > 0})
        BY DEF MetricsAddUp
    <1> DEFINE N == Len(rows)
               gains == [i \in 1..N |-> Gain(i)]
               charges == [i \in 1..N |-> Charged(rows[i])]
               reported == [i \in 1..N |-> IF Approved(rows[i]) THEN RowCost(rows[i]) ELSE 0]
    <1>1. /\ costs \in Costs /\ rows \in Seq(Records) /\ rows # <<>> /\ metrics = Metrics
          /\ N \in Nat \ {0} /\ DOMAIN rows = 1..N
        BY DEF BookInv, Books
    <1>2. Len(gains) = N /\ Len(charges) = N /\ Len(reported) = N
        BY <1>1
    <1>3. PICK e : Sums(e, gains, N) /\ Total(gains) = e[N]
        BY <1>1, <1>2, TotalIs
    <1>4. PICK t : Sums(t, reported, N) /\ Total(reported) = t[N]
        BY <1>1, <1>2, TotalIs
    <1>5. PICK x : Sums(x, charges, N)
        BY <1>1, SumsExist
    <1>6. /\ e[N] \in Int /\ x[N] \in Int /\ t[N] \in Int
          /\ Worth(N) = Value(InitialCash) + e[N] * Unit - x[N]
          /\ 2 * Abs(t[N] - x[N]) <= Grain * Cardinality(ApprovedTo(N))
        <2>1. N \in 0..N
            BY <1>1
        <2> QED
            BY <1>3, <1>4, <1>5, <2>1, Accounts
    <1>7. Worth(N) \in Int /\ Worth(N) = Equity(rows[N])
        BY <1>1, SessionGain DEF Worth
    <1>8. /\ metrics.finalEquity = Recorded(Worth(N)) /\ metrics.totalCost = t[N]
          /\ metrics.proposed = Cardinality(ProposedRows)
          /\ metrics.approved = Cardinality(ApprovedTo(N))
          /\ metrics.exposed = Cardinality({i \in DOMAIN rows : rows[i].shares > 0})
        <2>1. ApprovedRows = ApprovedTo(N)
            BY <1>1 DEF ApprovedRows, ApprovedTo
        <2> QED
            BY <1>1, <1>4, <1>7, <2>1 DEF Metrics
    <1>9. 2 * Abs(metrics.finalEquity - (Value(InitialCash + e[N]) - metrics.totalCost))
             <= Grain * (metrics.approved + 1)
        <2> DEFINE k == Cardinality(ApprovedTo(N))
                   V == Value(InitialCash)
                   a == Recorded(Worth(N)) - Worth(N)
                   b == t[N] - x[N]
                   p == e[N] * Unit
        <2>1. k \in Nat /\ Grain \in Nat /\ InitialCash \in Int /\ Unit \in Int
            BY <1>1, ApprovedCount, CostsTyped, BacktestAssumption DEF BacktestAssumption
        <2>2. a \in Int /\ b \in Int /\ 2 * Abs(a) <= Grain /\ 2 * Abs(b) <= Grain * k
              /\ Recorded(Worth(N)) \in Int
            <3>1. Recorded(Worth(N)) \in Int /\ 2 * Abs(Recorded(Worth(N)) - Worth(N)) <= Grain
                BY <1>7, Rounded
            <3>2. b \in Int /\ 2 * Abs(b) <= Grain * k
                BY <1>6
            <3>3. a \in Int
                BY <3>1, <1>7
            <3> QED
                BY <3>1, <3>2, <3>3
        <2>3. Value(InitialCash + e[N]) = V + p /\ p \in Int /\ V \in Int
            BY SMTT(30), <1>6, <2>1 DEF Value
        <2>4. Recorded(Worth(N)) - ((V + p) - t[N]) = a + b
            <3>1. Worth(N) = V + p - x[N]
                BY <1>6
            <3> DEFINE w == Worth(N)  r == Recorded(Worth(N))  xn == x[N]  tn == t[N]
            <3>2. w = V + p - xn /\ w \in Int /\ r \in Int /\ xn \in Int /\ tn \in Int
                BY <3>1, <1>6, <1>7, <2>2
            <3> HIDE DEF w, r, xn, tn, V, p
            <3>3. r - ((V + p) - tn) = (r - w) + (tn - xn)
                BY <3>2, <2>3
            <3> QED
                BY <3>3 DEF w, r, xn, tn
        <2> HIDE DEF k, a, b
        <2>5. Grain * k \in Int /\ Grain + Grain * k = Grain * (k + 1)
            BY <2>1
        <2>6. 2 * Abs(a + b) <= Grain + Grain * k
            BY <2>1, <2>2, <2>5, ErrorsAdd
        <2> QED
            BY <1>8, <2>3, <2>4, <2>5, <2>6 DEF k
    <1>10. metrics.approved <= metrics.proposed
        <2>1. ApprovedTo(N) \subseteq ProposedRows /\ ProposedRows \subseteq 1..N
            BY <1>1 DEF ApprovedTo, ProposedRows, Approved
        <2>2. IsFiniteSet(ProposedRows)
            <3>1. IsFiniteSet(1..N)
                BY <1>1, FS_Interval
            <3> QED
                BY <2>1, <3>1, FS_Subset
        <2>3. Cardinality(ApprovedTo(N)) <= Cardinality(ProposedRows)
            BY <2>1, <2>2, FS_Subset
        <2> QED
            BY <1>8, <2>3
    <1>11. {i \in DOMAIN rows : rows[i].shares > 0}
              = {i \in DOMAIN rows : rows[i].target = 1 /\ rows[i].shares > 0}
        <2> SUFFICES ASSUME NEW i \in 1..N, rows[i].shares > 0 PROVE rows[i].target = 1
            BY <1>1
        <2>1. rows[i] \in Records /\ (rows[i].target = 0 => rows[i].shares = 0)
            BY RowsStand, RowFacts
        <2> QED
            BY <2>1 DEF Records
    <1> QED
        BY <1>1, <1>3, <1>8, <1>9, <1>10, <1>11

\* The reported metrics explain each other, whatever the rounding and however
\* many fills: the final equity is the initial cash and what the positions earned
\* less the reported costs, up to half a grain for each (calculate_backtest_metrics).
THEOREM MetricsExplained == BacktestSpec => []MetricsAddUp
    BY BooksAddUp, BooksBalance, PTL

---------------------------------------------------------------------------
(* Rounding and the edge *)

LEMMA Remainder ==
    ASSUME NEW m \in Int, NEW d \in Nat \ {0}
    PROVE  /\ m % d \in Int /\ m % d >= 0 /\ m % d < d
           /\ m % d = m - d * (m \div d)
    <1>1. m % d \in Int /\ m % d >= 0 /\ m % d < d
        OBVIOUS
    <1>2. m % d = m - d * (m \div d)
        OBVIOUS
    <1> QED
        BY <1>1, <1>2

LEMMA Grains ==
    ASSUME costs \in Costs
    PROVE  Grain \in Nat \ {0} /\ Tolerance \in Nat /\ Unit \in Nat /\ Unit >= Grain
    <1>1. /\ Grain \in Nat \ {0} /\ Tolerance \in Nat /\ Unit % Grain = 0
          /\ Unit \in Nat /\ Unit > 0
        BY CostsTyped, BacktestAssumption DEF BacktestAssumption
    <1>2. Unit = Grain * (Unit \div Grain) /\ Unit \div Grain \in Int
        BY <1>1, Remainder, Division
    <1>3. Unit \div Grain > 0
        BY <1>1, <1>2
    <1> DEFINE k == Unit \div Grain
    <1> HIDE DEF k
    <1>4. Grain * k >= Grain * 1
        BY <1>1, <1>2, <1>3, Monotone DEF k
    <1> QED
        BY <1>1, <1>2, <1>4 DEF k

\* An error of half a grain, for each share.
LEMMA ErrorTimes ==
    ASSUME NEW x \in Int, NEW y \in Int, NEW q \in Nat, 2 * Abs(y - x) <= Grain
    PROVE  2 * Abs(q * y - q * x) <= Grain * q
    <1>1. Grain \in Nat
        BY BacktestAssumption DEF BacktestAssumption
    <1> DEFINE e == y - x
    <1>2. e \in Int /\ 2 * e <= Grain /\ -(2 * e) <= Grain
        BY <1>1 DEF Abs
    <1>3. q * y - q * x = q * e
        BY <1>1
    <1> HIDE DEF e
    <1>4. q * (2 * e) <= q * Grain /\ q * (-(2 * e)) <= q * Grain
        BY <1>1, <1>2, Monotone
    <1>5. q * (2 * e) = 2 * (q * e) /\ q * (-(2 * e)) = -(2 * (q * e)) /\ q * Grain = Grain * q
          /\ q * e \in Int
        BY <1>1, <1>2
    <1> DEFINE p == q * e
    <1> HIDE DEF p
    <1> QED
        BY <1>3, <1>4, <1>5 DEF Abs, p

\* A rounded price times a quantity.
LEMMA RoundedTimes ==
    ASSUME NEW x \in Int, NEW q \in Nat
    PROVE  2 * Abs(q * Recorded(x) - q * x) <= Grain * q
    BY Rounded, ErrorTimes

LEMMA LargestPosition ==
    ASSUME BookInv
    PROVE  /\ Max({0} \cup {rows[i].shares : i \in DOMAIN rows}) \in Nat
           /\ \A i \in 1..Len(rows) :
                 rows[i].shares <= Max({0} \cup {rows[j].shares : j \in DOMAIN rows})
    <1> DEFINE N == Len(rows)
               Held(n) == {0} \cup {rows[i].shares : i \in 1..n}
               S == {n \in Nat : n <= N => \E m \in Held(n) : \A h \in Held(n) : m >= h}
    <1>1. rows \in Seq(Records) /\ N \in Nat /\ DOMAIN rows = 1..N
        BY DEF BookInv, Books
    <1>2. ASSUME NEW i \in 1..N PROVE rows[i].shares \in Nat
        <2>1. rows[i] \in Records
            BY <1>1
        <2> QED
            BY <2>1 DEF Records
    <1>3. 0 \in S
        <2>1. Held(0) = {0}
            OBVIOUS
        <2>2. 0 \in Held(0) /\ \A h \in Held(0) : 0 >= h
            BY <2>1
        <2> HIDE DEF Held
        <2>3. \E m \in Held(0) : \A h \in Held(0) : m >= h
            BY <2>2
        <2> QED
            BY <2>3
    <1>4. ASSUME NEW k \in Nat, k \in S PROVE k + 1 \in S
        <2> SUFFICES ASSUME k + 1 <= N PROVE \E m \in Held(k + 1) : \A h \in Held(k + 1) : m >= h
            OBVIOUS
        <2>1. PICK m \in Held(k) : \A h \in Held(k) : m >= h
            BY <1>1, <1>4
        <2>2. Held(k + 1) = Held(k) \cup {rows[k + 1].shares}
            <3>1. 1..(k + 1) = (1..k) \cup {k + 1}
                OBVIOUS
            <3> QED
                BY <3>1
        <2>3. m \in Nat /\ rows[k + 1].shares \in Nat /\ \A h \in Held(k) : h \in Nat
            BY <1>1, <1>2
        <2> HIDE DEF Held
        <2>4. CASE m >= rows[k + 1].shares
            BY <2>1, <2>2, <2>3, <2>4
        <2>5. CASE m < rows[k + 1].shares
            BY <2>1, <2>2, <2>3, <2>5
        <2> QED
            BY <2>3, <2>4, <2>5
    <1> HIDE DEF S
    <1>5. N \in S
        BY <1>1, <1>3, <1>4, SetInduction
    <1>6. PICK m \in Held(N) : \A h \in Held(N) : m >= h
        BY <1>1, <1>5 DEF S
    <1>7. /\ Max(Held(N)) \in Held(N)
          /\ \A h \in Held(N) : Max(Held(N)) >= h
        BY <1>6 DEF Max
    <1>8. /\ Max(Held(N)) \in Nat
          /\ \A i \in 1..N : Max(Held(N)) >= rows[i].shares /\ rows[i].shares \in Nat
        BY <1>2, <1>7
    <1>9. {0} \cup {rows[i].shares : i \in DOMAIN rows} = Held(N)
        BY <1>1
    <1> HIDE DEF Held
    <1> QED
        BY <1>8, <1>9

\* Twice the difference is at most g.
Within(x, y, g) == 2 * Abs(x - y) <= g

LEMMA WithinTyped ==
    ASSUME NEW x \in Int, NEW y \in Int, NEW g \in Int
    PROVE  Within(x, y, g) <=> 2 * (x - y) <= g /\ 2 * (y - x) <= g
    BY DEF Within, Abs

LEMMA WithinAdds ==
    ASSUME NEW x \in Int, NEW y \in Int, NEW z \in Int, NEW g \in Int, NEW h \in Int,
           Within(x, y, g), Within(y, z, h)
    PROVE  Within(x, z, g + h) /\ Within(z, x, g + h)
    BY DEF Within, Abs

\* The audit takes for equal what differs by less than its tolerance.
LEMMA WithinIsNear ==
    ASSUME NEW x \in Int, NEW y \in Int, NEW g \in Int, Within(x, y, g), g <= 2 * Tolerance
    PROVE  Near(x, y)
    <1>1. Tolerance \in Nat
        BY BacktestAssumption DEF BacktestAssumption
    <1> QED
        BY <1>1 DEF Within, Near, Abs

LEMMA RecordedWithin ==
    ASSUME NEW x \in Int
    PROVE  /\ Recorded(x) \in Int /\ Within(Recorded(x), x, Grain) /\ Within(x, Recorded(x), Grain)
    <1>1. Grain \in Int /\ Recorded(x) \in Int /\ 2 * Abs(Recorded(x) - x) <= Grain
        BY Rounded, BacktestAssumption DEF BacktestAssumption
    <1> QED
        BY <1>1 DEF Within, Abs

\* What a fill changes the cash by, as read back from its recorded price and
\* commission, is off by half a grain for each share and for the commission.
LEMMA ReadBackWithin ==
    ASSUME costs \in Costs, NEW order, order.side \in {"buy", "sell"},
           order.quantity \in Nat, order.open \in Nat, order.cash \in Int,
           order.change = CashChange(order.side, order.quantity, order.open)
    PROVE  /\ ReadBack(order).change \in Int /\ ReadBack(order).cash \in Int /\ order.change \in Int
           /\ Within(ReadBack(order).change, order.change, Grain * order.quantity + Grain)
           /\ Within(ReadBack(order).cash, order.cash + order.change,
                     Grain * order.quantity + 2 * Grain)
    <1> DEFINE q == order.quantity
               P == ExecutionPrice(order.side, order.open)
               C == Commission(order.side, q, order.open)
               rp == Recorded(P)
               rc == Recorded(C)
               rm == Recorded(order.cash)
    <1>1. P \in Int /\ C \in Int /\ q \in Nat /\ Grain \in Nat
        BY Prices, BacktestAssumption DEF BacktestAssumption
    <1>2. /\ rp \in Int /\ rc \in Int /\ rm \in Int
          /\ 2 * Abs(rc - C) <= Grain /\ 2 * Abs(rm - order.cash) <= Grain
          /\ 2 * Abs(q * rp - q * P) <= Grain * q
        BY <1>1, Rounded, RoundedTimes
    <1>3. /\ order.change = IF order.side = "buy" THEN -(q * P + C) ELSE q * P - C
          /\ ReadBack(order).change = IF order.side = "buy" THEN -(q * rp + rc) ELSE q * rp - rc
          /\ ReadBack(order).cash = rm + (IF order.side = "buy" THEN -(q * rp + rc)
                                                                ELSE q * rp - rc)
        BY WrittenIs DEF CashChange, ReadBack
    <1> DEFINE x == q * P
               y == q * rp
               w == Grain * q
               m == order.cash
    <1>4. x \in Int /\ y \in Int /\ w \in Int /\ m \in Int
        BY <1>1, <1>2
    <1>5. 2 * Abs(y - x) <= w /\ 2 * Abs(rc - C) <= Grain /\ 2 * Abs(rm - m) <= Grain
        BY <1>2
    <1> HIDE DEF x, y, w, m, C, rc, rm
    <1>6. CASE order.side = "buy"
        <2>1. /\ order.change = -(x + C) /\ ReadBack(order).change = -(y + rc)
              /\ ReadBack(order).cash = rm + -(y + rc)
            BY <1>3, <1>6 DEF x, y
        <2>2. Within(-(y + rc), -(x + C), w + Grain)
            BY <1>1, <1>2, <1>4, <1>5 DEF Within, Abs
        <2>3. Within(rm + -(y + rc), m + -(x + C), w + 2 * Grain)
            BY <1>1, <1>2, <1>4, <1>5 DEF Within, Abs
        <2> QED
            BY <1>1, <1>2, <1>4, <2>1, <2>2, <2>3 DEF m, w, q
    <1>7. CASE order.side = "sell"
        <2>1. /\ order.change = x - C /\ ReadBack(order).change = y - rc
              /\ ReadBack(order).cash = rm + (y - rc)
            BY <1>3, <1>7 DEF x, y
        <2>2. Within(y - rc, x - C, w + Grain)
            BY <1>1, <1>2, <1>4, <1>5 DEF Within, Abs
        <2>3. Within(rm + (y - rc), m + (x - C), w + 2 * Grain)
            BY <1>1, <1>2, <1>4, <1>5 DEF Within, Abs
        <2> QED
            BY <1>1, <1>2, <1>4, <2>1, <2>2, <2>3 DEF m, w, q
    <1> QED
        BY <1>6, <1>7

\* Every amount of a fill, as read back, is off by half a grain for each share and
\* two more.
LEMMA FillWithin ==
    ASSUME costs \in Costs, NEW order, order.side \in {"buy", "sell"},
           order.quantity \in Nat, order.open \in Nat, order.cash \in Int,
           order.change = CashChange(order.side, order.quantity, order.open)
    PROVE  /\ DOMAIN Amounts(order) = Fields /\ DOMAIN Written(order) = Fields
           /\ DOMAIN ReadBack(order) = Fields
           /\ \A a \in Fields :
                 /\ Amounts(order)[a] \in Int /\ ReadBack(order)[a] \in Int
                 /\ Written(order)[a] = Recorded(Amounts(order)[a])
                 /\ Within(ReadBack(order)[a], Amounts(order)[a],
                           Grain * order.quantity + 2 * Grain)
    <1> DEFINE q == order.quantity
               P == ExecutionPrice(order.side, order.open)
               C == Commission(order.side, q, order.open)
               V == Value(order.open)
               rp == Recorded(P)
               rc == Recorded(C)
               w == Grain * q
               f == ReadBack(order)
               x == Amounts(order)
    <1>1. P \in Int /\ C \in Int /\ V \in Int /\ q \in Nat /\ Grain \in Nat
        <2>1. P \in Int /\ C \in Int /\ q \in Nat /\ Grain \in Nat
            BY Prices, BacktestAssumption DEF BacktestAssumption
        <2>2. V \in Int
            BY CostsTyped DEF Value
        <2> QED
            BY <2>1, <2>2
    <1>2. /\ DOMAIN x = Fields /\ DOMAIN f = Fields /\ DOMAIN Written(order) = Fields
          /\ \A a \in Fields : Written(order)[a] = Recorded(x[a])
        BY DEF Amounts, ReadBack, Written, Fields
    <1>3. /\ x["price"] = P /\ x["notional"] = q * P /\ x["commission"] = C
          /\ x["slippage"] = q * Abs(P - V) /\ x["total"] = C + q * Abs(P - V)
          /\ x["change"] = order.change /\ x["cash"] = order.cash + order.change
        BY DEF Amounts, TransactionCost
    <1>4. /\ f["price"] = rp /\ f["notional"] = q * rp /\ f["commission"] = rc
          /\ f["slippage"] = q * Abs(rp - V) /\ f["total"] = rc + q * Abs(rp - V)
        BY WrittenIs DEF ReadBack
    <1>5. /\ f["change"] \in Int /\ f["cash"] \in Int /\ order.change \in Int
          /\ Within(f["change"], order.change, w + Grain)
          /\ Within(f["cash"], order.cash + order.change, w + 2 * Grain)
        BY ReadBackWithin
    <1>6. rp \in Int /\ rc \in Int /\ 2 * Abs(rp - P) <= Grain /\ 2 * Abs(rc - C) <= Grain
        BY <1>1, Rounded
    <1> DEFINE v == Abs(P - V)
               rv == Abs(rp - V)
    <1> HIDE DEF P, C, V, rp, rc
    <1>7. v \in Int /\ rv \in Int /\ 2 * Abs(rv - v) <= Grain
        BY <1>1, <1>6 DEF Abs
    <1> HIDE DEF v, rv, q
    <1>8. /\ 2 * Abs(q * rp - q * P) <= Grain * q /\ 2 * Abs(q * rv - q * v) <= Grain * q
        BY <1>1, <1>6, <1>7, ErrorTimes
    <1> DEFINE n == q * P
               rn == q * rp
               s == q * v
               rs == q * rv
    <1>9. /\ n \in Int /\ rn \in Int /\ s \in Int /\ rs \in Int /\ w \in Nat
        BY <1>1, <1>6, <1>7, Products
    <1>10. 2 * Abs(rn - n) <= w /\ 2 * Abs(rs - s) <= w
        BY <1>8
    <1> HIDE DEF n, rn, s, rs, w
    <1>11. /\ Within(rp, P, w + 2 * Grain) /\ Within(rc, C, w + 2 * Grain)
           /\ Within(rn, n, w + 2 * Grain) /\ Within(rs, s, w + 2 * Grain)
        BY <1>1, <1>6, <1>9, <1>10 DEF Within, Abs
    <1>12. Within(rc + rs, C + s, w + 2 * Grain)
        BY <1>1, <1>6, <1>9, <1>10 DEF Within, Abs
    <1>13. Within(f["change"], order.change, w + 2 * Grain)
        BY <1>1, <1>5, <1>9 DEF Within, Abs
    <1>14. /\ x["price"] \in Int /\ f["price"] \in Int
           /\ Within(f["price"], x["price"], w + 2 * Grain)
           /\ x["commission"] \in Int /\ f["commission"] \in Int
           /\ Within(f["commission"], x["commission"], w + 2 * Grain)
           /\ x["notional"] \in Int /\ f["notional"] \in Int
           /\ Within(f["notional"], x["notional"], w + 2 * Grain)
        BY <1>1, <1>3, <1>4, <1>6, <1>9, <1>11 DEF n, rn
    <1>15. /\ x["slippage"] \in Int /\ f["slippage"] \in Int
           /\ Within(f["slippage"], x["slippage"], w + 2 * Grain)
        BY <1>3, <1>4, <1>9, <1>11 DEF s, rs, v, rv
    <1>16. /\ x["total"] \in Int /\ f["total"] \in Int
           /\ Within(f["total"], x["total"], w + 2 * Grain)
        <2>1. x["total"] = C + s /\ f["total"] = rc + rs
            BY <1>3, <1>4 DEF s, rs, v, rv
        <2> QED
            BY <1>1, <1>6, <1>9, <1>12, <2>1
    <1>17. /\ x["change"] \in Int /\ f["change"] \in Int
           /\ Within(f["change"], x["change"], w + 2 * Grain)
           /\ x["cash"] \in Int /\ f["cash"] \in Int
           /\ Within(f["cash"], x["cash"], w + 2 * Grain)
        BY <1>3, <1>5, <1>13
    <1> HIDE DEF x, f
    <1>18. \A a \in Fields : /\ x[a] \in Int /\ f[a] \in Int
                            /\ Within(f[a], x[a], w + 2 * Grain)
        BY <1>14, <1>15, <1>16, <1>17 DEF Fields
    <1> QED
        BY <1>2, <1>18 DEF x, f, w, q

\* A sale brings the price less both rates, which is more than rounding takes if
\* a share sold at the lowest price brings more.
LEMMA Proceeds ==
    ASSUME costs \in Costs, NEW q \in Nat \ {0}, NEW open \in Nat \ {0}
    PROVE  LET a == Scale - costs.slippage
               b == Scale - costs.commission
               change == CashChange("sell", q, open)
           IN  /\ a > 0 /\ b > 0 => /\ ExecutionPrice("sell", open) > 0 /\ change > 0
                                    /\ 3 * Grain <= 2 * a * b => 2 * change >= 3 * (Grain * q)
               /\ ExecutionPrice("sell", open) > 0 /\ change > 0 => a > 0 /\ b > 0
    <1> DEFINE a == Scale - costs.slippage
               b == Scale - costs.commission
               change == CashChange("sell", q, open)
               u == Rate("sell", open)
               P == ExecutionPrice("sell", open)
    <1>1. /\ a \in Int /\ b \in Int /\ Scale \in Nat \ {0} /\ Grain \in Nat
          /\ b = Scale - costs.commission /\ costs.commission \in Nat
        BY CostsTyped, BacktestAssumption DEF BacktestAssumption
    <1>2. u = open * a /\ u \in Int
        BY <1>1 DEF Rate
    <1>3. /\ P = u * Scale
          /\ Commission("sell", q, open) = q * u * costs.commission
          /\ change = q * P - Commission("sell", q, open)
        <2>1. "sell" \in {"buy", "sell"}
            OBVIOUS
        <2> QED
            BY <2>1, Prices DEF CashChange
    <1> HIDE DEF a, b, u, P, change
    <1>4. change = (q * u) * b
        <2>1. q * (u * Scale) - q * u * costs.commission = (q * u) * b
            BY <1>1, <1>2
        <2> QED
            BY <1>3, <2>1
    <1>5. ASSUME a > 0, b > 0
          PROVE  P > 0 /\ change > 0 /\ (3 * Grain <= 2 * a * b => 2 * change >= 3 * (Grain * q))
        <2>1. a \in Nat /\ b \in Nat /\ u \in Nat /\ u > 0
            BY <1>1, <1>2, <1>5, Products
        <2>2. q * u \in Nat /\ q * u > 0
            BY <2>1, Products
        <2>3. P > 0 /\ change > 0
            BY <1>1, <1>3, <1>4, <1>5, <2>1, <2>2, Products
        <2>4. ASSUME 3 * Grain <= 2 * a * b PROVE 2 * change >= 3 * (Grain * q)
            <3> DEFINE ab == a * b
                       k == q * open
            <3>1. ab \in Nat /\ k \in Nat /\ k >= q
                <4>1. q * 1 <= q * open
                    BY Monotone
                <4> QED
                    BY <2>1, <4>1, Products
            <3>2. change = k * ab
                BY <1>1, <1>2, <1>4
            <3>3. 2 * a * b = 2 * ab
                BY <1>1
            <3> HIDE DEF ab, k
            <3>4. k * (3 * Grain) <= k * (2 * ab)
                BY <1>1, <2>4, <3>1, <3>3, Monotone
            <3>5. k * (2 * ab) = 2 * change /\ change \in Int
                BY <3>1, <3>2
            <3>6. (3 * Grain) * q <= (3 * Grain) * k
                BY <1>1, <3>1, Monotone
            <3>7. (3 * Grain) * q = 3 * (Grain * q) /\ (3 * Grain) * k = k * (3 * Grain)
                  /\ Grain * q \in Int /\ k * (3 * Grain) \in Int
                BY <1>1, <3>1
            <3> QED
                BY <3>4, <3>5, <3>6, <3>7
        <2> QED
            BY <2>3, <2>4
    <1>6. ASSUME P > 0, change > 0 PROVE a > 0 /\ b > 0
        <2>1. a > 0
            <3>1. ASSUME a <= 0 PROVE FALSE
                <4>1. open * a <= open * 0
                    BY <1>1, <3>1, Monotone
                <4>2. u <= 0
                    BY <1>2, <4>1
                <4>3. Scale * u <= Scale * 0
                    BY <1>1, <1>2, <4>2, Monotone
                <4> QED
                    BY <1>1, <1>2, <1>3, <1>6, <4>3
            <3> QED
                BY <1>1, <3>1
        <2>2. q * u \in Nat
            <3>1. u \in Nat
                BY <1>1, <1>2, <2>1, Products
            <3> QED
                BY <3>1, Products
        <2>3. b > 0
            <3>1. ASSUME b <= 0 PROVE FALSE
                <4>1. (q * u) * b <= (q * u) * 0
                    BY <1>1, <2>2, <3>1, Monotone
                <4> QED
                    BY <1>4, <1>6, <2>2, <4>1
            <3> QED
                BY <1>1, <3>1
        <2> QED
            BY <2>1, <2>3
    <1> QED
        BY <1>5, <1>6 DEF a, b, change, P

\* An approved order and what it leaves.
LEMMA Trades ==
    ASSUME costs \in Costs, NEW row, NEW before \in Portfolios, RowFollows(row, before)
    PROVE  /\ row.open \in Nat \ {0} /\ row.close \in Nat \ {0}
           /\ row.cash \in Nat /\ before.cash \in Nat /\ before.shares \in Nat
           /\ ~Approved(row) => row.cash = before.cash /\ row.shares = before.shares
           /\ Approved(row) => LET o == row.order IN
                /\ o.side \in {"buy", "sell"} /\ o.quantity \in Nat \ {0} /\ o.open = row.open
                /\ o.cash = before.cash /\ o.shares = before.shares
                /\ o.change = CashChange(o.side, o.quantity, o.open)
                /\ row.cash = o.cash + o.change
                /\ o.side = "buy" => before.shares = 0 /\ row.shares = o.quantity
                /\ o.side = "sell" => /\ before.shares = o.quantity /\ row.shares = 0
                                      /\ costs.slippage < Scale /\ costs.commission < Scale
    <1> DEFINE open == row.open
               o == row.order
               money == before.cash
               held == before.shares
    <1>1. /\ open \in Opens /\ open \in Nat \ {0} /\ row.close \in Nat \ {0}
          /\ money \in Nat /\ held \in Nat /\ row.cash \in Nat /\ row.target \in {0, 1}
        BY BacktestAssumption DEF RowFollows, Portfolios, BacktestAssumption
    <1>2. ~Approved(row) => row.cash = money /\ row.shares = held
        BY DEF RowFollows
    <1>3. ASSUME Approved(row)
          PROVE  row.cash = Filled(o).cash /\ row.shares = Filled(o).shares /\ o # NoOrder
        BY <1>3 DEF RowFollows, Approved, NoOrder
    <1>4. CASE row.target = 1 /\ held = 0
        <2>1. o = ProposeOrder(1, open, money, 0)
            BY <1>4 DEF RowFollows
        <2>2. /\ o.side = "buy" /\ o.quantity \in Nat \ {0} /\ o.open = open
              /\ o.cash = money /\ o.shares = 0
              /\ o.change = CashChange("buy", o.quantity, open)
            BY <1>1, <2>1, EntryJudged
        <2>3. Filled(o) = [cash |-> o.cash + o.change, shares |-> 0 + o.quantity]
            BY <2>2 DEF Filled
        <2> HIDE DEF o
        <2> QED
            BY <1>1, <1>2, <1>3, <1>4, <2>2, <2>3 DEF o
    <1>5. CASE row.target = 0 /\ held > 0
        <2>1. o = ProposeOrder(0, open, money, held)
            BY <1>5 DEF RowFollows
        <2>2. /\ o.side = "sell" /\ o.quantity = held /\ o.open = open
              /\ o.cash = money /\ o.shares = held
              /\ o.change = CashChange("sell", held, open)
            BY <1>1, <1>5, <2>1, ExitJudged
        <2>3. Filled(o) = [cash |-> o.cash + o.change, shares |-> held - held]
            BY <2>2 DEF Filled
        <2>4. ~Unbuildable(o)
            BY <2>2 DEF RowFollows, NoOrder
        <2>5. costs.slippage < Scale /\ costs.commission < Scale
            <3> DEFINE change == CashChange("sell", held, open)
                       price == ExecutionPrice("sell", open)
            <3>1. price \in Int /\ change \in Int
                <4>1. "sell" \in {"buy", "sell"} /\ held \in Nat /\ open \in Nat
                    BY <1>1
                <4> QED
                    BY <4>1, Prices, FillCost
            <3>2. ~(price <= 0) /\ ~(change <= 0)
                BY <2>2, <2>4 DEF Unbuildable
            <3>3. held \in Nat \ {0}
                BY <1>1, <1>5
            <3>4. Scale - costs.slippage > 0 /\ Scale - costs.commission > 0
                BY <1>1, <3>1, <3>2, <3>3, Proceeds
            <3> QED
                BY <3>4, CostsTyped
        <2> HIDE DEF o
        <2> QED
            BY <1>1, <1>2, <1>3, <1>5, <2>2, <2>3, <2>5 DEF o
    <1>6. CASE ~(row.target = 1 /\ held = 0) /\ ~(row.target = 0 /\ held > 0)
        <2>1. o = NoOrder
            BY <1>6 DEF RowFollows, ProposeOrder
        <2>2. ~Approved(row)
            BY <2>1 DEF Approved, NoOrder
        <2> QED
            BY <1>1, <1>2, <2>2
    <1> QED
        BY <1>4, <1>5, <1>6

\* The edge covers the rounding of any fill.
LEMMA EdgeCovers ==
    ASSUME BookInv
    PROVE  /\ Edge \in Nat /\ Edge >= 2 * Grain
           /\ \A i \in 1..Len(rows) : LET q == rows[i].order.quantity IN
                Approved(rows[i]) =>
                  /\ Grain * q \in Nat /\ Grain * q >= Grain
                  /\ Grain * q + 2 * Grain <= Edge
    <1> DEFINE M == Max({0} \cup {rows[j].shares : j \in DOMAIN rows})
               w == Grain * M
    <1>1. M \in Nat /\ \A i \in 1..Len(rows) : rows[i].shares <= M
        BY LargestPosition
    <1>2. Grain \in Nat \ {0}
        BY BacktestAssumption DEF BacktestAssumption
    <1>3. Edge = Grain * (2 + M)
        BY DEF Edge
    <1> HIDE DEF M
    <1>4. w \in Nat /\ Edge = w + 2 * Grain
        BY <1>1, <1>2, <1>3, Products
    <1>5. ASSUME NEW i \in 1..Len(rows), Approved(rows[i])
          PROVE  LET q == rows[i].order.quantity IN
                 Grain * q \in Nat /\ Grain * q >= Grain /\ Grain * q <= w
        <2> DEFINE q == rows[i].order.quantity
        <2>1. /\ rows[i] \in Records /\ RowFollows(rows[i], HeldAfter(i - 1))
              /\ HeldAfter(i - 1) \in Portfolios /\ costs \in Costs
            BY RowsStand
        <2>2. /\ q \in Nat \ {0} /\ rows[i].order.side \in {"buy", "sell"}
              /\ rows[i].order.side = "buy" => rows[i].shares = q
              /\ rows[i].order.side = "sell" => HeldAfter(i - 1).shares = q
            BY <1>5, <2>1, Trades
        <2>3. q <= M
            <3>1. CASE rows[i].order.side = "buy"
                BY <1>1, <2>2, <3>1
            <3>2. CASE rows[i].order.side = "sell"
                <4>1. i # 1 /\ Len(rows) \in Nat
                    BY <2>2, <3>2 DEF HeldAfter, BookInv, Books
                <4>2. i - 1 \in 1..Len(rows) /\ HeldAfter(i - 1).shares = rows[i - 1].shares
                    BY <4>1 DEF HeldAfter
                <4> QED
                    BY <1>1, <2>2, <3>2, <4>2
            <3> QED
                BY <2>2, <3>1, <3>2
        <2> HIDE DEF q
        <2>4. Grain * q <= Grain * M /\ Grain * 1 <= Grain * q
            <3>1. Grain \in Nat /\ q \in Int /\ M \in Int /\ 1 \in Int /\ 1 <= q
                BY <1>1, <1>2, <2>2 DEF q
            <3>2. Grain * q <= Grain * M
                BY <2>3, <3>1, Monotone
            <3>3. Grain * 1 <= Grain * q
                BY <3>1, Monotone
            <3> QED
                BY <3>2, <3>3
        <2>5. Grain * q \in Nat
            BY <1>2, <2>2, Products
        <2> QED
            BY <1>2, <2>4, <2>5 DEF q
    <1> HIDE DEF w
    <1> QED
        BY <1>2, <1>4, <1>5

---------------------------------------------------------------------------
(* The checks of a run *)

\* The rounding of a sum and the sum of what was rounded.
LEMMA Roundings ==
    ASSUME NEW g \in Nat, NEW a \in Int, NEW b \in Int, NEW d \in Int,
           NEW ra \in Int, NEW rb \in Int, NEW rd \in Int,
           Within(ra, a, g), Within(rb, b, g), Within(rd, d, g)
    PROVE  /\ d = a + b => Within(rd, ra + rb, 3 * g)
           /\ d = -(a + b) => Within(rd, -ra - rb, 3 * g)
           /\ d = a - b => Within(rd, ra - rb, 3 * g)
    BY DEF Within, Abs

\* A record is checked with the numbers it holds; each is off by half a grain,
\* and a price by half a grain for each share.
LEMMA RecordsStand ==
    ASSUME BookInv, Edge <= Tolerance, NEW i \in 1..Len(rows)
    PROVE  RecordStands(rows[i])
    <1> DEFINE row == rows[i]
               o == row.order
    <1>1. /\ RowFollows(row, HeldAfter(i - 1)) /\ HeldAfter(i - 1) \in Portfolios
          /\ costs \in Costs
        BY RowsStand
    <1>2. /\ row.open \in Nat \ {0} /\ row.close \in Nat \ {0} /\ row.cash \in Nat
          /\ row.shares \in Nat
        BY <1>1, Trades, RowFacts
    <1>3. /\ Grain \in Nat \ {0} /\ Tolerance \in Nat /\ Edge \in Nat /\ Edge >= 2 * Grain
          /\ Edge + Grain <= 2 * Tolerance
        BY EdgeCovers, BacktestAssumption DEF BacktestAssumption
    <1> DEFINE vc == row.shares * Value(row.close)
               vo == OpenValue(row)
               k == row.cash
    <1>4. vc \in Nat /\ vo \in Nat /\ Equity(row) = k + vc
        <2>1. Value(row.close) \in Nat /\ Value(row.open) \in Nat
            BY <1>1, <1>2, CostsTyped, Products DEF Value
        <2> QED
            BY <1>2, <2>1, Products DEF OpenValue, Equity
    <1> HIDE DEF vc, vo
    <1>5. Near(Recorded(k + vc), Recorded(k) + vc)
        <2>1. k \in Int /\ k + vc \in Int
            BY <1>2, <1>4
        <2> HIDE DEF k
        <2>2. /\ Recorded(k) \in Int /\ Recorded(k + vc) \in Int
              /\ Within(Recorded(k), k, Grain) /\ Within(Recorded(k + vc), k + vc, Grain)
            BY <2>1, RecordedWithin
        <2>3. Within(vc, vc, Grain)
            BY <1>3, <1>4 DEF Within, Abs
        <2>4. Within(Recorded(k + vc), Recorded(k) + vc, 3 * Grain)
            BY <1>3, <1>4, <2>1, <2>2, <2>3, Roundings
        <2>5. 3 * Grain <= 2 * Tolerance /\ 3 * Grain \in Int /\ Recorded(k) + vc \in Int
            BY <1>3, <1>4, <2>2
        <2> QED
            BY <2>2, <2>4, <2>5, WithinIsNear
    <1>6. Near(Recorded(k + vo), Recorded(k) + Recorded(vo))
        <2>1. k \in Int /\ vo \in Int /\ k + vo \in Int
            BY <1>2, <1>4
        <2> HIDE DEF k
        <2>2. /\ Recorded(k) \in Int /\ Recorded(vo) \in Int /\ Recorded(k + vo) \in Int
              /\ Within(Recorded(k), k, Grain) /\ Within(Recorded(vo), vo, Grain)
              /\ Within(Recorded(k + vo), k + vo, Grain)
            BY <2>1, RecordedWithin
        <2>3. Within(Recorded(k + vo), Recorded(k) + Recorded(vo), 3 * Grain)
            BY <1>3, <2>1, <2>2, Roundings
        <2>4. 3 * Grain <= 2 * Tolerance /\ 3 * Grain \in Int
              /\ Recorded(k) + Recorded(vo) \in Int
            BY <1>3, <2>2
        <2> QED
            BY <2>2, <2>3, <2>4, WithinIsNear
    <1>7. ASSUME Approved(row)
          PROVE  LET fill == Written(o)
                 IN  /\ Near(fill.notional, o.quantity * fill.price)
                     /\ Near(fill.slippage, o.quantity * Abs(fill.price - Value(o.open)))
                     /\ Near(fill.total, fill.commission + fill.slippage)
                     /\ Near(fill.change,
                             (IF o.side = "buy" THEN -fill.notional ELSE fill.notional)
                               - fill.commission)
                     /\ Near(fill.cash, Recorded(o.cash) + fill.change)
        <2> DEFINE q == o.quantity
                   P == ExecutionPrice(o.side, o.open)
                   C == Commission(o.side, q, o.open)
                   x == q * P
                   y == q * Abs(P - Value(o.open))
                   w == Grain * q
                   ch == o.change
                   m == o.cash
        <2>1. /\ o.side \in {"buy", "sell"} /\ q \in Nat \ {0} /\ o.open \in Nat /\ m \in Nat
              /\ ch = CashChange(o.side, q, o.open) /\ row.cash = m + ch
            BY <1>1, <1>2, <1>7, Trades
        <2>2. /\ P \in Int /\ C \in Int /\ ch \in Int /\ Value(o.open) \in Int
            <3>1. q \in Nat
                BY <2>1
            <3> HIDE DEF q
            <3>2. P \in Int /\ C \in Int
                BY <1>1, <2>1, <3>1, Prices
            <3>3. CashChange(o.side, q, o.open) \in Int
                BY <1>1, <2>1, <3>1, FillCost
            <3>4. Value(o.open) \in Int
                BY <1>1, <2>1, CostsTyped DEF Value
            <3> QED
                BY <2>1, <3>2, <3>3, <3>4
        <2>3. /\ w \in Nat /\ w >= Grain /\ w + 2 * Grain <= Edge
            BY <1>7, EdgeCovers
        <2>4. /\ x \in Int /\ y \in Int
              /\ ch = (IF o.side = "buy" THEN -(x + C) ELSE x - C)
              /\ TransactionCost(o.side, q, o.open) = C + y
            <3>1. Abs(P - Value(o.open)) \in Int
                BY <2>2 DEF Abs
            <3>2. TransactionCost(o.side, q, o.open) = C + y
                BY DEF TransactionCost
            <3>3. ch = (IF o.side = "buy" THEN -(x + C) ELSE x - C)
                BY <2>1 DEF CashChange
            <3> DEFINE v == Abs(P - Value(o.open))
            <3> HIDE DEF P, v
            <3>4. q * P \in Int /\ q * v \in Int
                BY <2>1, <2>2, <3>1 DEF v
            <3> QED
                BY <3>2, <3>3, <3>4 DEF v, P
        <2>5. 2 * Abs(q * Recorded(P) - x) <= w /\ Recorded(P) \in Int /\ q * Recorded(P) \in Int
            <3>1. q \in Nat
                BY <2>1
            <3> HIDE DEF q, P
            <3>2. 2 * Abs(q * Recorded(P) - q * P) <= Grain * q
                BY <2>2, <3>1, RoundedTimes
            <3>3. Recorded(P) \in Int
                BY <2>2, Rounded
            <3> QED
                BY <3>1, <3>2, <3>3
        <2> DEFINE z == q * Recorded(P)
                   u == q * Abs(Recorded(P) - Value(o.open))
        <2>6. Within(x, z, w) /\ z \in Int
            BY <2>4, <2>5 DEF Within, Abs
        <2>7. Within(y, u, w) /\ u \in Int
            <3> DEFINE a == Abs(P - Value(o.open))
                       b == Abs(Recorded(P) - Value(o.open))
            <3>1. a \in Int /\ b \in Int /\ 2 * Abs(b - a) <= Grain
                <4> DEFINE V == Value(o.open)
                           rp == Recorded(P)
                <4>1. rp \in Int /\ 2 * Abs(rp - P) <= Grain
                    BY <2>2, Rounded
                <4> HIDE DEF P, V, rp
                <4>2. V \in Int /\ P \in Int
                    BY <2>2 DEF V
                <4>3. /\ Abs(P - V) \in Int /\ Abs(rp - V) \in Int
                      /\ 2 * Abs(Abs(rp - V) - Abs(P - V)) <= Grain
                    BY <1>3, <4>1, <4>2 DEF Abs
                <4> QED
                    BY <4>3 DEF V, rp
            <3>2. q \in Nat
                BY <2>1
            <3> HIDE DEF a, b, q
            <3>3. 2 * Abs(q * b - q * a) <= Grain * q /\ q * a \in Int /\ q * b \in Int
                BY <3>1, <3>2, ErrorTimes
            <3>4. Within(q * a, q * b, Grain * q)
                BY <3>3 DEF Within, Abs
            <3> QED
                BY <3>3, <3>4 DEF a, b, q
        <2> HIDE DEF x, y, z, u, w, C, ch, m
        <2>8. /\ Recorded(x) \in Int /\ Within(Recorded(x), x, Grain)
              /\ Recorded(y) \in Int /\ Within(Recorded(y), y, Grain)
              /\ Recorded(C) \in Int /\ Within(Recorded(C), C, Grain)
              /\ Recorded(C + y) \in Int /\ Within(Recorded(C + y), C + y, Grain)
              /\ Recorded(ch) \in Int /\ Within(Recorded(ch), ch, Grain)
              /\ Recorded(m) \in Int /\ Within(Recorded(m), m, Grain)
              /\ Recorded(m + ch) \in Int /\ Within(Recorded(m + ch), m + ch, Grain)
            <3>1. x \in Int /\ y \in Int /\ C \in Int /\ C + y \in Int /\ ch \in Int
                  /\ m \in Int /\ m + ch \in Int
                BY <2>1, <2>2, <2>4
            <3> QED
                BY <3>1, RecordedWithin
        <2>9. Near(Recorded(x), z)
            <3>1. Within(Recorded(x), z, Grain + w)
                BY <1>3, <2>3, <2>4, <2>6, <2>8, WithinAdds
            <3> QED
                BY <1>3, <2>3, <2>6, <2>8, <3>1, WithinIsNear
        <2>10. Near(Recorded(y), u)
            <3>1. Within(Recorded(y), u, Grain + w)
                BY <1>3, <2>3, <2>4, <2>7, <2>8, WithinAdds
            <3> QED
                BY <1>3, <2>3, <2>7, <2>8, <3>1, WithinIsNear
        <2>11. Near(Recorded(C + y), Recorded(C) + Recorded(y))
            <3>1. Within(Recorded(C + y), Recorded(C) + Recorded(y), 3 * Grain)
                BY <1>3, <2>2, <2>4, <2>8, Roundings
            <3> QED
                BY <1>3, <2>8, <3>1, WithinIsNear
        <2>12. Near(Recorded(ch), (IF o.side = "buy" THEN -Recorded(x) ELSE Recorded(x)) - Recorded(C))
            <3> DEFINE t == (IF o.side = "buy" THEN -Recorded(x) ELSE Recorded(x)) - Recorded(C)
            <3>1. t \in Int
                BY <2>8
            <3>2. Within(Recorded(ch), t, 3 * Grain)
                <4>1. CASE o.side = "buy"
                    <5>1. ch = -(x + C) /\ t = -Recorded(x) - Recorded(C)
                        BY <2>4, <4>1
                    <5> HIDE DEF t
                    <5> QED
                        BY <1>3, <2>2, <2>4, <2>8, <5>1, Roundings
                <4>2. CASE o.side # "buy"
                    <5>1. ch = x - C /\ t = Recorded(x) - Recorded(C)
                        BY <2>4, <4>2
                    <5> HIDE DEF t
                    <5> QED
                        BY <1>3, <2>2, <2>4, <2>8, <5>1, Roundings
                <4> QED
                    BY <4>1, <4>2
            <3> HIDE DEF t
            <3>3. Near(Recorded(ch), t)
                BY <1>3, <2>8, <3>1, <3>2, WithinIsNear
            <3> QED
                BY <3>3 DEF t
        <2>13. Near(Recorded(m + ch), Recorded(m) + Recorded(ch))
            <3>1. Within(Recorded(m + ch), Recorded(m) + Recorded(ch), 3 * Grain)
                BY SMTT(30), <1>3, <2>1, <2>2, <2>8, Roundings
            <3> QED
                BY <1>3, <2>8, <3>1, WithinIsNear
        <2> DEFINE fill == Written(o)
        <2>14. /\ fill.price = Recorded(P) /\ fill.notional = Recorded(x)
               /\ fill.commission = Recorded(C) /\ fill.slippage = Recorded(y)
               /\ fill.total = Recorded(C + y) /\ fill.change = Recorded(ch)
               /\ fill.cash = Recorded(m + ch)
            BY <2>4, WrittenIs DEF x, y, C, ch, m
        <2> HIDE DEF fill
        <2>15. /\ Near(fill.notional, o.quantity * fill.price)
               /\ Near(fill.slippage, o.quantity * Abs(fill.price - Value(o.open)))
            BY <2>9, <2>10, <2>14 DEF z, u
        <2>16. /\ Near(fill.total, fill.commission + fill.slippage)
               /\ Near(fill.change, (IF o.side = "buy" THEN -fill.notional ELSE fill.notional)
                                      - fill.commission)
               /\ Near(fill.cash, Recorded(o.cash) + fill.change)
            BY <2>11, <2>12, <2>13, <2>14 DEF m
        <2> QED
            BY <2>15, <2>16 DEF fill
    <1> QED
        BY <1>4, <1>5, <1>6, <1>7 DEF RecordStands, vc, vo

\* What is held is never worth less than a grain: a position is worth a price,
\* and cash was there at first or comes from a sale.
LEMMA Solvent ==
    ASSUME BookInv, costs.slippage < Scale, costs.commission < Scale,
           3 * Grain <= 2 * (Scale - costs.slippage) * (Scale - costs.commission)
    PROVE  \A n \in 0..Len(rows) : HeldAfter(n).shares > 0 \/ HeldAfter(n).cash >= Grain
    <1> DEFINE N == Len(rows)
               Good(n) == HeldAfter(n).shares > 0 \/ HeldAfter(n).cash >= Grain
               S == {n \in Nat : n <= N => Good(n)}
    <1>1. costs \in Costs /\ N \in Nat /\ Grain \in Nat \ {0} /\ Unit \in Nat /\ Unit >= Grain
        BY Grains DEF BookInv, Books
    <1>2. 0 \in S
        <2>1. InitialCash \in Nat /\ InitialCash >= 1
            BY BacktestAssumption DEF BacktestAssumption
        <2>2. Unit * 1 <= Unit * InitialCash
            BY <1>1, <2>1, Monotone
        <2>3. Value(InitialCash) >= Grain
            BY <1>1, <2>1, <2>2 DEF Value
        <2>4. Good(0)
            BY <2>3 DEF HeldAfter
        <2> HIDE DEF Good
        <2> QED
            BY <2>4
    <1>3. ASSUME NEW k \in Nat, k \in S PROVE k + 1 \in S
        <2> SUFFICES ASSUME k + 1 <= N PROVE Good(k + 1)
            OBVIOUS
        <2> DEFINE row == rows[k + 1]
        <2>1. Good(k) /\ k + 1 \in 1..N
            BY <1>1, <1>3
        <2>2. /\ RowFollows(row, HeldAfter(k)) /\ HeldAfter(k) \in Portfolios
              /\ HeldAfter(k + 1) = [cash |-> row.cash, shares |-> row.shares]
            <3>1. (k + 1) - 1 = k /\ k + 1 # 0
                OBVIOUS
            <3> QED
                BY <2>1, <3>1, RowsStand DEF HeldAfter
        <2>3. CASE ~Approved(row)
            BY <1>1, <2>1, <2>2, <2>3, Trades
        <2>4. CASE Approved(row)
            <3> DEFINE o == row.order
                       q == o.quantity
            <3>1. /\ o.side \in {"buy", "sell"} /\ q \in Nat \ {0} /\ o.open \in Nat \ {0}
                  /\ o.cash \in Nat /\ o.change = CashChange(o.side, q, o.open)
                  /\ row.cash = o.cash + o.change
                  /\ o.side = "buy" => row.shares = q
                BY <1>1, <2>2, <2>4, Trades
            <3>2. CASE o.side = "buy"
                BY <2>2, <3>1, <3>2
            <3>3. CASE o.side = "sell"
                <4>1. Scale - costs.slippage > 0 /\ Scale - costs.commission > 0
                    BY <1>1, CostsTyped
                <4>2. 2 * o.change >= 3 * (Grain * q)
                    BY <1>1, <3>1, <3>3, <4>1, Proceeds
                <4>3. o.change \in Int
                    <5>1. q \in Nat /\ o.open \in Nat
                        BY <3>1
                    <5> HIDE DEF q
                    <5>2. CashChange(o.side, q, o.open) \in Int
                        BY <1>1, <3>1, <5>1, FillCost
                    <5> QED
                        BY <3>1, <5>2
                <4> HIDE DEF q
                <4>4. Grain * 1 <= Grain * q /\ Grain * q \in Nat
                    BY <1>1, <3>1, Monotone, Products
                <4>5. row.cash >= Grain
                    <5> DEFINE m == o.cash ch == o.change w == Grain * q
                    <5>1. /\ row.cash = m + ch /\ m \in Nat /\ ch \in Int /\ w \in Nat
                          /\ Grain \in Nat /\ Grain <= w /\ 2 * ch >= 3 * w
                        BY <1>1, <3>1, <4>2, <4>3, <4>4
                    <5> HIDE DEF m, ch, w
                    <5> QED
                        BY <5>1
                <4> QED
                    BY <2>2, <4>5
            <3> QED
                BY <3>1, <3>2, <3>3
        <2> QED
            BY <2>3, <2>4
    <1> HIDE DEF S
    <1>4. Nat \subseteq S
        BY <1>2, <1>3, SetInduction
    <1> QED
        BY <1>1, <1>4 DEF S

LEMMA NoneWorthless ==
    ASSUME BookInv, costs.slippage < Scale, costs.commission < Scale,
           3 * Grain <= 2 * (Scale - costs.slippage) * (Scale - costs.commission),
           NEW i \in 1..Len(rows)
    PROVE  ~Worthless(i)
    <1> DEFINE m == rows[i].cash
               h == rows[i].shares
               V == Value(rows[i].close)
               e == h * V
    <1>1. costs \in Costs /\ Len(rows) \in Nat /\ Grain \in Nat \ {0} /\ Unit \in Nat /\ Unit >= Grain
        BY Grains DEF BookInv, Books
    <1>2. h > 0 \/ m >= Grain
        <2>1. i \in 0..Len(rows) /\ HeldAfter(i) = [cash |-> m, shares |-> h]
            BY <1>1 DEF HeldAfter
        <2> QED
            BY <2>1, Solvent
    <1>3. m \in Nat /\ h \in Nat /\ rows[i].close \in Nat /\ rows[i].close >= 1
        <2>1. /\ costs \in Costs /\ RowFollows(rows[i], HeldAfter(i - 1))
              /\ HeldAfter(i - 1) \in Portfolios
            BY RowsStand
        <2>2. h \in Nat
            BY <2>1, RowFacts
        <2>3. m \in Nat /\ rows[i].close \in Nat \ {0}
            BY <2>1, Trades
        <2> QED
            BY <2>2, <2>3
    <1>4. V \in Nat /\ V >= Unit
        <2> DEFINE p == rows[i].close
        <2>1. p \in Nat /\ p >= 1 /\ V = p * Unit
            BY <1>3 DEF Value
        <2> HIDE DEF p, V
        <2>2. Unit * 1 <= Unit * p /\ p * Unit \in Nat
            BY <1>1, <2>1, Monotone, Products
        <2> QED
            BY <1>1, <2>1, <2>2
    <1>5. Equity(rows[i]) = m + e
        BY DEF Equity
    <1> HIDE DEF m, h, V
    <1>6. e \in Nat /\ (h > 0 => e >= Unit)
        <2>1. ASSUME h > 0 PROVE e >= Unit
            <3>1. V * 1 <= V * h
                BY <1>3, <1>4, <2>1, Monotone
            <3> QED
                BY <1>1, <1>3, <1>4, <3>1
        <2> QED
            BY <1>3, <1>4, <2>1, Products
    <1> HIDE DEF e
    <1>7. m + e \in Int /\ m + e >= Grain
        BY <1>1, <1>2, <1>3, <1>6
    <1>8. Recorded(m + e) \in Int /\ 2 * Abs(Recorded(m + e) - (m + e)) <= Grain
        BY <1>7, Rounded
    <1>9. Recorded(m + e) > 0
        BY <1>1, <1>7, <1>8 DEF Abs
    <1> QED
        BY <1>5, <1>8, <1>9 DEF Worthless

\* No session of the run is aborted, unless the costs take all of a sale.
LEMMA TradeStands ==
    ASSUME BookInv, costs.slippage < Scale, costs.commission < Scale,
           NEW target \in {0, 1}, NEW open \in Opens, NEW close \in Closes,
           Trade(target, open, close)
    PROVE  phase' = phase
    <1> DEFINE order == ProposeOrder(target, open, cash, shares)
               reasons == IF order = NoOrder THEN {} ELSE Reasons(order, cash, shares)
               after == After(order, reasons)
    <1>1. costs \in Costs /\ cash \in Nat /\ shares \in Nat /\ open \in Nat \ {0}
        BY Opening DEF BookInv, Books, BacktestTypeOK
    <1>2. phase' = phase \/ (order # NoOrder /\ (Unbuildable(order) \/ after.cash < 0))
        BY DEF Trade
    <1>3. CASE target = 1 /\ shares = 0
        <2>1. order = ProposeOrder(1, open, cash, 0)
            BY <1>3
        <2>2. /\ order.side = "buy" /\ order.open = open /\ order.cash = cash
              /\ Reasons(order, cash, 0) = {} => cash + order.change \in Nat
            BY <1>1, <2>1, EntryJudged
        <2>3. ExecutionPrice("buy", open) > 0
            <3>1. Scale + costs.slippage \in Nat /\ Scale + costs.slippage > 0 /\ Scale \in Nat \ {0}
                BY <1>1, CostsTyped
            <3>2. open * Scale \in Nat /\ open * Scale > 0
                BY <1>1, <3>1, Products
            <3>3. (open * Scale) * (Scale + costs.slippage) > 0
                BY <3>1, <3>2, Products
            <3> QED
                BY <3>3 DEF ExecutionPrice
        <2>4. ExecutionPrice("buy", open) \in Int
            BY <1>1, Prices
        <2>5. ~Unbuildable(order)
            BY <2>2, <2>3, <2>4 DEF Unbuildable
        <2> HIDE DEF order
        <2>6. order # NoOrder
            BY <2>2 DEF NoOrder
        <2>7. after = IF Reasons(order, cash, 0) = {} THEN Filled(order)
                                                      ELSE [cash |-> cash, shares |-> shares]
            BY <1>3, <2>2, <2>6 DEF After
        <2>8. Filled(order).cash = cash + order.change
            BY <2>2 DEF Filled
        <2>9. after.cash \in Nat
            BY <1>1, <2>2, <2>7, <2>8
        <2> QED
            BY <1>2, <2>5, <2>9
    <1>4. CASE target = 0 /\ shares > 0
        <2>1. order = ProposeOrder(0, open, cash, shares)
            BY <1>4
        <2>2. /\ order.side = "sell" /\ order.quantity = shares /\ order.open = open
              /\ order.cash = cash /\ order.change = CashChange("sell", shares, open)
              /\ ~Unbuildable(order) => Reasons(order, cash, shares) = {}
            BY <1>1, <1>4, <2>1, ExitJudged
        <2>3. /\ ExecutionPrice("sell", open) > 0 /\ CashChange("sell", shares, open) > 0
            <3>1. Scale - costs.slippage > 0 /\ Scale - costs.commission > 0 /\ shares \in Nat \ {0}
                BY <1>1, <1>4, CostsTyped
            <3> QED
                BY <1>1, <3>1, Proceeds
        <2>4. ExecutionPrice("sell", open) \in Int /\ CashChange("sell", shares, open) \in Int
            <3>1. "sell" \in {"buy", "sell"}
                OBVIOUS
            <3> QED
                BY <1>1, <3>1, Prices, FillCost
        <2>5. ~Unbuildable(order)
            BY <2>2, <2>3, <2>4 DEF Unbuildable
        <2> HIDE DEF order
        <2>6. order # NoOrder
            BY <2>2 DEF NoOrder
        <2>7. after = Filled(order)
            BY <2>2, <2>5, <2>6 DEF After
        <2>8. Filled(order).cash = cash + order.change
            BY <2>2 DEF Filled
        <2>9. ~(after.cash < 0)
            BY <1>1, <2>2, <2>3, <2>4, <2>7, <2>8
        <2> QED
            BY <1>2, <2>5, <2>9
    <1>5. CASE ~(target = 1 /\ shares = 0) /\ ~(target = 0 /\ shares > 0)
        <2>1. order = NoOrder
            BY <1>5 DEF ProposeOrder
        <2> HIDE DEF order
        <2> QED
            BY <1>2, <2>1
    <1> QED
        BY <1>3, <1>4, <1>5

\* The checks on orders, fills and metrics abort no run whose rounding the
\* tolerance covers, unless the costs take all of a sale (_run_validated_signal_backtest,
\* BacktestOrder, BacktestFill, calculate_backtest_metrics).
THEOREM ChecksStand == BacktestSpec => [](WithinTolerance => ChecksNeverTrip)
    <1> DEFINE Inv == WithinTolerance => ChecksNeverTrip
    <1>1. BacktestInit => Inv
        BY DEF BacktestInit, ChecksNeverTrip
    <1>2. BookInv /\ Inv /\ [BacktestNext]_backtestVars => Inv'
        <2> SUFFICES ASSUME BookInv, Inv, [BacktestNext]_backtestVars, WithinTolerance',
                            phase' = "failed", costs'.slippage < Scale, costs'.commission < Scale
                     PROVE  FALSE
            <3>1. costs' \in Costs => costs'.slippage \in Nat /\ costs'.commission \in Nat
                                      /\ Scale \in Nat
                BY BacktestAssumption DEF BacktestAssumption
            <3>2. BookInv /\ [BacktestNext]_backtestVars => costs' = costs
                BY DEF BacktestNext, Trade, Measure, AuditRow, Accept, Abort, backtestVars
            <3> QED
                BY <3>1, <3>2 DEF ChecksNeverTrip, BookInv, Books
        <2>1. costs' = costs /\ costs \in Costs
            BY DEF BacktestNext, Trade, Measure, AuditRow, Accept, Abort, backtestVars, BookInv, Books
        <2>2. costs.slippage < Scale /\ costs.commission < Scale
              /\ costs.slippage \in Nat /\ costs.commission \in Nat /\ Scale \in Nat
            BY <2>1, CostsTyped
        <2>3. ASSUME rows' = rows PROVE WithinTolerance
            BY <2>1, <2>3 DEF WithinTolerance, Edge
        <2>4. CASE \E target \in {0, 1}, open \in Opens, close \in Closes :
                       Trade(target, open, close)
            <3>1. phase' = phase /\ phase = "trading"
                BY <2>2, <2>4, TradeStands DEF Trade
            <3> QED
                BY <3>1
        <2>5. CASE Measure
            <3>1. rows' = rows /\ rows \in Seq(Records)
                BY <2>5 DEF Measure, Abort, BookInv, Books
            <3>2. Edge <= Tolerance
                  /\ 3 * Grain <= 2 * (Scale - costs.slippage) * (Scale - costs.commission)
                BY <2>2, <2>3, <3>1 DEF WithinTolerance
            <3>3. \A i \in DOMAIN rows : RecordStands(rows[i]) /\ ~Worthless(i)
                BY <2>2, <3>1, <3>2, RecordsStand, NoneWorthless
            <3> QED
                BY <2>5, <3>3 DEF Measure
        <2>6. CASE AuditRow \/ Accept \/ UNCHANGED backtestVars
            <3>1. phase = "failed" /\ rows' = rows
                BY <2>6 DEF AuditRow, Accept, backtestVars
            <3> QED
                BY <2>2, <2>3, <3>1 DEF ChecksNeverTrip
        <2> QED
            BY <2>4, <2>5, <2>6 DEF BacktestNext
    <1> QED
        BY <1>1, <1>2, BooksBalance, PTL DEF BacktestSpec

---------------------------------------------------------------------------
(* The audit of a run *)

LEMMA WithinWeakens ==
    ASSUME NEW x \in Int, NEW y \in Int, NEW g \in Int, NEW h \in Int, Within(x, y, g), g <= h
    PROVE  Within(x, y, h) /\ Within(y, x, h)
    BY DEF Within, Abs

\* What is recorded of an amount is near an amount that the edge covers.
LEMMA NearOverEdge ==
    ASSUME BookInv, Edge <= Tolerance, NEW x \in Int, NEW y \in Int, Within(x, y, Edge)
    PROVE  Near(Recorded(x), y)
    <1>1. Grain \in Int /\ Edge \in Int /\ Edge + Grain <= 2 * Tolerance
        BY EdgeCovers, BacktestAssumption DEF BacktestAssumption
    <1>2. Recorded(x) \in Int /\ Within(Recorded(x), x, Grain)
        BY RecordedWithin
    <1>3. Within(Recorded(x), y, Grain + Edge)
        BY <1>1, <1>2, WithinAdds
    <1> QED
        BY <1>1, <1>2, <1>3, WithinIsNear

\* And two amounts near a third.
LEMMA NearOverTwoEdges ==
    ASSUME BookInv, Edge <= Tolerance, NEW x \in Int, NEW y \in Int, NEW z \in Int,
           Within(x, y, Edge), Within(y, z, Edge)
    PROVE  Near(x, z)
    <1>1. Edge \in Int /\ Tolerance \in Nat
        BY EdgeCovers, BacktestAssumption DEF BacktestAssumption
    <1>2. Within(x, z, Edge + Edge)
        BY <1>1, WithinAdds
    <1> QED
        BY <1>1, <1>2, WithinIsNear

\* The replay has the portfolio after n sessions, its cash up to half the edge.
Tracks(n) ==
    /\ replayed.shares = HeldAfter(n).shares
    /\ Within(replayed.cash, HeldAfter(n).cash, Edge)

\* A replayed session stays as close: a fill is read back anew, from what was
\* recorded of the cash before it.
LEMMA ReplayTracks ==
    ASSUME BookInv, NEW i \in 1..Len(rows), Tracks(i - 1)
    PROVE  /\ Replay(rows[i]).cash \in Int /\ Replay(rows[i]).shares = rows[i].shares
           /\ Within(rows[i].cash, Replay(rows[i]).cash, Edge)
           /\ Within(Replay(rows[i]).cash, rows[i].cash, Edge)
    <1> DEFINE row == rows[i]
               before == HeldAfter(i - 1)
               o == row.order
    <1>1. /\ RowFollows(row, before) /\ before \in Portfolios /\ costs \in Costs
          /\ replayed \in Portfolios /\ Edge \in Nat /\ Grain \in Nat
        BY RowsStand, EdgeCovers, BacktestAssumption
        DEF BacktestAssumption, BookInv, BacktestTypeOK, Portfolios
    <1>2. CASE ~Approved(row)
        <2>1. Replay(row) = replayed /\ row.cash = before.cash /\ row.shares = before.shares
            BY <1>1, <1>2, Trades DEF Replay
        <2>2. replayed.cash \in Int /\ before.cash \in Int /\ Edge \in Int
            BY <1>1 DEF Portfolios
        <2>3. Within(before.cash, replayed.cash, Edge)
            BY <2>2, WithinWeakens DEF Tracks
        <2> QED
            BY <2>1, <2>2, <2>3 DEF Tracks
    <1>3. CASE Approved(row)
        <2>1. /\ o.side \in {"buy", "sell"} /\ o.quantity \in Nat /\ o.open \in Nat /\ o.cash \in Int
              /\ o.change = CashChange(o.side, o.quantity, o.open) /\ row.cash = o.cash + o.change
            BY <1>1, <1>3, Trades
        <2>2. /\ ReadBack(o).cash \in Int /\ o.change \in Int
              /\ Within(ReadBack(o).cash, row.cash, Grain * o.quantity + 2 * Grain)
            <3>1. costs \in Costs
                BY <1>1
            <3> HIDE DEF o
            <3>2. /\ ReadBack(o).cash \in Int /\ o.change \in Int
                  /\ Within(ReadBack(o).cash, o.cash + o.change, Grain * o.quantity + 2 * Grain)
                BY <2>1, <3>1, ReadBackWithin
            <3> QED
                BY <2>1, <3>2
        <2>3. Grain * o.quantity \in Nat /\ Grain * o.quantity + 2 * Grain <= Edge
            BY <1>3, EdgeCovers
        <2>4. Replay(row) = [cash |-> ReadBack(o).cash, shares |-> row.shares]
            BY <1>3 DEF Replay
        <2>5. /\ Within(ReadBack(o).cash, row.cash, Edge)
              /\ Within(row.cash, ReadBack(o).cash, Edge)
            <3> DEFINE c == row.cash
                       f == ReadBack(o).cash
                       w == Grain * o.quantity
            <3>1. w \in Nat /\ w + 2 * Grain <= Edge /\ Within(f, c, w + 2 * Grain)
                BY <2>2, <2>3
            <3>2. c \in Int /\ f \in Int
                BY <2>1, <2>2
            <3> HIDE DEF w, c, f
            <3>3. w + 2 * Grain \in Int /\ Edge \in Int
                BY <1>1, <3>1
            <3>4. Within(f, c, Edge) /\ Within(c, f, Edge)
                BY <3>1, <3>2, <3>3, WithinWeakens
            <3> QED
                BY <3>4 DEF f, c
        <2> QED
            BY <2>2, <2>4, <2>5
    <1> QED
        BY <1>2, <1>3

LEMMA PortfolioChecked ==
    ASSUME BookInv, Edge <= Tolerance, NEW i \in 1..Len(rows), Tracks(i - 1)
    PROVE  PortfolioStands(rows[i])
    <1> DEFINE row == rows[i]
               m == row.cash
               r == Replay(row).cash
               v == row.shares * Value(row.close)
    <1>1. /\ r \in Int /\ Replay(row).shares = row.shares /\ Within(m, r, Edge)
        BY ReplayTracks
    <1>2. /\ m \in Nat /\ v \in Nat
        <2>1. /\ m \in Nat /\ row.shares \in Nat /\ row.close \in Nat /\ costs \in Costs
            BY RowsStand, RowFacts, Trades
        <2>2. Value(row.close) \in Nat
            BY <2>1, CostsTyped, Products DEF Value
        <2> QED
            BY <2>1, <2>2, Products
    <1>3. Equity(row) = m + v
        BY DEF Equity
    <1> HIDE DEF m, r, v
    <1>4. m \in Int /\ m + v \in Int /\ r + v \in Int /\ Within(m + v, r + v, Edge)
        BY <1>1, <1>2 DEF Within, Abs
    <1>5. Near(Recorded(m), r) /\ Near(Recorded(m + v), r + v)
        BY <1>1, <1>4, NearOverEdge
    <1> QED
        BY <1>1, <1>3, <1>5 DEF PortfolioStands, m, r, v

---------------------------------------------------------------------------
(* Orders and fills in the replay *)

\* The replay asks for the recorded order, in the portfolio it has.
AsReplayed(row) ==
    LET x == Expected(row)
        o == row.order
    IN  /\ x.side = o.side /\ x.quantity = o.quantity /\ x.open = o.open /\ x.change = o.change
        /\ x.cash = replayed.cash

Sound(order) ==
    /\ order.side \in {"buy", "sell"} /\ order.quantity \in Nat
    /\ order.open \in Nat /\ order.cash \in Int
    /\ order.change = CashChange(order.side, order.quantity, order.open)

\* The two orders amount to the same, but for the cash they leave.
LEMMA SameAmounts ==
    ASSUME NEW row, AsReplayed(row)
    PROVE  /\ \A a \in Fields \ {"cash"} : Amounts(Expected(row))[a] = Amounts(row.order)[a]
           /\ Amounts(Expected(row))["cash"] = replayed.cash + row.order.change
    <1> DEFINE x == Expected(row)
               o == row.order
    <1>1. /\ x.side = o.side /\ x.quantity = o.quantity /\ x.open = o.open /\ x.change = o.change
          /\ x.cash = replayed.cash
        BY DEF AsReplayed
    <1> HIDE DEF x, o
    <1>2. /\ Amounts(x)["price"] = Amounts(o)["price"]
          /\ Amounts(x)["notional"] = Amounts(o)["notional"]
          /\ Amounts(x)["commission"] = Amounts(o)["commission"]
          /\ Amounts(x)["slippage"] = Amounts(o)["slippage"]
          /\ Amounts(x)["total"] = Amounts(o)["total"]
          /\ Amounts(x)["change"] = Amounts(o)["change"]
          /\ Amounts(x)["cash"] = replayed.cash + o.change
        BY <1>1 DEF Amounts
    <1> QED
        BY <1>2 DEF Fields, x, o

\* An order the replay agrees with stands: its estimates and the decision on it
\* are rounded, and so is the cash before it.
LEMMA OrderChecked ==
    ASSUME BookInv, Edge <= Tolerance, NEW i \in 1..Len(rows), AsReplayed(rows[i]),
           Sound(rows[i].order), replayed.cash \in Int,
           rows[i].order.shares = replayed.shares,
           Within(rows[i].order.cash, replayed.cash, Edge),
           Reasons(Expected(rows[i]), replayed.cash, replayed.shares) = rows[i].reasons,
           NEW after,
           after = IF rows[i].reasons = {} THEN Filled(Expected(rows[i])) ELSE replayed,
           after.cash \in Int, after.shares = rows[i].shares,
           Within(rows[i].cash, after.cash, Edge)
    PROVE  OrderStands(rows[i])
    <1> DEFINE row == rows[i]
               o == row.order
               k == row.cash
               c == after.cash
               v == OpenValue(row)
    <1>1. /\ costs \in Costs /\ k \in Int /\ row.open \in Nat /\ row.shares \in Nat
          /\ Edge \in Int /\ Grain \in Nat /\ Edge >= 2 * Grain /\ Tolerance \in Nat
        <2>1. /\ RowFollows(row, HeldAfter(i - 1)) /\ HeldAfter(i - 1) \in Portfolios
              /\ costs \in Costs
            BY RowsStand
        <2>2. /\ Edge \in Int /\ Grain \in Nat /\ Edge >= 2 * Grain /\ Tolerance \in Nat
            BY EdgeCovers, BacktestAssumption DEF BacktestAssumption
        <2>3. k \in Int /\ row.open \in Nat
            BY <2>1, Trades
        <2>4. row.shares \in Nat
            BY <2>1, RowFacts
        <2> QED
            BY <2>1, <2>2, <2>3, <2>4
    <1>2. v \in Int /\ v = after.shares * Value(row.open)
        <2>1. Value(row.open) \in Nat
            BY <1>1, CostsTyped, Products DEF Value
        <2> QED
            BY <1>1, <2>1, Products DEF OpenValue
    <1>3. ASSUME NEW a \in {"price", "commission", "change"}
          PROVE  Near(Written(o)[a], Amounts(Expected(row))[a])
        <2>1. a \in Fields /\ a # "cash"
            BY DEF Fields
        <2>2. /\ Amounts(o)[a] \in Int /\ Written(o)[a] = Recorded(Amounts(o)[a])
            <3> HIDE DEF o
            <3>1. /\ o.side \in {"buy", "sell"} /\ o.quantity \in Nat
                  /\ o.open \in Nat /\ o.cash \in Int
                  /\ o.change = CashChange(o.side, o.quantity, o.open)
                BY DEF o, Sound
            <3>2. \A b \in Fields : Amounts(o)[b] \in Int /\ Written(o)[b] = Recorded(Amounts(o)[b])
                BY <1>1, <3>1, FillWithin
            <3> QED
                BY <2>1, <3>2
        <2>3. Amounts(Expected(row))[a] = Amounts(o)[a]
            BY <2>1, SameAmounts
        <2> DEFINE y == Amounts(o)[a]
        <2>4. y \in Int /\ Written(o)[a] = Recorded(y)
            BY <2>2
        <2> HIDE DEF y
        <2>5. Within(y, y, Edge)
            BY <1>1, <2>4 DEF Within, Abs
        <2> QED
            BY <2>3, <2>4, <2>5, NearOverEdge DEF y
    <1>4. Near(Recorded(o.cash), replayed.cash) /\ Near(Recorded(k), c)
        BY <1>1, NearOverEdge DEF Sound
    <1> HIDE DEF k, c, v
    <1>5. /\ c \in Int /\ Within(k, c, Edge)
        BY DEF k, c
    <1>6. /\ Recorded(k) \in Int /\ Recorded(v) \in Int
          /\ Within(Recorded(k), k, Grain) /\ Within(Recorded(v), v, Grain)
        BY <1>1, <1>2, RecordedWithin
    <1>7. Near(Recorded(v), v)
        <2>1. Within(v, v, Edge)
            BY <1>1, <1>2 DEF Within, Abs
        <2> QED
            BY <1>2, <2>1, NearOverEdge
    <1>8. Near(Recorded(k) + Recorded(v), c + v)
        <2> DEFINE rk == Recorded(k)
                   rv == Recorded(v)
        <2>1. /\ rk \in Int /\ rv \in Int /\ k \in Int /\ v \in Int /\ c \in Int
              /\ Within(rk, k, Grain) /\ Within(rv, v, Grain) /\ Within(k, c, Edge)
            BY <1>2, <1>5, <1>6, <1>1 DEF k
        <2> HIDE DEF rk, rv
        <2>2. Within(rk + rv, c + v, 2 * Grain + Edge)
            <3>1. /\ 2 * (rk - k) <= Grain /\ 2 * (k - rk) <= Grain
                  /\ 2 * (rv - v) <= Grain /\ 2 * (v - rv) <= Grain
                  /\ 2 * (k - c) <= Edge /\ 2 * (c - k) <= Edge
                BY <1>1, <2>1, WithinTyped
            <3>2. /\ 2 * ((rk + rv) - (c + v)) <= 2 * Grain + Edge
                  /\ 2 * ((c + v) - (rk + rv)) <= 2 * Grain + Edge
                BY <1>1, <2>1, <3>1
            <3>3. rk + rv \in Int /\ c + v \in Int /\ 2 * Grain + Edge \in Int
                BY <1>1, <2>1
            <3> QED
                BY <3>2, <3>3, WithinTyped
        <2>3. rk + rv \in Int /\ c + v \in Int /\ 2 * Grain + Edge \in Int
              /\ 2 * Grain + Edge <= 2 * Tolerance
            BY <1>1, <2>1
        <2> QED
            BY <2>2, <2>3, WithinIsNear DEF rk, rv
    <1>9. /\ Expected(row).side = o.side /\ Expected(row).quantity = o.quantity
        BY DEF AsReplayed
    <1> QED
        BY <1>2, <1>3, <1>4, <1>7, <1>8, <1>9 DEF OrderStands, k, c, v

\* A fill is read back near what was recorded of it, and near what the replay
\* would have filled.
LEMMA FillsAgree ==
    ASSUME BookInv, Edge <= Tolerance, NEW i \in 1..Len(rows), AsReplayed(rows[i]),
           Approved(rows[i]), Sound(rows[i].order), replayed.cash \in Int,
           Within(rows[i].order.cash, replayed.cash, Edge)
    PROVE  /\ Agree(Written(rows[i].order), ReadBack(rows[i].order))
           /\ Agree(ReadBack(rows[i].order), Amounts(Expected(rows[i])))
    <1> DEFINE row == rows[i]
               o == row.order
               f == ReadBack(o)
               x == Amounts(o)
               y == Amounts(Expected(row))
               w == Grain * o.quantity
    <1>1. costs \in Costs /\ Edge \in Int /\ Grain \in Nat /\ w \in Nat /\ w + 2 * Grain <= Edge
        BY RowsStand, EdgeCovers, BacktestAssumption DEF BacktestAssumption
    <1>2. /\ DOMAIN f = Fields /\ DOMAIN Written(o) = Fields
          /\ \A a \in Fields : /\ x[a] \in Int /\ f[a] \in Int
                               /\ Written(o)[a] = Recorded(x[a])
                               /\ Within(f[a], x[a], w + 2 * Grain)
        <2> HIDE DEF o
        <2>1. /\ o.side \in {"buy", "sell"} /\ o.quantity \in Nat
              /\ o.open \in Nat /\ o.cash \in Int
              /\ o.change = CashChange(o.side, o.quantity, o.open)
            BY DEF o, Sound
        <2> QED
            BY <1>1, <2>1, FillWithin
    <1>3. /\ \A a \in Fields \ {"cash"} : y[a] = x[a]
          /\ y["cash"] = replayed.cash + o.change
        BY SameAmounts
    <1>4. x["cash"] = o.cash + o.change /\ x["change"] = o.change
        BY DEF Amounts
    <1>5. "cash" \in Fields /\ "change" \in Fields /\ o.cash \in Int /\ Within(o.cash, replayed.cash, Edge)
        BY DEF Fields, Sound
    <1> HIDE DEF f, x, y, w, o
    <1>6. ASSUME NEW a \in Fields
          PROVE  /\ x[a] \in Int /\ f[a] \in Int /\ Written(o)[a] = Recorded(x[a])
                 /\ Within(f[a], x[a], Edge) /\ Within(x[a], f[a], Edge)
        <2> DEFINE b == f[a]
                   d == x[a]
        <2>1. b \in Int /\ d \in Int /\ Within(b, d, w + 2 * Grain) /\ w + 2 * Grain \in Int
            BY <1>1, <1>2
        <2> HIDE DEF b, d
        <2>2. Within(b, d, Edge) /\ Within(d, b, Edge)
            BY <1>1, <2>1, WithinWeakens
        <2> QED
            BY <1>2, <2>1, <2>2 DEF b, d
    <1>7. ASSUME NEW a \in Fields PROVE Near(Written(o)[a], f[a])
        BY <1>6, NearOverEdge
    <1>8. ASSUME NEW a \in Fields PROVE Near(f[a], y[a])
        <2>1. y[a] \in Int /\ Within(x[a], y[a], Edge)
            <3>1. CASE a # "cash"
                <4> DEFINE d == x[a]
                <4>1. y[a] = d /\ d \in Int
                    BY <1>3, <1>6, <3>1
                <4> HIDE DEF d
                <4>2. Within(d, d, Edge)
                    <5>1. Edge >= 0
                        BY <1>1
                    <5> QED
                        BY <1>1, <4>1, <5>1 DEF Within, Abs
                <4> QED
                    BY <4>1, <4>2 DEF d
            <3>2. CASE a = "cash"
                <4> DEFINE c == o.cash
                           h == o.change
                           r == replayed.cash
                <4>1. c \in Int /\ h \in Int /\ r \in Int /\ Within(c, r, Edge)
                    BY <1>2, <1>4, <1>5
                <4>2. x[a] = c + h /\ y[a] = r + h
                    BY <1>3, <1>4, <3>2
                <4> HIDE DEF c, h, r
                <4>3. r + h \in Int /\ Within(c + h, r + h, Edge)
                    BY <1>1, <4>1 DEF Within, Abs
                <4> QED
                    BY <4>2, <4>3
            <3> QED
                BY <3>1, <3>2
        <2> QED
            BY <1>6, <2>1, NearOverTwoEdges
    <1> QED
        BY <1>2, <1>7, <1>8 DEF Agree, f, y, o

---------------------------------------------------------------------------
(* Entries off the edge *)

\* Two amounts closer than both their distances from a multiple of d.
LEMMA SameQuotient ==
    ASSUME NEW d \in Nat \ {0}, NEW m \in Nat, NEW r \in Nat, NEW g \in Nat,
           Within(r, m, g), m % d >= g, d - (m % d) > g
    PROVE  r \div d = m \div d /\ (r >= d <=> m >= d)
    <1> DEFINE k == m \div d
               j == r \div d
               rem == m % d
    <1>1. k \in Int /\ j \in Int /\ rem \in Int /\ rem >= 0 /\ rem < d
        BY Division, Remainder
    <1>2. rem = m - d * k
        BY Remainder
    <1>3. d * j <= r /\ r < d * j + d
        BY Division
    <1> HIDE DEF k, j, rem
    <1> DEFINE dk == d * k
               dj == d * j
    <1>4. dk \in Int /\ dj \in Int
        BY <1>1
    <1>5. r >= dk /\ r < dk + d
        <2>1. rem = m - dk /\ rem >= g /\ d - rem > g
            BY <1>2 DEF rem
        <2>2. 2 * (r - m) <= g /\ 2 * (m - r) <= g
            BY WithinTyped
        <2> HIDE DEF dk
        <2>3. r >= dk
            BY <1>1, <1>4, <2>1, <2>2
        <2>4. r < dk + d
            BY <1>1, <1>4, <2>1, <2>2
        <2> QED
            BY <2>3, <2>4
    <1>6. ~(j > k)
        <2>1. ASSUME j > k PROVE FALSE
            <3>1. d * (k + 1) <= d * j
                BY <1>1, <2>1, Monotone
            <3>2. d * (k + 1) = dk + d
                BY <1>1
            <3> HIDE DEF dk, dj
            <3> QED
                BY <1>3, <1>4, <1>5, <3>1, <3>2 DEF dj
        <2> QED
            BY <2>1
    <1>7. ~(j < k)
        <2>1. ASSUME j < k PROVE FALSE
            <3>1. d * (j + 1) <= d * k
                BY <1>1, <2>1, Monotone
            <3>2. d * (j + 1) = dj + d
                BY <1>1
            <3> HIDE DEF dj
            <3> QED
                BY <1>3, <1>4, <1>5, <3>1, <3>2 DEF dk, dj
        <2> QED
            BY <2>1
    <1>8. m >= dk /\ m < dk + d
        BY <1>1, <1>2
    <1>9. r >= d <=> m >= d
        <2>1. CASE k >= 1
            <3>1. d * 1 <= d * k
                BY <1>1, <2>1, Monotone
            <3> HIDE DEF dk
            <3> QED
                BY <1>4, <1>5, <1>8, <3>1 DEF dk
        <2>2. CASE k <= 0
            <3>1. d * k <= d * 0
                BY <1>1, <2>2, Monotone
            <3> HIDE DEF dk
            <3> QED
                BY <1>4, <1>5, <1>8, <3>1 DEF dk
        <2> QED
            BY <1>1, <2>1, <2>2
    <1> QED
        BY <1>1, <1>6, <1>7, <1>9 DEF k, j

\* The size of an entry: one share if it cannot be paid, or all but the remainder.
LEMMA EntrySize ==
    ASSUME costs \in Costs, NEW open \in Opens, NEW money \in Nat
    PROVE  LET q == Max({1, Affordable(money, open)})
               d == ShareCost(open)
           IN  /\ d \in Nat \ {0}
               /\ money < d => q = 1
               /\ q * d <= money => money - q * d = money % d
    <1> DEFINE d == ShareCost(open)
               a == Affordable(money, open)
               q == Max({1, a})
    <1>1. d \in Nat \ {0}
        <2>1. open \in Nat /\ open > 0 /\ 0 \in Nat
            BY Opening
        <2> QED
            BY <2>1, EntryCost
    <1>2. a = money \div d
        BY DEF Affordable
    <1> HIDE DEF d, a
    <1>3. a \in Int /\ d * a <= money /\ money < d * a + d /\ money % d = money - d * a
        BY <1>1, <1>2, Division, Remainder
    <1>4. CASE a >= 1
        <2>1. q = a
            <3>1. \E x \in {1, a} : \A y \in {1, a} : x >= y
                BY <1>3, <1>4
            <3>2. q \in {1, a} /\ \A y \in {1, a} : q >= y
                BY <3>1 DEF Max
            <3> QED
                BY <1>3, <1>4, <3>2
        <2> HIDE DEF q
        <2>2. q * d = d * a /\ d * a \in Int
            BY <1>1, <1>3, <2>1
        <2>3. d * 1 <= d * a
            BY <1>1, <1>3, <1>4, Monotone
        <2> QED
            BY <1>1, <1>3, <2>2, <2>3 DEF q, d, a
    <1>5. CASE a < 1
        <2>1. q = 1
            <3>1. \E x \in {1, a} : \A y \in {1, a} : x >= y
                BY <1>3, <1>5
            <3>2. q \in {1, a} /\ \A y \in {1, a} : q >= y
                BY <3>1 DEF Max
            <3> QED
                BY <1>3, <1>5, <3>2
        <2> HIDE DEF q
        <2>2. d * a <= d * 0 /\ d * a \in Int
            BY <1>1, <1>3, <1>5, Monotone
        <2>3. money < d /\ q * d = d
            BY <1>1, <1>3, <2>1, <2>2
        <2> QED
            BY <1>1, <2>1, <2>3 DEF q, d, a
    <1> QED
        BY <1>3, <1>4, <1>5

\* Why an entry is rejected: one share is too dear, and if what would be left is
\* worth something, the share would be worth more.
LEMMA EntryRejected ==
    ASSUME costs \in Costs, NEW open \in Opens, NEW money \in Nat, money < ShareCost(open),
           NEW order, order = ProposeOrder(1, open, money, 0)
    PROVE  Reasons(order, money, 0) =
              {"insufficient_cash", "leverage_forbidden"}
                \cup Flag(money > ShareCost(open) - Value(open), "maximum_position_exceeded")
    <1> DEFINE d == ShareCost(open)
               V == Value(open)
    <1>1. order = [side |-> "buy", quantity |-> 1, target |-> 1, open |-> open,
                   change |-> CashChange("buy", 1, open), cash |-> money, shares |-> 0]
        BY EntrySize DEF ProposeOrder, Order
    <1>2. d \in Nat \ {0} /\ CashChange("buy", 1, open) = -d /\ V \in Int
        <2>1. d \in Nat \ {0} /\ open \in Nat
            BY EntrySize, Opening
        <2>2. CashChange("buy", 1, open) = -(1 * d)
            BY <2>1, EntryCost
        <2> QED
            BY <2>1, <2>2, CostsTyped DEF Value
    <1>3. Misfits(order, money, 0) = {}
        BY <1>1 DEF Misfits, Flag
    <1>4. Reasons(order, money, 0) = BuyReasons(order, money, 0)
        BY <1>1, <1>3 DEF Reasons
    <1> DEFINE left == money + order.change
               held2 == Value(order.open) * (0 + order.quantity)
    <1>5. left = money - d /\ held2 = V /\ order.change = -d /\ order.target = 1
        BY <1>1, <1>2
    <1>6. BuyReasons(order, money, 0) =
             Flag(order.target # 1, "invalid_target_transition")
             \cup Flag(0 > 0, "pyramiding_forbidden")
             \cup Flag(-order.change > money, "insufficient_cash")
             \cup Flag(left < 0 \/ left + held2 <= 0, "leverage_forbidden")
             \cup Flag(left + held2 > 0 /\ held2 > left + held2, "maximum_position_exceeded")
        BY DEF BuyReasons
    <1> HIDE DEF left, held2, d, V
    <1>7. /\ ~(order.target # 1) /\ ~(0 > 0) /\ -order.change > money
          /\ left < 0 \/ left + held2 <= 0
          /\ left + held2 > 0 /\ held2 > left + held2 <=> money > d - V
        BY <1>2, <1>5 DEF d
    <1>8. /\ Flag(order.target # 1, "invalid_target_transition") = {}
          /\ Flag(0 > 0, "pyramiding_forbidden") = {}
          /\ Flag(-order.change > money, "insufficient_cash") = {"insufficient_cash"}
          /\ Flag(left < 0 \/ left + held2 <= 0, "leverage_forbidden") = {"leverage_forbidden"}
          /\ Flag(left + held2 > 0 /\ held2 > left + held2, "maximum_position_exceeded")
               = Flag(money > d - V, "maximum_position_exceeded")
        BY <1>7 DEF Flag
    <1> DEFINE f == Flag(money > d - V, "maximum_position_exceeded")
    <1> HIDE DEF f
    <1>9. {} \cup {} \cup {"insufficient_cash"} \cup {"leverage_forbidden"} \cup f
             = {"insufficient_cash", "leverage_forbidden"} \cup f
        OBVIOUS
    <1> QED
        BY <1>4, <1>6, <1>8, <1>9 DEF f, d, V

\* An entry off the edge, as the audit asks for it: of the same size and judged
\* in the same way, whatever the rounding of the cash.
LEMMA EntryChecked ==
    ASSUME BookInv, Edge <= Tolerance, NEW i \in 1..Len(rows), Tracks(i - 1),
           ~OnEdge(rows[i]), rows[i].target = 1, HeldAfter(i - 1).shares = 0
    PROVE  /\ OrderStands(rows[i]) /\ AsReplayed(rows[i])
           /\ Approved(rows[i]) => rows[i].cash >= Edge
    <1> DEFINE row == rows[i]
               open == row.open
               m == HeldAfter(i - 1).cash
               r == replayed.cash
               d == ShareCost(open)
               o == row.order
               x == Expected(row)
    <1>1. /\ costs \in Costs /\ RowFollows(row, HeldAfter(i - 1)) /\ HeldAfter(i - 1) \in Portfolios
          /\ replayed \in Portfolios /\ Edge \in Nat /\ row.target = 1
          /\ replayed.shares = 0 /\ HeldAfter(i - 1).shares = 0 /\ Within(r, m, Edge)
        BY RowsStand, EdgeCovers DEF BookInv, BacktestTypeOK, Portfolios, Tracks
    <1>2. open \in Opens /\ m \in Nat /\ r \in Nat /\ row.cash \in Nat
        BY <1>1 DEF RowFollows, Portfolios
    <1>3. o = ProposeOrder(1, open, m, 0) /\ x = ProposeOrder(1, open, r, 0)
        BY <1>1 DEF RowFollows, Expected
    <1>4. /\ o.side = "buy" /\ o.quantity \in Nat \ {0} /\ o.open = open
          /\ o.cash = m /\ o.shares = 0 /\ o.change = CashChange("buy", o.quantity, open)
          /\ m >= d => Reasons(o, m, 0) = {}
          /\ Reasons(o, m, 0) = {} => m + o.change \in Nat
        BY <1>1, <1>2, <1>3, EntryJudged
    <1>5. /\ x.side = "buy" /\ x.open = open /\ x.cash = r /\ x.shares = 0
          /\ x.change = CashChange("buy", x.quantity, open)
          /\ r >= d => Reasons(x, r, 0) = {}
        BY <1>1, <1>2, <1>3, EntryJudged
    <1>6. /\ d \in Nat \ {0}
          /\ o.quantity = Max({1, Affordable(m, open)}) /\ x.quantity = Max({1, Affordable(r, open)})
        <2>1. o.quantity = Max({1, Affordable(m, open)}) /\ x.quantity = Max({1, Affordable(r, open)})
            BY <1>3 DEF ProposeOrder, Order
        <2> QED
            BY <1>1, <1>2, <2>1, EntrySize
    <1>7. row.reasons = Reasons(o, m, 0)
        <2>1. o # NoOrder
            BY <1>4 DEF NoOrder
        <2> QED
            BY <1>1, <2>1 DEF RowFollows
    <1> DEFINE charge == d - Value(open)
    <1>8. m % d >= Edge /\ d - (m % d) > Edge /\ Abs(m - charge) > Edge /\ charge \in Int
          /\ m % d \in Int
        <2>1. Value(open) \in Int
            BY <1>1, <1>2, Opening, CostsTyped DEF Value
        <2>2. /\ ~(m % d < Edge) /\ ~(d - (m % d) <= Edge) /\ ~(Abs(m - charge) <= Edge)
            BY <1>4 DEF OnEdge
        <2>3. m % d \in Int
            <3>1. d \in Nat \ {0} /\ m \in Int
                BY <1>2, <1>6
            <3> HIDE DEF d, m
            <3> QED
                BY <3>1, Remainder
        <2>4. charge \in Int
            BY <1>6, <2>1
        <2> HIDE DEF charge, d, m
        <2>5. Abs(m - charge) \in Int
            BY <1>2, <2>4 DEF Abs
        <2> QED
            BY <1>1, <1>6, <2>2, <2>3, <2>4, <2>5
    <1> HIDE DEF d, m, r, o, x, charge
    <1>9. r \div d = m \div d /\ (r >= d <=> m >= d)
        BY <1>1, <1>2, <1>6, <1>8, SameQuotient
    <1>10. x.quantity = o.quantity /\ x.change = o.change
        <2>1. Affordable(r, open) = Affordable(m, open)
            BY <1>9 DEF Affordable, d
        <2> QED
            BY <1>4, <1>5, <1>6, <2>1
    <1>11. o.change \in Int /\ o.change = -(o.quantity * d)
        <2> DEFINE q == o.quantity
        <2>1. q \in Nat /\ open \in Nat /\ "buy" \in {"buy", "sell"}
            BY <1>2, <1>4, Opening
        <2> HIDE DEF q
        <2>2. CashChange("buy", q, open) = -(q * d) /\ CashChange("buy", q, open) \in Int
            BY <1>1, <2>1, EntryCost, FillCost DEF d
        <2> QED
            BY <1>4, <2>2 DEF q
    <1>12. Reasons(x, r, 0) = row.reasons
        <2>1. CASE m >= d
            BY <1>4, <1>5, <1>7, <1>9, <2>1
        <2>2. CASE m < d
            <3>1. r < d
                BY <1>2, <1>6, <1>9, <2>2
            <3>2. r > charge <=> m > charge
                <4>1. 2 * (r - m) <= Edge /\ 2 * (m - r) <= Edge
                    BY <1>1, <1>2, WithinTyped
                <4> QED
                    BY <1>1, <1>2, <1>8, <4>1 DEF Abs
            <3>3. Reasons(o, m, 0) = {"insufficient_cash", "leverage_forbidden"}
                                       \cup Flag(m > charge, "maximum_position_exceeded")
                BY <1>1, <1>2, <1>3, <2>2, EntryRejected DEF d, charge
            <3>4. Reasons(x, r, 0) = {"insufficient_cash", "leverage_forbidden"}
                                       \cup Flag(r > charge, "maximum_position_exceeded")
                BY <1>1, <1>2, <1>3, <3>1, EntryRejected DEF d, charge
            <3>5. Flag(r > charge, "maximum_position_exceeded")
                     = Flag(m > charge, "maximum_position_exceeded")
                BY <3>2 DEF Flag
            <3> QED
                BY <1>7, <3>3, <3>4, <3>5
        <2> QED
            BY <1>2, <1>6, <2>1, <2>2
    <1>13. /\ row.reasons = {} => row.cash = m + o.change /\ row.shares = o.quantity
           /\ row.reasons # {} => row.cash = m /\ row.shares = 0
           /\ Approved(row) <=> row.reasons = {}
        <2>1. Approved(row) <=> row.reasons = {}
            BY <1>4 DEF Approved, o
        <2>2. Filled(o).cash = m + o.change /\ Filled(o).shares = o.quantity
            BY <1>4 DEF Filled
        <2> QED
            BY <1>1, <2>1, <2>2 DEF RowFollows, o, m
    <1>14. Approved(row) => row.cash >= Edge
        <2>1. ASSUME Approved(row) PROVE row.cash >= Edge
            <3>1. row.cash = m + o.change /\ m + o.change \in Nat
                BY <1>4, <1>7, <1>13, <2>1
            <3> DEFINE p == o.quantity * d
            <3>2. p \in Int
                BY <1>4, <1>6
            <3>3. p <= m => m - p = m % d
                BY <1>1, <1>2, <1>6, EntrySize DEF d
            <3>4. o.change = -p
                BY <1>11
            <3> HIDE DEF p
            <3> QED
                BY <1>2, <1>8, <3>1, <3>2, <3>3, <3>4
        <2> QED
            BY <2>1
    <1>15. Within(m, r, Edge)
        BY <1>1, <1>2, WithinWeakens
    <1> DEFINE after == IF row.reasons = {} THEN Filled(x) ELSE replayed
    <1>16. /\ after.cash \in Int /\ after.shares = row.shares
           /\ Within(row.cash, after.cash, Edge)
        <2>1. Filled(x).cash = r + o.change /\ Filled(x).shares = o.quantity
            BY <1>4, <1>5, <1>10 DEF Filled
        <2>2. CASE row.reasons = {}
            <3>1. Within(m + o.change, r + o.change, Edge)
                BY <1>1, <1>2, <1>11 DEF Within, Abs
            <3>2. r + o.change \in Int
                BY <1>2, <1>11
            <3> QED
                BY <1>13, <2>1, <2>2, <3>1, <3>2
        <2>3. CASE row.reasons # {}
            BY <1>1, <1>2, <1>13, <1>15, <2>3 DEF r
        <2> QED
            BY <2>2, <2>3
    <1> HIDE DEF after
    <1>17. AsReplayed(row) /\ Sound(row.order) /\ row.order.shares = replayed.shares
           /\ Within(row.order.cash, replayed.cash, Edge) /\ replayed.cash \in Int
           /\ Reasons(Expected(row), replayed.cash, replayed.shares) = row.reasons
        <2>1. open \in Nat
            BY <1>2, Opening
        <2> QED
            BY <1>1, <1>2, <1>4, <1>5, <1>10, <1>12, <1>15, <2>1 DEF AsReplayed, Sound, o, x, m, r
    <1>18. OrderStands(row)
        BY <1>16, <1>17, OrderChecked DEF after, x
    <1> QED
        BY <1>14, <1>17, <1>18

\* An exit, as the audit asks for it.
LEMMA ExitChecked ==
    ASSUME BookInv, Edge <= Tolerance, NEW i \in 1..Len(rows), Tracks(i - 1),
           rows[i].target = 0, HeldAfter(i - 1).shares > 0
    PROVE  OrderStands(rows[i]) /\ AsReplayed(rows[i])
    <1> DEFINE row == rows[i]
               open == row.open
               m == HeldAfter(i - 1).cash
               h == HeldAfter(i - 1).shares
               r == replayed.cash
               o == row.order
               x == Expected(row)
    <1>1. /\ costs \in Costs /\ RowFollows(row, HeldAfter(i - 1)) /\ HeldAfter(i - 1) \in Portfolios
          /\ replayed \in Portfolios /\ Edge \in Nat /\ row.target = 0
          /\ replayed.shares = h /\ h > 0 /\ Within(r, m, Edge)
        BY RowsStand, EdgeCovers DEF BookInv, BacktestTypeOK, Portfolios, Tracks
    <1>2. open \in Opens /\ m \in Nat /\ r \in Nat /\ h \in Nat
        BY <1>1 DEF RowFollows, Portfolios
    <1>3. o = ProposeOrder(0, open, m, h) /\ x = ProposeOrder(0, open, r, h)
        BY <1>1 DEF RowFollows, Expected
    <1>4. /\ o.side = "sell" /\ o.quantity = h /\ o.open = open /\ o.cash = m /\ o.shares = h
          /\ o.change = CashChange("sell", h, open)
          /\ ~Unbuildable(o) => Reasons(o, m, h) = {}
        BY <1>1, <1>2, <1>3, ExitJudged
    <1>5. /\ x.side = "sell" /\ x.quantity = h /\ x.open = open /\ x.cash = r /\ x.shares = h
          /\ x.change = CashChange("sell", h, open)
          /\ ~Unbuildable(x) => Reasons(x, r, h) = {}
        BY <1>1, <1>2, <1>3, ExitJudged
    <1> HIDE DEF o, x, m, r, h
    <1>6. o # NoOrder
        BY <1>4 DEF NoOrder
    <1>7. ~Unbuildable(o) /\ row.reasons = Reasons(o, m, h)
        BY <1>1, <1>6 DEF RowFollows, o, m, h
    <1>8. ~Unbuildable(x)
        BY <1>4, <1>5, <1>7 DEF Unbuildable
    <1>9. row.reasons = {} /\ Reasons(x, r, h) = {}
        BY <1>4, <1>5, <1>7, <1>8
    <1>10. /\ row.cash = m + o.change /\ Filled(x).cash = r + o.change
           /\ row.shares = Filled(x).shares
        <2>1. Approved(row)
            BY <1>4, <1>9 DEF Approved, o
        <2>2. Filled(o).cash = m + o.change /\ Filled(x).cash = r + o.change
              /\ Filled(o).shares = Filled(x).shares
            BY <1>4, <1>5 DEF Filled
        <2> QED
            BY <1>1, <2>1, <2>2 DEF RowFollows, o
    <1>11. o.change \in Int /\ open \in Nat
        <2>1. "sell" \in {"buy", "sell"} /\ open \in Nat
            BY <1>2, Opening
        <2> QED
            BY <1>1, <1>2, <1>4, <2>1, FillCost
    <1>12. Within(m, r, Edge) /\ Within(m + o.change, r + o.change, Edge)
           /\ r + o.change \in Int
        <2> DEFINE ch == o.change
        <2>1. ch \in Int
            BY <1>11
        <2> HIDE DEF ch
        <2>2. Within(m, r, Edge) /\ Within(m + ch, r + ch, Edge) /\ r + ch \in Int
            BY <1>1, <1>2, <2>1 DEF Within, Abs
        <2> QED
            BY <2>2 DEF ch
    <1> DEFINE after == IF row.reasons = {} THEN Filled(x) ELSE replayed
    <1>13. /\ after.cash \in Int /\ after.shares = row.shares
           /\ Within(row.cash, after.cash, Edge)
        BY <1>9, <1>10, <1>12
    <1> HIDE DEF after
    <1>14. AsReplayed(row) /\ Sound(row.order) /\ row.order.shares = replayed.shares
           /\ Within(row.order.cash, replayed.cash, Edge) /\ replayed.cash \in Int
           /\ Reasons(Expected(row), replayed.cash, replayed.shares) = row.reasons
        BY <1>1, <1>2, <1>4, <1>5, <1>9, <1>11, <1>12 DEF AsReplayed, Sound, o, x, m, r, h
    <1> QED
        BY <1>13, <1>14, OrderChecked DEF after, x

\* A fill is read back near what was recorded of it, and leaves no debt: an entry
\* off the edge leaves more than the rounding takes, and so does the sale of a share.
LEMMA FillChecked ==
    ASSUME BookInv, WithinTolerance, NEW i \in 1..Len(rows), Tracks(i - 1),
           Approved(rows[i]), AsReplayed(rows[i]),
           rows[i].order.side = "buy" => rows[i].cash >= Edge
    PROVE  FillStands(rows[i])
    <1> DEFINE row == rows[i]
               o == row.order
               q == o.quantity
               w == Grain * q
               f == ReadBack(o)
               c == row.cash
               ch == o.change
    <1>1. /\ costs \in Costs /\ RowFollows(row, HeldAfter(i - 1)) /\ HeldAfter(i - 1) \in Portfolios
          /\ Edge \in Nat /\ Grain \in Nat /\ Edge <= Tolerance /\ Edge >= 2 * Grain
          /\ replayed \in Portfolios
        BY RowsStand, EdgeCovers, BacktestAssumption 
        DEF BacktestAssumption, WithinTolerance, BookInv, BacktestTypeOK, Portfolios
    <1>2. /\ o.side \in {"buy", "sell"} /\ q \in Nat \ {0} /\ o.open \in Nat \ {0} /\ o.cash \in Nat
          /\ ch = CashChange(o.side, q, o.open) /\ c = o.cash + ch /\ c \in Nat
          /\ o.side = "sell" => costs.slippage < Scale /\ costs.commission < Scale
        BY <1>1, Trades
    <1>3. w \in Nat /\ w >= Grain /\ w + 2 * Grain <= Edge
        BY <1>1, EdgeCovers
    <1>4. /\ f.change \in Int /\ f.cash \in Int /\ ch \in Int
          /\ Within(f.change, ch, w + Grain) /\ Within(f.cash, c, w + 2 * Grain)
        <2>1. /\ o.quantity \in Nat /\ o.open \in Nat /\ o.cash \in Int
              /\ o.side \in {"buy", "sell"} /\ o.change = CashChange(o.side, o.quantity, o.open)
            BY <1>2
        <2>2. costs \in Costs /\ row.cash = o.cash + o.change
            BY <1>1, <1>2
        <2> HIDE DEF o
        <2>3. /\ f.change \in Int /\ f.cash \in Int /\ o.change \in Int
              /\ Within(f.change, o.change, Grain * o.quantity + Grain)
              /\ Within(f.cash, o.cash + o.change, Grain * o.quantity + 2 * Grain)
            BY <2>1, <2>2, ReadBackWithin
        <2> QED
            BY <2>2, <2>3
    <1>5. ASSUME o.side = "sell" PROVE 2 * ch >= 3 * w
        <2>1. Scale - costs.slippage > 0 /\ Scale - costs.commission > 0
              /\ 3 * Grain <= 2 * (Scale - costs.slippage) * (Scale - costs.commission)
            <3>1. costs.slippage < Scale /\ costs.commission < Scale
                BY <1>2, <1>5
            <3>2. Scale - costs.slippage > 0 /\ Scale - costs.commission > 0
                BY <1>1, <3>1, CostsTyped
            <3> QED
                BY <3>1, <3>2 DEF WithinTolerance
        <2>2. q \in Nat \ {0} /\ o.open \in Nat \ {0}
            BY <1>2
        <2> HIDE DEF q
        <2>3. 2 * CashChange("sell", q, o.open) >= 3 * (Grain * q)
            BY <1>1, <2>1, <2>2, Proceeds
        <2> QED
            BY <1>2, <1>5, <2>3
    <1> DEFINE fc == f.cash
               fd == f.change
               m == o.cash
    <1> HIDE DEF fc, fd, w, c, ch, m
    <1>6. fc \in Int /\ fd \in Int /\ ch \in Int /\ w \in Nat /\ c \in Nat /\ m \in Nat /\ c = m + ch
        BY <1>2, <1>3, <1>4 DEF fc, fd, w, c, ch, m
    <1>7. /\ Within(fd, ch, w + Grain) /\ Within(fc, c, w + 2 * Grain)
        BY <1>4 DEF fc, fd
    <1>8. fc >= 0
        <2>1. 2 * (c - fc) <= w + 2 * Grain
            <3>1. w + 2 * Grain \in Int /\ c \in Int
                BY <1>1, <1>6
            <3> QED
                BY <1>6, <1>7, <3>1, WithinTyped
        <2>2. CASE o.side = "buy"
            <3>1. c >= Edge
                BY <2>2 DEF c
            <3> QED
                BY <1>1, <1>3, <1>6, <2>1, <3>1
        <2>3. CASE o.side = "sell"
            BY <1>1, <1>3, <1>5, <1>6, <2>1, <2>3
        <2> QED
            BY <1>2, <2>2, <2>3
    <1>9. Agree(Written(o), ReadBack(o)) /\ Agree(ReadBack(o), Amounts(Expected(row)))
        <2>1. Sound(row.order)
            BY <1>2 DEF Sound, ch, m
        <2>2. row.order.cash = HeldAfter(i - 1).cash /\ HeldAfter(i - 1).cash \in Int
            BY <1>1, Trades
        <2>3. replayed.cash \in Int /\ Within(row.order.cash, replayed.cash, Edge)
            <3>1. replayed.cash \in Int /\ Edge \in Int
                BY <1>1 DEF Portfolios
            <3> QED
                BY <2>2, <3>1, WithinWeakens DEF Tracks
        <2> QED
            BY <1>1, <2>1, <2>3, FillsAgree
    <1> QED
        BY <1>8, <1>9 DEF FillStands, Readable, fc

\* A session whose order is off the edge stands in the audit.
LEMMA RowChecked ==
    ASSUME BookInv, WithinTolerance, NEW i \in 1..Len(rows), Tracks(i - 1), ~OnEdge(rows[i])
    PROVE  /\ OrderStands(rows[i]) /\ (Approved(rows[i]) => FillStands(rows[i]))
           /\ PortfolioStands(rows[i])
    <1> DEFINE row == rows[i]
               h == HeldAfter(i - 1).shares
    <1>1. /\ costs \in Costs /\ RowFollows(row, HeldAfter(i - 1)) /\ HeldAfter(i - 1) \in Portfolios
          /\ Edge <= Tolerance /\ row.target \in {0, 1}
        BY RowsStand DEF WithinTolerance, RowFollows
    <1>2. h \in Nat /\ replayed.shares = h
        BY <1>1 DEF Portfolios, Tracks
    <1>3. PortfolioStands(row)
        BY <1>1, PortfolioChecked
    <1>4. CASE row.target = 1 /\ h = 0
        BY <1>1, <1>3, <1>4, EntryChecked, FillChecked
    <1>5. CASE row.target = 0 /\ h > 0
        <2>1. row.order = ProposeOrder(0, row.open, HeldAfter(i - 1).cash, h)
            BY <1>1, <1>5 DEF RowFollows
        <2>2. row.order.side = "sell"
            BY <1>5, <2>1 DEF ProposeOrder, Order
        <2> QED
            BY <1>1, <1>3, <1>5, <2>2, ExitChecked, FillChecked
    <1>6. CASE ~(row.target = 1 /\ h = 0) /\ ~(row.target = 0 /\ h > 0)
        <2>1. row.order = NoOrder /\ Expected(row) = NoOrder
            BY <1>1, <1>2, <1>6 DEF RowFollows, Expected, ProposeOrder
        <2>2. ~Approved(row) /\ OrderStands(row)
            BY <2>1 DEF Approved, NoOrder, OrderStands
        <2> QED
            BY <1>3, <2>2
    <1> QED
        BY <1>4, <1>5, <1>6

\* The replay starts with the initial portfolio and follows the records.
AuditInv ==
    /\ phase = "trading" => at = 1 /\ replayed = HeldAfter(0)
    /\ phase = "audit" => Tracks(at - 1)

LEMMA AuditFollows ==
    ASSUME BookInv, AuditInv, [BacktestNext]_backtestVars
    PROVE  AuditInv'
    <1>1. costs \in Costs /\ rows \in Seq(Records) /\ Len(rows) \in Nat
        BY DEF BookInv, Books
    <1>2. HeldAfter(0)' = HeldAfter(0)
        BY DEF HeldAfter, Value, Unit
    <1>3. ASSUME rows' = rows, NEW n \in 0..Len(rows) PROVE HeldAfter(n)' = HeldAfter(n) /\ Edge' = Edge
        BY <1>3 DEF HeldAfter, Value, Unit, Edge
    <1>4. CASE \E target \in {0, 1}, open \in Opens, close \in Closes :
                   Trade(target, open, close)
        <2>1. phase' # "audit" /\ UNCHANGED <<at, replayed>> /\ phase = "trading"
            BY <1>4 DEF Trade, Abort
        <2> QED
            BY <1>2, <2>1 DEF AuditInv
    <1>5. CASE Measure
        <2>1. UNCHANGED <<rows, at, replayed>> /\ phase = "trading" /\ phase' # "trading"
            BY <1>5 DEF Measure, Abort
        <2>2. at = 1 /\ replayed = HeldAfter(0) /\ 0 \in 0..Len(rows)
            BY <1>1, <2>1 DEF AuditInv
        <2>3. HeldAfter(0).cash \in Int /\ Edge \in Nat
            BY <1>1, <2>2, HeldTyped, EdgeCovers DEF Portfolios
        <2>4. Tracks(0)
            BY <2>2, <2>3 DEF Tracks, Within, Abs
        <2>5. at' - 1 = 0
            BY <2>1, <2>2
        <2>6. Tracks(0)'
            BY <1>3, <2>1, <2>2, <2>4 DEF Tracks, Within, Abs
        <2> QED
            BY <2>1, <2>5, <2>6 DEF AuditInv
    <1>6. CASE AuditRow
        <2>1. /\ rows' = rows /\ phase = "audit" /\ phase' # "trading" /\ at \in 1..Len(rows)
              /\ phase' = "audit" => replayed' = Replay(rows[at]) /\ at' = at + 1
            BY <1>1, <1>6 DEF AuditRow, BookInv, BacktestTypeOK
        <2>2. /\ Replay(rows[at]).cash \in Int /\ Replay(rows[at]).shares = rows[at].shares
              /\ Within(Replay(rows[at]).cash, rows[at].cash, Edge)
            BY <2>1, ReplayTracks DEF AuditInv
        <2>3. /\ HeldAfter(at) = [cash |-> rows[at].cash, shares |-> rows[at].shares]
              /\ at \in 0..Len(rows)
            BY <2>1 DEF HeldAfter
        <2>4. ASSUME phase' = "audit" PROVE Tracks(at - 1)'
            <3>1. at' - 1 = at /\ replayed' = Replay(rows[at])
                BY <2>1, <2>4
            <3>2. HeldAfter(at - 1)' = HeldAfter(at)
                <4>1. at # 0 /\ at' - 1 # 0
                    BY <2>1, <3>1
                <4>2. HeldAfter(at - 1)' = [cash |-> rows'[at' - 1].cash,
                                            shares |-> rows'[at' - 1].shares]
                    BY <4>1 DEF HeldAfter
                <4> QED
                    BY <2>1, <2>3, <3>1, <4>2
            <3>3. Edge' = Edge
                BY <2>1 DEF Edge
            <3> QED
                BY <2>2, <2>3, <3>1, <3>2, <3>3 DEF Tracks, Within, Abs
        <2> QED
            BY <2>1, <2>4 DEF AuditInv
    <1>7. CASE Accept
        <2>1. phase' = "accepted"
            BY <1>7 DEF Accept
        <2> QED
            BY <2>1 DEF AuditInv
    <1>8. CASE UNCHANGED backtestVars
        <2>1. UNCHANGED <<phase, rows, at, replayed>>
            BY <1>8 DEF backtestVars
        <2> QED
            BY <2>1 DEF AuditInv, Tracks, Within, Abs, HeldAfter, Edge, Value, Unit
    <1> QED
        BY <1>4, <1>5, <1>6, <1>7, <1>8 DEF BacktestNext

\* A run none of whose entries was on the edge passes its own audit, whatever its
\* prices and sessions, if the tolerance covers the rounding of its largest
\* position (BacktestResult).
THEOREM AuditPasses == BacktestSpec => [](WithinTolerance => ClearRunsPassAudit)
    <1> DEFINE Inv == AuditInv /\ (WithinTolerance => ClearRunsPassAudit)
    <1>1. BacktestInit => Inv
        BY DEF BacktestInit, AuditInv, HeldAfter, ClearRunsPassAudit
    <1>2. BookInv /\ Inv /\ [BacktestNext]_backtestVars => Inv'
        <2> SUFFICES ASSUME BookInv, Inv, [BacktestNext]_backtestVars, WithinTolerance',
                            phase' = "refuted"
                     PROVE  \E i \in DOMAIN rows' : OnEdge(rows[i])'
            BY AuditFollows DEF ClearRunsPassAudit
        <2>1. costs' = costs /\ rows' = rows /\ (phase = "refuted" \/ AuditRow)
            BY DEF BacktestNext, Trade, Measure, AuditRow, Accept, Abort, backtestVars
        <2>2. WithinTolerance
            BY <2>1 DEF WithinTolerance, Edge
        <2>3. \E i \in DOMAIN rows : OnEdge(rows[i])
            <3>1. CASE phase = "refuted"
                BY <2>2, <3>1 DEF ClearRunsPassAudit
            <3>2. CASE AuditRow
                <4>1. /\ at \in 1..Len(rows) /\ rows \in Seq(Records) /\ Tracks(at - 1)
                      /\ ~(OrderStands(rows[at]) /\ (Approved(rows[at]) => FillStands(rows[at]))
                             /\ PortfolioStands(rows[at]))
                    BY <3>2 DEF AuditRow, AuditInv, BookInv, Books, BacktestTypeOK
                <4>2. OnEdge(rows[at])
                    BY <2>2, <4>1, RowChecked
                <4> QED
                    BY <4>1, <4>2
            <3> QED
                BY <2>1, <3>1, <3>2
        <2> QED
            BY <2>1, <2>3 DEF OnEdge, Edge, ShareCost
    <1> QED
        BY <1>1, <1>2, BooksBalance, PTL DEF BacktestSpec

---------------------------------------------------------------------------
(* The database *)

Size(kind) == Len(TablesOf(kind))
TableSet(kind) == {TablesOf(kind)[i] : i \in 1..Size(kind)}

Saves == [op : {"save"}, kind : Kinds, run : RunIds, artifact : Artifacts, next : Nat]
Loads == [op : {"load"}, kind : Kinds, run : RunIds, artifact : Artifacts \cup {None},
          next : Nat, torn : BOOLEAN]

\* A call saves an artifact of its kind, or has read what is stored.
CallOK(c) ==
    \/ call[c] = Idle
    \/ /\ call[c] \in Saves /\ call[c].artifact.kind = call[c].kind
       /\ call[c].next \in 1..Size(call[c].kind) + 1
       /\ call[c].next > 1 => writer = c
    \/ /\ call[c] \in Loads /\ ~call[c].torn
       /\ call[c].next \in 1..Size(call[c].kind) + 1
       /\ call[c].next > 1 => /\ call[c].artifact # None
                              /\ db[Base(call[c].kind)][call[c].run] = call[c].artifact

\* The rows of an artifact in the first n tables of its kind.
RowsUpTo(a, run, n) ==
    {[table |-> TablesOf(a.kind)[i], run |-> run, artifact |-> a] :
        i \in {j \in 1..n : Rows(a, TablesOf(a.kind)[j]) # None}}

\* The lock is held by a save under way, for a run id that is not stored, and
\* the rows it has inserted are those of the tables behind it.
WriterOK ==
    \/ writer = None /\ pending = {}
    \/ \E c \in Calls, a \in Artifacts, run \in RunIds, n \in Nat :
          /\ writer = c
          /\ call[c] = [op |-> "save", kind |-> a.kind, run |-> run, artifact |-> a, next |-> n + 1]
          /\ n \in 1..Size(a.kind)
          /\ db[Base(a.kind)][run] = None
          /\ pending = RowsUpTo(a, run, n)

\* What is committed is whole.
WholeOK ==
    \A kind \in Kinds, run \in RunIds :
        LET found == db[Base(kind)][run] IN
        /\ found # None => found \in Artifacts /\ found.kind = kind
        /\ \A t \in TableSet(kind) : db[t][run] = IF found = None THEN None ELSE Rows(found, t)

DInv ==
    /\ db \in [Tables -> [RunIds -> Artifacts \cup {None}]]
    /\ DOMAIN call = Calls /\ \A c \in Calls : CallOK(c)
    /\ WriterOK /\ WholeOK
    /\ runtime \in Versions /\ faults \in 0..MaxFaults
    /\ schema \in {"none", "v1", "v2", "newer"}

---------------------------------------------------------------------------
(* Tables: distinct within a kind, disjoint between kinds. *)

LEMMA SizeFacts ==
    ASSUME NEW kind \in Kinds
    PROVE  /\ Size(kind) \in {2, 5, 10} /\ TablesOf(kind)[1] = Base(kind)
           /\ DOMAIN TablesOf(kind) = 1..Size(kind)
           /\ ToSet(TablesOf(kind)) = TableSet(kind)
    <1>1. CASE kind = "market_data"
        BY <1>1 DEF Size, TablesOf, MarketTables, Base, ToSet, TableSet
    <1>2. CASE kind = "model"
        BY <1>2 DEF Size, TablesOf, ModelTables, Base, ToSet, TableSet
    <1>3. CASE kind = "backtest"
        BY <1>3 DEF Size, TablesOf, BacktestTables, Base, ToSet, TableSet
    <1> QED
        BY <1>1, <1>2, <1>3 DEF Kinds

LEMMA DistinctTables ==
    ASSUME NEW kind \in Kinds, NEW i \in 1..Size(kind), NEW j \in 1..Size(kind),
           TablesOf(kind)[i] = TablesOf(kind)[j]
    PROVE  i = j
    <1>1. CASE kind = "market_data"
        BY <1>1 DEF Size, TablesOf, MarketTables
    <1>2. CASE kind = "model"
        BY <1>2 DEF Size, TablesOf, ModelTables
    <1>3. CASE kind = "backtest"
        BY <1>3 DEF Size, TablesOf, BacktestTables
    <1> QED
        BY <1>1, <1>2, <1>3 DEF Kinds

LEMMA DisjointKinds ==
    ASSUME NEW k \in Kinds, NEW l \in Kinds, NEW t \in TableSet(k), t \in TableSet(l)
    PROVE  k = l
    <1>1. \A u \in TableSet("market_data") : u \in {"market_data_batches", "market_data_rows"}
        BY DEF TableSet, Size, TablesOf, MarketTables
    <1>2. \A u \in TableSet("model") :
            u \in {"model_runs", "model_validation_metric_snapshots", "model_candidate_parameters",
                   "model_predictions", "model_final_metrics"}
        BY DEF TableSet, Size, TablesOf, ModelTables
    <1>3. \A u \in TableSet("backtest") :
            u \in {"backtest_runs", "backtest_source_market_metadata", "backtest_source_market_rows",
                   "backtest_strategy_signals", "backtest_execution_prices", "backtest_proposed_orders",
                   "backtest_risk_decisions", "backtest_fills", "backtest_portfolio_rows",
                   "backtest_metrics"}
        BY DEF TableSet, Size, TablesOf, BacktestTables
    <1> QED
        BY <1>1, <1>2, <1>3 DEF Kinds

LEMMA AllTables ==
    /\ \A kind \in Kinds : TableSet(kind) \subseteq Tables /\ Base(kind) \in TableSet(kind)
    /\ \A t \in Tables : \E kind \in Kinds : t \in TableSet(kind)
    <1>1. \A kind \in Kinds : ToSet(TablesOf(kind)) = TableSet(kind)
        BY SizeFacts
    <1>2. \A kind \in Kinds : Base(kind) \in TableSet(kind)
        BY SizeFacts DEF TableSet
    <1> QED
        BY <1>1, <1>2 DEF Tables

LEMMA BacktestOrder ==
    /\ TablesOf("backtest")[6] = "backtest_proposed_orders"
    /\ TablesOf("backtest")[7] = "backtest_risk_decisions"
    /\ TablesOf("backtest")[8] = "backtest_fills"
    /\ TablesOf("backtest")[10] = "backtest_metrics"
    /\ Size("backtest") = 10
    BY DEF TablesOf, BacktestTables, Size

---------------------------------------------------------------------------
(* What a call holds and what it changes. *)

\* A step seen through the refinement mapping.
Mapped == Kept!PromiseNext \/ UNCHANGED Kept!pvars

\* Whole or absent: what is stored is what the first table holds.
LEMMA StoredIs ==
    ASSUME DInv, NEW kind \in Kinds, NEW run \in RunIds
    PROVE  Stored(kind, run) = db[Base(kind)][run]
    <1> DEFINE found == db[Base(kind)][run]
    <1>1. ASSUME NEW i \in DOMAIN TablesOf(kind)
          PROVE  db[TablesOf(kind)[i]][run] = IF found = None THEN None ELSE Rows(found, TablesOf(kind)[i])
        <2>1. TablesOf(kind)[i] \in TableSet(kind)
            BY SizeFacts DEF TableSet
        <2> QED
            BY <2>1 DEF DInv, WholeOK
    <1> QED
        BY <1>1 DEF Stored

LEMMA StoredType ==
    ASSUME DInv, NEW kind \in Kinds, NEW run \in RunIds
    PROVE  Stored(kind, run) \in Artifacts \cup {None}
    BY StoredIs DEF DInv, WholeOK

LEMMA Distinguished ==
    /\ None \notin Artifacts /\ None \notin RunIds /\ None \notin Calls
    /\ \A a \in Artifacts : /\ a.kind \in Kinds /\ Base(a.kind) \notin a.without
                            /\ "backtest_metrics" \notin a.without /\ NoOrphans(a)
    BY ArtifactAssumption DEF ArtifactAssumption

\* Who holds the lock is saving.
LEMMA WriterSaves ==
    ASSUME DInv, NEW c \in Calls, writer = c
    PROVE  call[c] # Idle /\ Saving(c) /\ ~Loading(c) /\ call[c].next > 1
    <1>1. writer # None
        BY Distinguished
    <1>2. PICK a \in Artifacts, run \in RunIds, n \in Nat :
            /\ call[c] = [op |-> "save", kind |-> a.kind, run |-> run, artifact |-> a, next |-> n + 1]
            /\ n \in 1..Size(a.kind)
        BY <1>1 DEF DInv, WriterOK
    <1> QED
        BY <1>2 DEF Idle, Saving, Loading

LEMMA WriterKept ==
    ASSUME WriterOK, UNCHANGED <<db, call, writer, pending>>
    PROVE  WriterOK'
    <1>1. CASE writer = None /\ pending = {}
        BY <1>1 DEF WriterOK
    <1>2. ASSUME NEW b \in Calls, NEW a \in Artifacts, NEW run \in RunIds, NEW n \in Nat,
                 writer = b, n \in 1..Size(a.kind),
                 call[b] = [op |-> "save", kind |-> a.kind, run |-> run, artifact |-> a,
                            next |-> n + 1],
                 db[Base(a.kind)][run] = None, pending = RowsUpTo(a, run, n)
          PROVE  WriterOK'
        <2>1. /\ writer' = b /\ call'[b] = call[b] /\ db'[Base(a.kind)][run] = None
              /\ pending' = RowsUpTo(a, run, n)
            BY <1>2
        <2> QED
            BY <1>2, <2>1 DEF WriterOK
    <1> QED
        BY <1>1, <1>2 DEF WriterOK

\* A step of one call that touches neither rows nor lock.
LEMMA QuietCall ==
    ASSUME DInv, NEW c \in Calls, writer # c, UNCHANGED <<db, writer, pending>>,
           DOMAIN call' = Calls, \A b \in Calls \ {c} : call'[b] = call[b], CallOK(c)'
    PROVE  /\ db' \in [Tables -> [RunIds -> Artifacts \cup {None}]]
           /\ DOMAIN call' = Calls /\ \A b \in Calls : CallOK(b)'
           /\ WriterOK' /\ WholeOK'
    <1>1. \A b \in Calls \ {c} : CallOK(b)'
        BY DEF DInv, CallOK
    <1>2. WriterOK'
        <2>1. CASE writer = None /\ pending = {}
            BY <2>1 DEF WriterOK
        <2>2. ASSUME NEW b \in Calls, NEW a \in Artifacts, NEW run \in RunIds, NEW n \in Nat,
                     writer = b, n \in 1..Size(a.kind),
                     call[b] = [op |-> "save", kind |-> a.kind, run |-> run, artifact |-> a,
                                next |-> n + 1],
                     db[Base(a.kind)][run] = None, pending = RowsUpTo(a, run, n)
              PROVE  WriterOK'
            <3>1. /\ writer' = b /\ call'[b] = call[b] /\ db'[Base(a.kind)][run] = None
                  /\ pending' = RowsUpTo(a, run, n)
                BY <2>2
            <3> QED
                BY <2>2, <3>1 DEF WriterOK
        <2> QED
            BY <2>1, <2>2 DEF DInv, WriterOK
    <1>3. WholeOK'
        BY DEF DInv, WholeOK
    <1> QED
        BY <1>1, <1>2, <1>3 DEF DInv

\* A call ends and gives back what it holds.
LEMMA ReleasedCall ==
    ASSUME DInv, NEW c \in Calls, UNCHANGED db, Release(c),
           DOMAIN call' = Calls, \A b \in Calls \ {c} : call'[b] = call[b], call'[c] = Idle
    PROVE  /\ db' \in [Tables -> [RunIds -> Artifacts \cup {None}]]
           /\ DOMAIN call' = Calls /\ \A b \in Calls : CallOK(b)'
           /\ WriterOK' /\ WholeOK'
    <1>1. CASE writer # c
        <2>1. UNCHANGED <<writer, pending>> /\ CallOK(c)'
            BY <1>1 DEF Release, CallOK
        <2> QED
            BY <1>1, <2>1, QuietCall
    <1>2. CASE writer = c
        <2>1. writer' = None /\ pending' = {}
            BY <1>2 DEF Release
        <2>2. \A b \in Calls \ {c} : CallOK(b)'
            BY <1>2 DEF DInv, CallOK
        <2>3. CallOK(c)'
            BY DEF CallOK
        <2> QED
            BY <2>1, <2>2, <2>3 DEF DInv, WriterOK, WholeOK
    <1> QED
        BY <1>1, <1>2

LEMMA EndedCall ==
    ASSUME DInv, NEW c \in Calls, NEW answer, End(c, answer)
    PROVE  /\ DOMAIN call' = Calls /\ \A b \in Calls \ {c} : call'[b] = call[b]
           /\ call'[c] = Idle /\ CallOK(c)'
    BY DEF DInv, End, CallOK

\* A refusal is a refusal of the promise.
LEMMA RefusalIsMapped ==
    ASSUME NEW c \in Calls, UNCHANGED <<db, runtime>>,
           NEW what \in {"nothing", "invalid", "schema", "failed", "died", "empty"},
           said' = [said EXCEPT ![c] = Refused(what)]
    PROVE  Mapped
    <1>1. Kept!Refuse(c)
        BY DEF Kept!Refuse, Kept!Say, Kept!Answer, Refused, Answer, Stored
    <1> QED
        BY <1>1 DEF Mapped, Kept!PromiseNext, Kept!pvars

LEMMA SilenceIsMapped ==
    ASSUME UNCHANGED <<db, said, runtime>>
    PROVE  Mapped
    BY DEF Mapped, Kept!pvars, Stored

---------------------------------------------------------------------------
(* Steps that touch neither rows nor lock. *)

LEMMA StartSaveStep ==
    ASSUME DInv, NEW c \in Calls, StartSave(c)
    PROVE  DInv' /\ Mapped
    <1>1. UNCHANGED <<db, schema, writer, pending, runtime, faults>> /\ writer # c
        BY WriterSaves DEF StartSave
    <1>2. PICK q \in Requests :
            IF Rebuilds(q.artifact, runtime) /\ Connects
            THEN Begin(c, [op |-> "save", kind |-> q.artifact.kind, run |-> q.run,
                           artifact |-> q.artifact, next |-> 1])
            ELSE End(c, Refused(IF Rebuilds(q.artifact, runtime) THEN "schema" ELSE "invalid"))
        BY DEF StartSave
    <1>3. q.run \in RunIds /\ q.artifact \in Artifacts /\ q.artifact.kind \in Kinds
        BY ArtifactAssumption DEF ArtifactAssumption
    <1>4. /\ DOMAIN call' = Calls /\ \A b \in Calls \ {c} : call'[b] = call[b]
          /\ CallOK(c)' /\ Mapped
        <2>1. CASE Rebuilds(q.artifact, runtime) /\ Connects
            <3>1. Begin(c, [op |-> "save", kind |-> q.artifact.kind, run |-> q.run,
                            artifact |-> q.artifact, next |-> 1])
                BY <1>2, <2>1
            <3>2. CallOK(c)'
                BY <1>3, <3>1, SizeFacts DEF Begin, DInv, CallOK, Saves
            <3>3. Mapped
                BY <1>1, <3>1, RefusalIsMapped DEF Begin
            <3> QED
                BY <3>1, <3>2, <3>3 DEF Begin, DInv
        <2>2. CASE ~(Rebuilds(q.artifact, runtime) /\ Connects)
            <3>1. PICK what \in {"schema", "invalid"} : End(c, Refused(what))
                BY <1>2, <2>2
            <3>2. Mapped
                BY <1>1, <3>1, RefusalIsMapped DEF End
            <3> QED
                BY <3>1, <3>2, EndedCall
        <2> QED
            BY <2>1, <2>2
    <1> QED
        BY <1>1, <1>4, QuietCall DEF DInv

LEMMA StartLoadStep ==
    ASSUME DInv, NEW c \in Calls, StartLoad(c) \/ StartLatest(c)
    PROVE  DInv' /\ Mapped
    <1>1. UNCHANGED <<db, schema, writer, pending, runtime, faults>> /\ writer # c
        BY WriterSaves DEF StartLoad, StartLatest
    <1>2. \/ \E kind \in Kinds, run \in RunIds : Begin(c, Reading(kind, run))
          \/ \E what \in {"schema", "empty"} : End(c, Refused(what))
        BY DEF StartLoad, StartLatest, LatestRuns, Kinds
    <1>3. CASE \E kind \in Kinds, run \in RunIds : Begin(c, Reading(kind, run))
        <2>1. PICK kind \in Kinds, run \in RunIds : Begin(c, Reading(kind, run))
            BY <1>3
        <2>2. CallOK(c)'
            BY <2>1, SizeFacts DEF Begin, Reading, DInv, CallOK, Loads
        <2>3. Mapped
            BY <1>1, <2>1, RefusalIsMapped DEF Begin
        <2>4. DOMAIN call' = Calls /\ \A b \in Calls \ {c} : call'[b] = call[b]
            BY <2>1 DEF Begin, DInv
        <2> QED
            BY <1>1, <2>2, <2>3, <2>4, QuietCall DEF DInv
    <1>4. CASE \E what \in {"schema", "empty"} : End(c, Refused(what))
        <2>1. PICK what \in {"schema", "empty"} : End(c, Refused(what))
            BY <1>4
        <2>2. Mapped
            BY <1>1, <2>1, RefusalIsMapped DEF End
        <2> QED
            BY <1>1, <2>1, <2>2, EndedCall, QuietCall DEF DInv
    <1> QED
        BY <1>2, <1>3, <1>4

\* The answer "missing" is true when it is given.
LEMMA ReadBaseStep ==
    ASSUME DInv, NEW c \in Calls, ReadBase(c)
    PROVE  DInv' /\ Mapped
    <1> DEFINE kind == call[c].kind
               run == call[c].run
               found == db[Base(kind)][run]
    <1>1. UNCHANGED <<db, schema, writer, pending, runtime, faults>> /\ writer # c
        BY WriterSaves DEF ReadBase
    <1>2. call[c] \in Loads /\ kind \in Kinds /\ run \in RunIds /\ ~call[c].torn
        BY DEF ReadBase, Loading, DInv, CallOK, Idle, Saves, Loads
    <1>3. CASE found = None
        <2>1. End(c, Answer("missing", kind, run, None))
            BY <1>3 DEF ReadBase
        <2>2. Stored(kind, run) = None
            BY <1>2, <1>3, StoredIs
        <2>3. Kept!Load(c, kind, run)
            BY <1>1, <1>2, <2>1, <2>2 DEF End, Kept!Load, Kept!Say, Kept!Answer, Answer, Stored
        <2>4. Mapped
            BY <1>1, <1>2, <2>3 DEF Mapped, Kept!PromiseNext, Kept!pvars
        <2> QED
            BY <1>1, <2>1, <2>4, EndedCall, QuietCall DEF DInv
    <1>4. CASE found # None
        <2>1. call' = [call EXCEPT ![c].artifact = found, ![c].next = 2] /\ UNCHANGED said
            BY <1>4 DEF ReadBase
        <2>2. /\ DOMAIN call' = Calls /\ \A b \in Calls \ {c} : call'[b] = call[b]
              /\ call'[c] = [call[c] EXCEPT !.artifact = found, !.next = 2]
            BY <2>1 DEF DInv
        <2>3. found \in Artifacts
            BY <1>2, <1>4 DEF DInv, WholeOK
        <2>4. /\ call'[c] \in Loads /\ call'[c].kind = kind /\ call'[c].run = run
              /\ call'[c].next = 2 /\ call'[c].artifact = found /\ ~call'[c].torn
            <3>1. call'[c] = [op |-> "load", kind |-> kind, run |-> run, artifact |-> found,
                              next |-> 2, torn |-> call[c].torn]
                BY <1>2, <2>2 DEF Loads
            <3>2. call[c].torn \in BOOLEAN
                BY <1>2 DEF Loads
            <3> QED
                BY <1>2, <2>3, <3>1, <3>2 DEF Loads
        <2>5. CallOK(c)'
            BY <1>1, <1>2, <1>4, <2>4, SizeFacts DEF CallOK
        <2>6. Mapped
            BY <1>1, <2>1, SilenceIsMapped
        <2> QED
            BY <1>1, <2>2, <2>5, <2>6, QuietCall DEF DInv
    <1> QED
        BY <1>3, <1>4

\* Every later table holds the rows of the artifact found in the first one.
LEMMA ReadTableStep ==
    ASSUME DInv, NEW c \in Calls, ReadTable(c)
    PROVE  DInv' /\ Mapped
    <1> DEFINE kind == call[c].kind
               run == call[c].run
               a == call[c].artifact
    <1>1. UNCHANGED <<db, schema, writer, pending, said, runtime, faults>> /\ writer # c
        BY WriterSaves DEF ReadTable
    <1>2. /\ call[c] \in Loads /\ kind \in Kinds /\ run \in RunIds /\ ~call[c].torn
          /\ call[c].next \in 1..Size(kind) /\ call[c].next > 1
          /\ a # None /\ db[Base(kind)][run] = a
        BY SizeFacts DEF ReadTable, Loading, DInv, CallOK, Idle, Saves, Loads, Unfinished, Size
    <1>3. Table(c) \in TableSet(kind)
        BY <1>2 DEF Table, TableSet
    <1>4. db[Table(c)][run] = Rows(a, Table(c))
        BY <1>2, <1>3 DEF DInv, WholeOK
    <1>5. /\ DOMAIN call' = Calls /\ \A b \in Calls \ {c} : call'[b] = call[b]
          /\ call'[c] = [call[c] EXCEPT !.next = @ + 1, !.torn = @ \/ FALSE]
        BY <1>4 DEF ReadTable, DInv
    <1>6. /\ call'[c] \in Loads /\ call'[c].kind = kind /\ call'[c].run = run
          /\ call'[c].next = call[c].next + 1 /\ call'[c].artifact = a /\ ~call'[c].torn
        <2>1. call'[c] = [op |-> "load", kind |-> kind, run |-> run, artifact |-> a,
                          next |-> call[c].next + 1, torn |-> call[c].torn \/ FALSE]
            BY <1>2, <1>5 DEF Loads
        <2>2. a \in Artifacts \cup {None} /\ call[c].next + 1 \in Nat
            BY <1>2 DEF Loads
        <2>3. (call[c].torn \/ FALSE) = FALSE
            BY <1>2
        <2> QED
            BY <1>2, <2>1, <2>2, <2>3 DEF Loads
    <1>7. CallOK(c)'
        BY <1>1, <1>2, <1>6, SizeFacts DEF CallOK
    <1>8. Mapped
        BY <1>1, SilenceIsMapped
    <1> QED
        BY <1>1, <1>5, <1>7, <1>8, QuietCall DEF DInv

LEMMA RebuildStep ==
    ASSUME DInv, NEW c \in Calls, Rebuild(c)
    PROVE  DInv' /\ Mapped
    <1> DEFINE kind == call[c].kind
               run == call[c].run
               a == call[c].artifact
    <1>1. UNCHANGED <<db, schema, writer, pending, runtime, faults>> /\ writer # c
        BY WriterSaves DEF Rebuild
    <1>2. /\ call[c] \in Loads /\ kind \in Kinds /\ run \in RunIds /\ ~call[c].torn
          /\ a # None /\ db[Base(kind)][run] = a
        BY SizeFacts DEF Rebuild, Loading, DInv, CallOK, Idle, Saves, Loads, Unfinished, Size
    <1>3. Stored(kind, run) = a
        BY <1>2, StoredIs
    <1>4. End(c, Answer(IF Rebuilds(a, runtime) THEN "loaded" ELSE "unreadable", kind, run, a))
        BY <1>2 DEF Rebuild
    <1>5. Kept!Load(c, kind, run)
        BY <1>1, <1>2, <1>3, <1>4
           DEF End, Kept!Load, Kept!Say, Kept!Answer, Kept!Rebuilds, Rebuilds, Answer, Stored
    <1>6. Mapped
        BY <1>1, <1>2, <1>5 DEF Mapped, Kept!PromiseNext, Kept!pvars
    <1> QED
        BY <1>1, <1>4, <1>6, EndedCall, QuietCall DEF DInv

\* A listing shows what is stored: every backtest stored has metrics.
LEMMA ListRunsStep ==
    ASSUME DInv, NEW c \in Calls, ListRuns(c)
    PROVE  DInv' /\ Mapped
    <1>1. UNCHANGED <<db, schema, writer, pending, runtime, faults>> /\ writer # c
        BY WriterSaves DEF ListRuns
    <1>2. PICK kind \in {"model", "backtest"} :
            End(c, IF Connects THEN Answer("listed", kind, None, Listed(kind)) ELSE Refused("schema"))
        BY DEF ListRuns
    <1>3. CASE ~Connects
        <2>1. Mapped
            BY <1>1, <1>2, <1>3, RefusalIsMapped DEF End
        <2> QED
            BY <1>1, <1>2, <2>1, EndedCall, QuietCall DEF DInv
    <1>4. CASE Connects
        <2>1. kind \in Kinds
            BY DEF Kinds
        <2>2. ASSUME NEW run \in RunIds, db[Base("backtest")][run] # None
              PROVE  db["backtest_metrics"][run] # None
            <3>1. "backtest_metrics" \in TableSet("backtest") /\ "backtest" \in Kinds
                BY BacktestOrder DEF TableSet, Kinds
            <3>2. PICK a \in Artifacts : a = db[Base("backtest")][run]
                BY <2>2, <3>1 DEF DInv, WholeOK
            <3>3. db["backtest_metrics"][run] = Rows(a, "backtest_metrics")
                BY <2>2, <3>1, <3>2 DEF DInv, WholeOK
            <3> QED
                BY <3>2, <3>3, Distinguished DEF Rows
        <2>3. Listed(kind) = {run \in RunIds : Stored(kind, run) # None}
            BY <2>1, <2>2, StoredIs DEF Listed
        <2>4. Kept!List(c, kind)
            BY <1>1, <1>2, <1>4, <2>1, <2>3 DEF End, Kept!List, Kept!Say, Kept!Answer, Answer, Stored
        <2>5. Mapped
            BY <1>1, <2>1, <2>4 DEF Mapped, Kept!PromiseNext, Kept!pvars
        <2> QED
            BY <1>1, <1>2, <2>5, EndedCall, QuietCall DEF DInv
    <1> QED
        BY <1>3, <1>4

LEMMA BusyStep ==
    ASSUME DInv, NEW c \in Calls, Busy(c)
    PROVE  DInv' /\ Mapped
    <1>1. /\ UNCHANGED <<db, schema, writer, pending, runtime, faults>> /\ writer # c
          /\ End(c, Refused("failed"))
        BY DEF Busy
    <1>2. Mapped
        BY <1>1, RefusalIsMapped DEF End
    <1> QED
        BY <1>1, <1>2, EndedCall, QuietCall DEF DInv

LEMMA InitializeDatabaseStep ==
    ASSUME DInv, NEW c \in Calls, InitializeDatabase(c)
    PROVE  DInv' /\ Mapped
    <1>1. UNCHANGED <<db, writer, pending, runtime, faults>> /\ writer # c
        BY WriterSaves DEF InitializeDatabase
    <1>2. CASE End(c, Refused("schema")) /\ UNCHANGED schema
        <2>1. Mapped
            BY <1>1, <1>2, RefusalIsMapped DEF End
        <2> QED
            BY <1>1, <1>2, <2>1, EndedCall, QuietCall DEF DInv
    <1>3. CASE schema' = "v2" /\ UNCHANGED <<call, said>>
        <2>1. CallOK(c)' /\ DOMAIN call' = Calls /\ \A b \in Calls \ {c} : call'[b] = call[b]
            BY <1>1, <1>3 DEF DInv, CallOK
        <2>2. Mapped
            BY <1>1, <1>3, SilenceIsMapped
        <2> QED
            BY <1>1, <1>3, <2>1, <2>2, QuietCall DEF DInv
    <1> QED
        BY <1>2, <1>3 DEF InitializeDatabase

LEMMA UpgradeStep ==
    ASSUME DInv, Upgrade
    PROVE  DInv' /\ Mapped
    <1>1. UNCHANGED <<db, schema, writer, pending, call, said, faults>> /\ runtime' = runtime + 1
          /\ runtime' \in Versions
        BY DEF Upgrade
    <1>2. Mapped
        BY <1>1 DEF Mapped, Kept!PromiseNext, Kept!pvars, Stored
    <1>3. \A c \in Calls : CallOK(c)'
        BY <1>1 DEF DInv, CallOK
    <1>4. WriterOK'
        BY <1>1, WriterKept DEF DInv
    <1>5. WholeOK'
        BY <1>1 DEF DInv, WholeOK
    <1> QED
        BY <1>1, <1>2, <1>3, <1>4, <1>5 DEF DInv

---------------------------------------------------------------------------
(* Saving. *)

\* What a save under way stands at: its artifact, its table and its lock.
LEMMA SavingCall ==
    ASSUME DInv, NEW c \in Calls, Saving(c)
    PROVE  /\ call[c] \in Saves /\ call[c].artifact \in Artifacts
           /\ call[c].kind \in Kinds /\ call[c].artifact.kind = call[c].kind
           /\ call[c].run \in RunIds /\ call[c].next \in 1..Size(call[c].kind) + 1
           /\ call[c].next \in Nat
           /\ call[c] = [op |-> "save", kind |-> call[c].kind, run |-> call[c].run,
                         artifact |-> call[c].artifact, next |-> call[c].next]
           /\ call[c].next > 1 =>
                 /\ writer = c
                 /\ db[Base(call[c].kind)][call[c].run] = None
                 /\ pending = RowsUpTo(call[c].artifact, call[c].run, call[c].next - 1)
           /\ call[c].next = 1 /\ writer \in {None, c} => writer = None /\ pending = {}
    <1>1. /\ call[c] \in Saves /\ call[c].artifact.kind = call[c].kind
          /\ call[c].next \in 1..Size(call[c].kind) + 1
          /\ call[c].next > 1 => writer = c
        BY DEF DInv, CallOK, Saving, Idle, Saves, Loads
    <1>2. /\ call[c].artifact \in Artifacts /\ call[c].kind \in Kinds /\ call[c].run \in RunIds
          /\ call[c].next \in Nat
          /\ call[c] = [op |-> "save", kind |-> call[c].kind, run |-> call[c].run,
                        artifact |-> call[c].artifact, next |-> call[c].next]
        BY <1>1 DEF Saves
    <1>3. ASSUME writer = c
          PROVE  /\ call[c].next > 1 /\ db[Base(call[c].kind)][call[c].run] = None
                 /\ pending = RowsUpTo(call[c].artifact, call[c].run, call[c].next - 1)
        <2>1. PICK a \in Artifacts, run \in RunIds, n \in Nat :
                /\ call[c] = [op |-> "save", kind |-> a.kind, run |-> run, artifact |-> a,
                              next |-> n + 1]
                /\ n \in 1..Size(a.kind)
                /\ db[Base(a.kind)][run] = None
                /\ pending = RowsUpTo(a, run, n)
            BY <1>3, Distinguished DEF DInv, WriterOK
        <2>2. /\ call[c].kind = a.kind /\ call[c].run = run /\ call[c].artifact = a
              /\ call[c].next = n + 1 /\ call[c].next - 1 = n
            BY <2>1
        <2> QED
            BY <2>1, <2>2
    <1>4. writer = None => pending = {}
        BY Distinguished DEF DInv, WriterOK
    <1> QED
        BY <1>1, <1>2, <1>3, <1>4

\* The next table adds its row, if the artifact has one there.
LEMMA NextRow ==
    ASSUME NEW a \in Artifacts, NEW run \in RunIds, NEW i \in Nat, i >= 1
    PROVE  RowsUpTo(a, run, i) =
             IF Rows(a, TablesOf(a.kind)[i]) # None
             THEN RowsUpTo(a, run, i - 1)
                    \cup {[table |-> TablesOf(a.kind)[i], run |-> run, artifact |-> a]}
             ELSE RowsUpTo(a, run, i - 1)
    <1>1. 1..i = (1..(i - 1)) \cup {i}
        OBVIOUS
    <1> QED
        BY <1>1 DEF RowsUpTo

LEMMA NoRows == \A a, run : RowsUpTo(a, run, 0) = {}
    BY DEF RowsUpTo

\* The first row of a save is always there to be inserted.
LEMMA BaseRow ==
    ASSUME NEW a \in Artifacts
    PROVE  Rows(a, Base(a.kind)) = a /\ a # None /\ \A t : Rows(a, t) \in {None, a}
    BY Distinguished DEF Rows

LEMMA InsertStep ==
    ASSUME DInv, NEW c \in Calls, Insert(c)
    PROVE  DInv' /\ Mapped
    <1>1. PICK a, kind, run, i :
            a = call[c].artifact /\ kind = call[c].kind /\ run = call[c].run /\ i = call[c].next
        OBVIOUS
    <1>2. /\ UNCHANGED <<db, schema, said, runtime, faults>>
          /\ Saving(c) /\ writer \in {None, c} /\ ~TakesKey(c)
        BY DEF Insert
    <1>3. /\ a \in Artifacts /\ a.kind = kind /\ kind \in Kinds /\ run \in RunIds /\ i \in Nat
          /\ call[c] = [op |-> "save", kind |-> kind, run |-> run, artifact |-> a, next |-> i]
          /\ i > 1 => writer = c /\ db[Base(kind)][run] = None /\ pending = RowsUpTo(a, run, i - 1)
          /\ i = 1 => writer = None /\ pending = {}
          /\ i \in 1..Size(kind) + 1
        BY <1>1, <1>2, SavingCall
    <1>4. i \in 1..Size(kind) /\ i >= 1
        BY <1>1, <1>3, SizeFacts DEF Insert, Unfinished, Size
    <1>5. pending = RowsUpTo(a, run, i - 1)
        <2>1. i > 1 \/ (i = 1 /\ i - 1 = 0)
            BY <1>3, <1>4
        <2> QED
            BY <1>3, <2>1, NoRows
    <1>6. i = 1 => Rows(a, TablesOf(kind)[i]) # None
        BY <1>3, BaseRow, SizeFacts
    <1>7. db[Base(kind)][run] = None
        <2>1. i = 1 => ~Present(Base(kind), run)
            BY <1>1, <1>2, <1>3, <1>6, SizeFacts DEF TakesKey, Table
        <2> QED
            BY <1>3, <1>4, <2>1 DEF Present
    <1>8. /\ writer' = c /\ pending' = RowsUpTo(a, run, i)
        <2>1. CASE Rows(a, TablesOf(kind)[i]) # None
            <3>1. writer' = c /\ pending' = pending \cup {[table |-> TablesOf(kind)[i], run |-> run,
                                                          artifact |-> a]}
                BY <1>1, <2>1 DEF Insert, Table, NewRow
            <3> QED
                BY <1>3, <1>4, <1>5, <2>1, <3>1, NextRow
        <2>2. CASE Rows(a, TablesOf(kind)[i]) = None
            <3>1. UNCHANGED <<writer, pending>> /\ i > 1
                BY <1>1, <1>4, <1>6, <2>2 DEF Insert, Table
            <3> QED
                BY <1>3, <1>4, <1>5, <2>2, <3>1, NextRow
        <2> QED
            BY <2>1, <2>2
    <1>9. /\ DOMAIN call' = Calls /\ \A b \in Calls \ {c} : call'[b] = call[b]
          /\ call'[c] = [op |-> "save", kind |-> kind, run |-> run, artifact |-> a, next |-> i + 1]
        BY <1>3 DEF Insert, Advanced, DInv
    <1>10. CallOK(c)'
        <2>1. call'[c] \in Saves
            BY <1>3, <1>9 DEF Saves
        <2>2. i + 1 \in 1..Size(kind) + 1
            BY <1>3, <1>4, SizeFacts
        <2> QED
            BY <1>3, <1>8, <1>9, <2>1, <2>2 DEF CallOK
    <1>11. \A b \in Calls \ {c} : CallOK(b)'
        BY <1>2, <1>8, <1>9, Distinguished DEF DInv, CallOK
    <1>12. WriterOK'
        BY <1>2, <1>3, <1>4, <1>7, <1>8, <1>9 DEF WriterOK
    <1>13. WholeOK'
        BY <1>2 DEF DInv, WholeOK
    <1>14. Mapped
        BY <1>2, SilenceIsMapped
    <1> QED
        BY <1>2, <1>9, <1>10, <1>11, <1>12, <1>13, <1>14 DEF DInv

\* Only the first table can refuse a save: its key is the run id.
LEMMA OnlyTheFirstRefuses ==
    ASSUME DInv, NEW c \in Calls, Saving(c), Unfinished(c), writer \in {None, c},
           TakesKey(c) \/ LacksParent(c)
    PROVE  TakesKey(c) /\ db[Base(call[c].kind)][call[c].run] # None
    <1>1. PICK a, kind, run, i :
            a = call[c].artifact /\ kind = call[c].kind /\ run = call[c].run /\ i = call[c].next
        OBVIOUS
    <1>2. /\ a \in Artifacts /\ a.kind = kind /\ kind \in Kinds /\ run \in RunIds /\ i \in Nat
          /\ i > 1 => db[Base(kind)][run] = None /\ pending = RowsUpTo(a, run, i - 1)
          /\ i = 1 => pending = {}
          /\ i \in 1..Size(kind) + 1
        BY <1>1, SavingCall
    <1>3. i \in 1..Size(kind) /\ Table(c) = TablesOf(kind)[i]
        BY <1>1, <1>2, SizeFacts DEF Unfinished, Size, Table
    <1>4. CASE i = 1
        <2>1. Table(c) = Base(kind)
            BY <1>2, <1>3, <1>4, SizeFacts
        <2>2. Parents(kind, Base(kind)) = {}
            BY <1>2, BacktestOrder DEF Parents, Base, TablesOf, MarketTables, ModelTables,
                                       BacktestTables, Kinds
        <2>3. ~LacksParent(c)
            BY <1>1, <2>1, <2>2 DEF LacksParent
        <2>4. Present(Base(kind), run) /\ pending = {}
            BY <1>1, <1>2, <1>4, <2>1, <2>3 DEF TakesKey
        <2> QED
            BY <1>1, <2>3, <2>4 DEF Present
    <1>5. CASE i > 1
        <2>1. db[Base(kind)][run] = None /\ pending = RowsUpTo(a, run, i - 1)
            BY <1>2, <1>5
        <2>2. ~Present(Table(c), run)
            <3>1. Table(c) \in TableSet(kind)
                BY <1>3 DEF TableSet
            <3>2. db[Table(c)][run] = None
                BY <1>2, <2>1, <3>1 DEF DInv, WholeOK
            <3>3. ASSUME NEW row \in pending, row.table = Table(c) PROVE FALSE
                <4>1. PICK j \in 1..(i - 1) : row.table = TablesOf(kind)[j]
                    BY <1>2, <2>1 DEF RowsUpTo
                <4>2. j \in 1..Size(kind) /\ j # i
                    BY <1>2, <1>3, SizeFacts
                <4> QED
                    BY <1>2, <1>3, <3>3, <4>1, <4>2, DistinctTables
            <3> QED
                BY <3>2, <3>3 DEF Present
        <2>3. ASSUME NEW j \in 1..(i - 1), Rows(a, TablesOf(kind)[j]) # None
              PROVE  Present(TablesOf(kind)[j], run)
            <3>1. [table |-> TablesOf(kind)[j], run |-> run, artifact |-> a] \in pending
                BY <1>2, <2>1, <2>3 DEF RowsUpTo
            <3> QED
                BY <3>1 DEF Present
        <2>4. Present(Base(kind), run)
            <3>1. 1 \in 1..(i - 1) /\ Rows(a, TablesOf(kind)[1]) # None
                BY <1>2, <1>5, BaseRow, SizeFacts
            <3> QED
                BY <1>2, <2>3, <3>1, SizeFacts
        <2>5. ASSUME Rows(a, Table(c)) # None, NEW p \in Parents(kind, Table(c))
              PROVE  Present(p, run)
            <3>1. CASE Table(c) = "backtest_risk_decisions"
                <4>1. kind = "backtest" /\ i = 7
                    <5>1. "backtest_risk_decisions" \in TableSet("backtest") /\ "backtest" \in Kinds
                          /\ Table(c) \in TableSet(kind)
                        BY <1>3, BacktestOrder DEF TableSet, Kinds
                    <5>2. kind = "backtest"
                        BY <1>2, <3>1, <5>1, DisjointKinds
                    <5>3. 7 \in 1..Size(kind) /\ TablesOf(kind)[7] = TablesOf(kind)[i]
                        BY <1>3, <3>1, <5>2, BacktestOrder
                    <5> QED
                        BY <1>2, <1>3, <5>2, <5>3, DistinctTables
                <4>2. "backtest_proposed_orders" \notin a.without
                    BY <1>2, <2>5, <3>1, Distinguished DEF NoOrphans, Rows
                <4>3. Present("backtest_proposed_orders", run)
                    <5>1. 6 \in 1..(i - 1) /\ Rows(a, TablesOf(kind)[6]) # None
                        BY <1>2, <4>1, <4>2, BaseRow, BacktestOrder DEF Rows
                    <5> QED
                        BY <2>3, <4>1, <5>1, BacktestOrder
                <4> QED
                    BY <2>4, <2>5, <3>1, <4>3 DEF Parents
            <3>2. CASE Table(c) = "backtest_fills"
                <4>1. kind = "backtest" /\ i = 8
                    <5>1. "backtest_fills" \in TableSet("backtest") /\ "backtest" \in Kinds
                          /\ Table(c) \in TableSet(kind)
                        BY <1>3, BacktestOrder DEF TableSet, Kinds
                    <5>2. kind = "backtest"
                        BY <1>2, <3>2, <5>1, DisjointKinds
                    <5>3. 8 \in 1..Size(kind) /\ TablesOf(kind)[8] = TablesOf(kind)[i]
                        BY <1>3, <3>2, <5>2, BacktestOrder
                    <5> QED
                        BY <1>2, <1>3, <5>2, <5>3, DistinctTables
                <4>2. "backtest_risk_decisions" \notin a.without
                    BY <1>2, <2>5, <3>2, Distinguished DEF NoOrphans, Rows
                <4>3. Present("backtest_risk_decisions", run)
                    <5>1. 7 \in 1..(i - 1) /\ Rows(a, TablesOf(kind)[7]) # None
                        BY <1>2, <4>1, <4>2, BaseRow, BacktestOrder DEF Rows
                    <5> QED
                        BY <2>3, <4>1, <5>1, BacktestOrder
                <4> QED
                    BY <2>4, <2>5, <3>2, <4>3 DEF Parents
            <3>3. CASE Table(c) \notin {"backtest_risk_decisions", "backtest_fills"}
                BY <2>4, <2>5, <3>3 DEF Parents
            <3> QED
                BY <3>1, <3>2, <3>3
        <2> QED
            BY <1>1, <2>2, <2>5 DEF TakesKey, LacksParent
    <1> QED
        BY <1>1, <1>2, <1>3, <1>4, <1>5

\* A conflict is reported for a run id that is stored, and nothing is "broken".
LEMMA InsertFailsStep ==
    ASSUME DInv, NEW c \in Calls, InsertFails(c)
    PROVE  DInv' /\ Mapped
    <1>1. PICK a, kind, run : a = call[c].artifact /\ kind = call[c].kind /\ run = call[c].run
        OBVIOUS
    <1>2. a \in Artifacts /\ kind \in Kinds /\ run \in RunIds
        BY <1>1, SavingCall DEF InsertFails
    <1>3. TakesKey(c) /\ db[Base(kind)][run] # None
        BY <1>1, OnlyTheFirstRefuses DEF InsertFails
    <1>4. /\ End(c, Answer("conflict", kind, run, a)) /\ Release(c)
          /\ UNCHANGED <<db, schema, runtime, faults>>
        BY <1>1, <1>3 DEF InsertFails
    <1>5. Stored(kind, run) # None
        BY <1>2, <1>3, StoredIs
    <1>6. Kept!Conflict(c, kind, run, a)
        BY <1>2, <1>4, <1>5 DEF End, Kept!Conflict, Kept!Say, Kept!Answer, Answer, Stored
    <1>7. Mapped
        BY <1>2, <1>4, <1>6 DEF Mapped, Kept!PromiseNext, Kept!pvars
    <1> QED
        BY <1>4, <1>7, EndedCall, ReleasedCall DEF DInv

LEMMA FailStep ==
    ASSUME DInv, NEW c \in Calls, Fail(c)
    PROVE  DInv' /\ Mapped
    <1>1. PICK what \in {"failed", "died"} : End(c, Refused(what))
        BY DEF Fail
    <1>2. /\ Release(c) /\ UNCHANGED <<db, schema, runtime>> /\ faults' \in 0..MaxFaults
        BY ArtifactAssumption DEF Fail, DInv, ArtifactAssumption
    <1>3. Mapped
        BY <1>1, <1>2, RefusalIsMapped DEF End
    <1> QED
        BY <1>1, <1>2, <1>3, EndedCall, ReleasedCall DEF DInv

\* A commit stores all rows of one artifact under a run id that was free.
LEMMA CommitStep ==
    ASSUME DInv, NEW c \in Calls, Commit(c)
    PROVE  DInv' /\ Mapped
    <1>1. PICK a, kind, run, i :
            a = call[c].artifact /\ kind = call[c].kind /\ run = call[c].run /\ i = call[c].next
        OBVIOUS
    <1>2. /\ a \in Artifacts /\ a.kind = kind /\ kind \in Kinds /\ run \in RunIds /\ i \in Nat
          /\ i > 1 => writer = c /\ db[Base(kind)][run] = None /\ pending = RowsUpTo(a, run, i - 1)
          /\ i \in 1..Size(kind) + 1
        BY <1>1, SavingCall DEF Commit
    <1>3. i = Size(kind) + 1 /\ i > 1 /\ i - 1 = Size(kind)
        BY <1>1, <1>2, SizeFacts DEF Commit, Unfinished, Size
    <1>4. writer = c /\ db[Base(kind)][run] = None /\ pending = RowsUpTo(a, run, Size(kind))
        BY <1>2, <1>3
    <1>5. /\ End(c, Answer("saved", kind, run, a)) /\ writer' = None /\ pending' = {}
          /\ UNCHANGED <<schema, runtime, faults>>
        BY <1>1 DEF Commit
    <1>6. ASSUME NEW t \in Tables, NEW r \in RunIds
          PROVE  db'[t][r] = IF t \in TableSet(kind) /\ r = run THEN Rows(a, t) ELSE db[t][r]
        <2> DEFINE Here(row) == row.table = t /\ row.run = r
        <2>1. db'[t][r] = IF \E row \in pending : Here(row)
                          THEN (CHOOSE row \in pending : Here(row)).artifact
                          ELSE db[t][r]
            BY <1>6 DEF Commit
        <2>2. \A row \in pending : row.artifact = a /\ row.run = run
                                   /\ row.table \in TableSet(kind) /\ Rows(a, row.table) # None
            BY <1>2, <1>4 DEF RowsUpTo, TableSet
        <2>3. CASE t \in TableSet(kind) /\ r = run /\ Rows(a, t) # None
            <3>1. [table |-> t, run |-> run, artifact |-> a] \in pending
                BY <1>2, <1>4, <2>3 DEF RowsUpTo, TableSet
            <3>2. \E row \in pending : Here(row)
                BY <2>3, <3>1
            <3>3. (CHOOSE row \in pending : Here(row)) \in pending
                BY <3>2
            <3>4. db'[t][r] = a
                BY <2>1, <2>2, <3>2, <3>3
            <3> QED
                BY <1>2, <2>3, <3>4, BaseRow
        <2>4. CASE ~(t \in TableSet(kind) /\ r = run /\ Rows(a, t) # None)
            <3>1. ~\E row \in pending : Here(row)
                BY <2>2, <2>4
            <3>2. db'[t][r] = db[t][r]
                BY <2>1, <3>1
            <3>3. t \in TableSet(kind) /\ r = run => db[t][r] = None
                BY <1>2, <1>4 DEF DInv, WholeOK
            <3> QED
                BY <2>4, <3>2, <3>3
        <2> QED
            BY <2>3, <2>4
    <1>7. ASSUME NEW k \in Kinds, NEW r \in RunIds
          PROVE  /\ \A t \in TableSet(k) : db'[t][r] = IF k = kind /\ r = run THEN Rows(a, t) ELSE db[t][r]
                 /\ db'[Base(k)][r] = IF k = kind /\ r = run THEN a ELSE db[Base(k)][r]
        <2>1. \A t \in TableSet(k) : t \in TableSet(kind) <=> k = kind
            BY <1>2, DisjointKinds
        <2>2. TableSet(k) \subseteq Tables /\ Base(k) \in TableSet(k)
            BY AllTables
        <2>3. \A t \in TableSet(k) : db'[t][r] = IF k = kind /\ r = run THEN Rows(a, t) ELSE db[t][r]
            BY <1>6, <2>1, <2>2
        <2> QED
            BY <1>2, <2>2, <2>3, BaseRow
    <1>8. db' \in [Tables -> [RunIds -> Artifacts \cup {None}]]
        <2>1. DOMAIN db' = Tables /\ \A t \in Tables : DOMAIN db'[t] = RunIds
            BY DEF Commit
        <2>2. \A t \in Tables, r \in RunIds : db'[t][r] \in Artifacts \cup {None}
            <3>1. \A t : Rows(a, t) \in Artifacts \cup {None}
                BY <1>2 DEF Rows
            <3>2. \A t \in Tables, r \in RunIds : db[t][r] \in Artifacts \cup {None}
                BY DEF DInv
            <3> QED
                BY <1>6, <3>1, <3>2
        <2>3. db' = [t \in Tables |-> [r \in RunIds |-> db'[t][r]]]
            BY DEF Commit
        <2> QED
            BY <2>2, <2>3
    <1>9. WholeOK'
        <2>1. ASSUME NEW k \in Kinds, NEW r \in RunIds
              PROVE  /\ db'[Base(k)][r] # None => db'[Base(k)][r] \in Artifacts /\ db'[Base(k)][r].kind = k
                     /\ \A t \in TableSet(k) :
                          db'[t][r] = IF db'[Base(k)][r] = None THEN None ELSE Rows(db'[Base(k)][r], t)
            <3>1. CASE k = kind /\ r = run
                BY <1>2, <1>7, <3>1, BaseRow
            <3>2. CASE ~(k = kind /\ r = run)
                BY <1>7, <3>2 DEF DInv, WholeOK
            <3> QED
                BY <3>1, <3>2
        <2> QED
            BY <2>1 DEF WholeOK
    <1>10. /\ DOMAIN call' = Calls /\ \A b \in Calls \ {c} : call'[b] = call[b]
           /\ CallOK(c)'
        BY <1>5, EndedCall
    <1>11. ASSUME NEW b \in Calls \ {c} PROVE CallOK(b)'
        <2>1. CASE call[b] = Idle
            BY <1>10, <2>1 DEF CallOK
        <2>2. CASE call[b] \in Saves
            <3>1. /\ call[b].artifact.kind = call[b].kind /\ call[b].next \in 1..Size(call[b].kind) + 1
                  /\ ~(call[b].next > 1)
                BY <1>4, <2>2 DEF DInv, CallOK, Saves, Loads, Idle
            <3> QED
                BY <1>10, <2>2, <3>1 DEF CallOK
        <2>3. CASE call[b] \in Loads
            <3>1. /\ ~call[b].torn /\ call[b].next \in 1..Size(call[b].kind) + 1
                  /\ call[b].next > 1 => /\ call[b].artifact # None
                                         /\ db[Base(call[b].kind)][call[b].run] = call[b].artifact
                BY <2>3 DEF DInv, CallOK, Saves, Loads, Idle
            <3>2. call[b].kind \in Kinds /\ call[b].run \in RunIds
                BY <2>3 DEF Loads
            <3>3. call[b].next > 1 => db'[Base(call[b].kind)][call[b].run] = call[b].artifact
                BY <1>4, <1>7, <3>1, <3>2
            <3> QED
                BY <1>10, <2>3, <3>1, <3>3 DEF CallOK
        <2> QED
            BY <2>1, <2>2, <2>3 DEF DInv, CallOK
    <1>12. WriterOK'
        BY <1>5 DEF WriterOK
    <1>13. DInv'
        BY <1>5, <1>8, <1>9, <1>10, <1>11, <1>12 DEF DInv
    <1>14. \A k \in Kinds, r \in RunIds : Stored(k, r)' = db'[Base(k)][r]
        <2>1. ASSUME NEW k \in Kinds, NEW r \in RunIds,
                     NEW j \in DOMAIN TablesOf(k)
              PROVE  db'[TablesOf(k)[j]][r] =
                       IF db'[Base(k)][r] = None THEN None ELSE Rows(db'[Base(k)][r], TablesOf(k)[j])
            <3>1. TablesOf(k)[j] \in TableSet(k)
                BY SizeFacts DEF TableSet
            <3> QED
                BY <1>9, <3>1 DEF WholeOK
        <2> QED
            BY <2>1 DEF Stored
    <1>15. \A k \in Kinds, r \in RunIds :
             Stored(k, r)' = IF k = kind /\ r = run THEN a ELSE Stored(k, r)
        BY <1>7, <1>14, StoredIs
    <1>16. Kept!Publish(c, kind, run, a)
        <2>1. Stored(kind, run) = None
            BY <1>2, <1>4, StoredIs
        <2>2. [k \in Kinds |-> [r \in RunIds |-> Stored(k, r)']]
                = [[k \in Kinds |-> [r \in RunIds |-> Stored(k, r)]] EXCEPT ![kind][run] = a]
            BY <1>2, <1>15
        <2>3. said' = [said EXCEPT ![c] = Kept!Answer("saved", kind, run, a)]
            BY <1>5 DEF End, Answer, Kept!Answer
        <2> QED
            BY <1>2, <2>1, <2>2, <2>3 DEF Kept!Publish, Kept!Say
    <1>17. Mapped
        BY <1>2, <1>5, <1>16 DEF Mapped, Kept!PromiseNext, Kept!pvars
    <1> QED
        BY <1>13, <1>17

---------------------------------------------------------------------------
(* The theorems. *)

LEMMA InitDInv == Init => DInv /\ Kept!PromiseInit
    <1> SUFFICES ASSUME Init PROVE DInv /\ Kept!PromiseInit
        OBVIOUS
    <1> DEFINE Held(kind, run) == {q \in AtStart : q.run = run /\ q.artifact.kind = kind}
    <1>1. ASSUME NEW kind \in Kinds, NEW run \in RunIds, NEW t \in TableSet(kind)
          PROVE  db[t][run] = IF schema # "none" /\ Held(kind, run) # {}
                              THEN Rows((CHOOSE q \in Held(kind, run) : TRUE).artifact, t)
                              ELSE None
        <2>1. t \in Tables
            BY AllTables
        <2>2. \A q \in AtStart : q.artifact.kind \in Kinds
            BY ArtifactAssumption DEF ArtifactAssumption
        <2>3. \A q \in AtStart : t \in ToSet(TablesOf(q.artifact.kind)) <=> q.artifact.kind = kind
            BY <2>2, SizeFacts, DisjointKinds
        <2>4. {q \in AtStart : q.run = run /\ t \in ToSet(TablesOf(q.artifact.kind))} = Held(kind, run)
            BY <2>3
        <2>5. db[t][run] = LET held == {q \in AtStart : q.run = run
                                                         /\ t \in ToSet(TablesOf(q.artifact.kind))}
                           IN IF schema # "none" /\ held # {}
                              THEN Rows((CHOOSE q \in held : TRUE).artifact, t)
                              ELSE None
            BY <2>1 DEF Init
        <2> HIDE DEF Held
        <2> QED
            BY <2>4, <2>5
    <1>2. ASSUME NEW kind \in Kinds, NEW run \in RunIds
          PROVE  /\ db[Base(kind)][run] # None =>
                      db[Base(kind)][run] \in Artifacts /\ db[Base(kind)][run].kind = kind
                 /\ \A t \in TableSet(kind) :
                      db[t][run] = IF db[Base(kind)][run] = None THEN None
                                   ELSE Rows(db[Base(kind)][run], t)
        <2>1. Base(kind) \in TableSet(kind)
            BY AllTables
        <2>2. CASE schema # "none" /\ Held(kind, run) # {}
            <3>1. PICK a : a = (CHOOSE q \in Held(kind, run) : TRUE).artifact
                OBVIOUS
            <3>2. (CHOOSE q \in Held(kind, run) : TRUE) \in Held(kind, run)
                BY <2>2
            <3>3. a \in Artifacts /\ a.kind = kind
                BY <3>1, <3>2, ArtifactAssumption DEF ArtifactAssumption
            <3>4. \A t \in TableSet(kind) : db[t][run] = Rows(a, t)
                BY <1>1, <2>2, <3>1
            <3> QED
                BY <2>1, <3>3, <3>4, BaseRow
        <2>3. CASE ~(schema # "none" /\ Held(kind, run) # {})
            <3>1. \A t \in TableSet(kind) : db[t][run] = None
                BY <1>1, <2>3
            <3> QED
                BY <2>1, <3>1
        <2> QED
            BY <2>2, <2>3
    <1>3. WholeOK
        BY <1>2 DEF WholeOK
    <1>4. db \in [Tables -> [RunIds -> Artifacts \cup {None}]]
        <2>1. ASSUME NEW t \in Tables, NEW run \in RunIds PROVE db[t][run] \in Artifacts \cup {None}
            <3>1. PICK kind \in Kinds : t \in TableSet(kind)
                BY AllTables
            <3> QED
                BY <1>2, <3>1 DEF Rows
        <2>2. db = [t \in Tables |-> [run \in RunIds |-> db[t][run]]]
            BY DEF Init
        <2> QED
            BY <2>1, <2>2
    <1>5. DInv
        <2>1. /\ DOMAIN call = Calls /\ \A c \in Calls : CallOK(c)
              /\ WriterOK
            BY DEF Init, CallOK, WriterOK
        <2>2. /\ runtime \in Versions /\ faults \in 0..MaxFaults
              /\ schema \in {"none", "v1", "v2", "newer"}
            BY ArtifactAssumption DEF Init, ArtifactAssumption
        <2> QED
            BY <1>3, <1>4, <2>1, <2>2 DEF DInv
    <1>6. Kept!PromiseInit
        BY <1>5, StoredType DEF Init, Kept!PromiseInit, Kept!Answer, Refused, Answer
    <1> QED
        BY <1>5, <1>6

LEMMA NextDInv == DInv /\ [Next]_vars => DInv' /\ Mapped
    <1> SUFFICES ASSUME DInv, [Next]_vars PROVE DInv' /\ Mapped
        OBVIOUS
    <1>1. CASE Next
        BY <1>1, InsertStep, InsertFailsStep, CommitStep, BusyStep, ReadBaseStep, ReadTableStep,
           RebuildStep, StartSaveStep, StartLoadStep, ListRunsStep, InitializeDatabaseStep,
           FailStep, UpgradeStep DEF Next, Step
    <1>2. CASE UNCHANGED vars
        <2>1. UNCHANGED <<db, said, runtime>>
            BY <1>2 DEF vars
        <2>2. DInv'
            <3>1. (\A c \in Calls : CallOK(c)')
                BY <1>2 DEF vars, DInv, CallOK
            <3>2. WriterOK'
                <4>1. WriterOK /\ UNCHANGED <<db, call, writer, pending>>
                    BY <1>2 DEF vars, DInv
                <4> QED
                    BY <4>1, WriterKept
            <3>3. WholeOK'
                BY <1>2 DEF vars, DInv, WholeOK
            <3> QED
                BY <1>2, <3>1, <3>2, <3>3 DEF vars, DInv
        <2> QED
            BY <2>1, <2>2, SilenceIsMapped
    <1> QED
        BY <1>1, <1>2

THEOREM InvariantHolds == Spec => []DInv
    BY InitDInv, NextDInv, PTL DEF Spec

\* No refused, failed or dead save keeps the write lock or its rows.
THEOREM NoLockIsStranded == Spec => []NoStrandedLock
    <1>1. DInv => NoStrandedLock
        <2> SUFFICES ASSUME DInv PROVE NoStrandedLock
            OBVIOUS
        <2>1. CASE writer = None
            BY <2>1, Distinguished DEF DInv, WriterOK, NoStrandedLock
        <2>2. CASE writer # None
            <3>1. PICK c \in Calls, a \in Artifacts, run \in RunIds, n \in Nat :
                    /\ writer = c /\ pending = RowsUpTo(a, run, n)
                    /\ call[c] = [op |-> "save", kind |-> a.kind, run |-> run, artifact |-> a,
                                  next |-> n + 1]
                BY <2>2 DEF DInv, WriterOK
            <3>2. \A row \in pending : row.artifact = a /\ row.run = run
                BY <3>1 DEF RowsUpTo
            <3> QED
                BY <2>2, <3>1, <3>2 DEF NoStrandedLock
        <2> QED
            BY <2>1, <2>2
    <1> QED
        BY <1>1, InvariantHolds, PTL

\* The refinement: every run of the repository is one of its promise.
THEOREM RepositoryKeepsPromise == Spec => KeepsPromise
    <1>1. DInv /\ [Next]_vars => [Kept!PromiseNext]_Kept!pvars
        BY NextDInv DEF Mapped
    <1>2. Init => Kept!PromiseInit
        BY InitDInv
    <1> QED
        BY <1>1, <1>2, InvariantHolds, PTL DEF Spec, KeepsPromise, Kept!Promise
==============================================================================
