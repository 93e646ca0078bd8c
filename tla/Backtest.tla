------------------------------- MODULE Backtest -------------------------------
(***************************************************************************)
(* The long-or-cash backtest (backtesting/engine.py, costs.py, metrics.py, *)
(* models.py, with risk/rules.py): one pass over the strategy's signals,   *)
(* each with an order sized from the cash, judged by the risk rules and    *)
(* filled at the next open, then the metrics, and then the audit that the  *)
(* result makes of its own records.                                        *)
(*                                                                         *)
(* The engine computes with exact decimals; the records it leaves are      *)
(* floats, and the audit replays the run from them.  Amounts are integers  *)
(* in units of 1/Scale^2 of the currency, in which every product of a      *)
(* price and two rates is exact; a float is the nearest multiple of Grain. *)
(*                                                                         *)
(* Covered: sizing, costs, the risk rules, fills, the checks on amounts    *)
(* that can abort the run, the metrics that are sums, the replay.          *)
(* Abstracted: sessions (a row is the next one), lineage and checksums,    *)
(* ratios (returns, drawdown, turnover), decimals of more than 28 digits.  *)
(***************************************************************************)
EXTENDS Integers, Sequences, FiniteSets, FiniteSetsExt

CONSTANTS
  Opens, Closes,  \* prices of a session, in currency units
  Costs,          \* cost assumptions, [slippage, commission] in parts of Scale
  Scale,          \* what a rate is a part of (10000 basis points)
  InitialCash,    \* in currency units
  MaxSessions,    \* bound: rows of the signal set
  Grain,          \* spacing of floats
  Tolerance       \* of the audit's comparisons

ASSUME BacktestAssumption ==
  /\ Opens \subseteq Nat \ {0} /\ Closes \subseteq Nat \ {0}
  /\ Scale \in Nat \ {0} /\ InitialCash \in Nat \ {0} /\ MaxSessions \in Nat
  /\ Costs \subseteq [slippage : Nat, commission : Nat]
  /\ Grain \in Nat \ {0} /\ Tolerance \in Nat
  /\ Scale * Scale % Grain = 0   \* prices are floats

VARIABLES
  phase,    \* trading, audit; accepted, failed (an exception), refuted (by the audit)
  costs,    \* the run's cost assumptions
  cash, shares,
  rows,     \* what was recorded of each session
  metrics,
  at,       \* the row the audit is about to replay
  replayed  \* cash and shares as the audit has them

backtestVars == <<phase, costs, cash, shares, rows, metrics, at, replayed>>

Unit == Scale * Scale
Value(price) == price * Unit
Abs(x) == IF x < 0 THEN -x ELSE x
Flag(condition, code) == IF condition THEN {code} ELSE {}

-----------------------------------------------------------------------------
(* Costs. *)

ExecutionPrice(side, open) ==
  open * Scale * (IF side = "buy" THEN Scale + costs.slippage ELSE Scale - costs.slippage)

Commission(side, quantity, open) ==
  quantity * (ExecutionPrice(side, open) \div Scale) * costs.commission

CashChange(side, quantity, open) ==
  LET notional == quantity * ExecutionPrice(side, open)
      commission == Commission(side, quantity, open)
  IN  IF side = "buy" THEN -(notional + commission) ELSE notional - commission

TransactionCost(side, quantity, open) ==
  Commission(side, quantity, open) + quantity * Abs(ExecutionPrice(side, open) - Value(open))

ShareCost(open) == open * (Scale + costs.slippage) * (Scale + costs.commission)

\* Variant: the commission is forgotten.
Affordable_NoCommission(money, open) == money \div (open * Scale * (Scale + costs.slippage))

Affordable(money, open) == money \div ShareCost(open)

-----------------------------------------------------------------------------
(* Orders, risk decisions and fills. *)

NoOrder == [side |-> "none"]

Order(side, quantity, target, open, money, held) ==
  [side |-> side, quantity |-> quantity, target |-> target, open |-> open,
   change |-> CashChange(side, quantity, open), cash |-> money, shares |-> held]

\* An unaffordable entry is proposed all the same, for the rules to reject.
ProposeOrder(target, open, money, held) ==
  IF target = 1 /\ held = 0
    THEN Order("buy", Max({1, Affordable(money, open)}), target, open, money, held)
    ELSE IF target = 0 /\ held > 0 THEN Order("sell", held, target, open, money, held)
                                   ELSE NoOrder

\* The order cannot be built: an exception ends the run.
Unbuildable(order) ==
  \/ ExecutionPrice(order.side, order.open) <= 0
  \/ order.side = "sell" /\ order.change <= 0

Filled(order) ==
  [cash |-> order.cash + order.change,
   shares |-> IF order.side = "buy" THEN order.shares + order.quantity
                                    ELSE order.shares - order.quantity]

\* The order does not fit the portfolio it is judged against.
Misfits(order, money, held) ==
  Flag(order.cash # money \/ order.shares # held, "invalid_portfolio_state")
  \cup Flag(order.change # CashChange(order.side, order.quantity, order.open),
            "order_cost_estimate_mismatch")

BuyReasons(order, money, held) ==
  LET left == money + order.change
      held2 == Value(order.open) * (held + order.quantity)
  IN  Flag(order.target # 1, "invalid_target_transition")
      \cup Flag(held > 0, "pyramiding_forbidden")
      \cup Flag(-order.change > money, "insufficient_cash")
      \cup Flag(left < 0 \/ left + held2 <= 0, "leverage_forbidden")
      \cup Flag(left + held2 > 0 /\ held2 > left + held2, "maximum_position_exceeded")

SellReasons(order, held) ==
  Flag(order.target # 0, "invalid_target_transition")
  \cup Flag(order.quantity # held, "full_exit_required")
  \cup Flag(ExecutionPrice("sell", order.open) <= 0, "invalid_price")
  \cup Flag(order.quantity > held, "sell_quantity_exceeds_position")
  \cup Flag(order.quantity > held, "short_selling_forbidden")

\* Variant: cash is not looked at.
Reasons_NoCash(order, money, held) ==
  IF Misfits(order, money, held) # {} THEN Misfits(order, money, held)
  ELSE IF order.side = "buy" THEN Flag(order.target # 1, "invalid_target_transition")
                                  \cup Flag(held > 0, "pyramiding_forbidden")
                             ELSE SellReasons(order, held)

\* Why the risk rules reject the order; none means approved.
Reasons(order, money, held) ==
  IF Misfits(order, money, held) # {} THEN Misfits(order, money, held)
  ELSE IF order.side = "buy" THEN BuyReasons(order, money, held)
                             ELSE SellReasons(order, held)

Approved(row) == row.order.side # "none" /\ row.reasons = {}

-----------------------------------------------------------------------------
(* The run. *)

BacktestInit ==
  /\ phase = "trading"
  /\ costs \in Costs
  /\ cash = Value(InitialCash) /\ shares = 0
  /\ rows = <<>>
  /\ metrics = [sessions |-> 0]
  /\ at = 1 /\ replayed = [cash |-> Value(InitialCash), shares |-> 0]

Abort == phase' = "failed" /\ UNCHANGED <<costs, cash, shares, rows, metrics, at, replayed>>

\* The portfolio after a session in which this order was judged so.
After(order, reasons) ==
  IF order.side # "none" /\ reasons = {} THEN Filled(order)
                                         ELSE [cash |-> cash, shares |-> shares]

\* One row of the signal set: propose, judge, fill, mark to the close.
Trade(target, open, close) ==
  LET order == ProposeOrder(target, open, cash, shares)
      reasons == IF order = NoOrder THEN {} ELSE Reasons(order, cash, shares)
      after == After(order, reasons)
  IN  /\ phase = "trading" /\ Len(rows) < MaxSessions
      /\ IF order # NoOrder /\ (Unbuildable(order) \/ after.cash < 0)
           THEN Abort
           ELSE /\ cash' = after.cash /\ shares' = after.shares
                /\ rows' = Append(rows, [target |-> target, open |-> open, close |-> close,
                                         order |-> order, reasons |-> reasons,
                                         cash |-> after.cash, shares |-> after.shares])
                /\ UNCHANGED <<phase, costs, metrics, at, replayed>>

-----------------------------------------------------------------------------
(* Floats. *)

\* A decimal as the records hold it.
Recorded(x) == ((x + Grain \div 2) \div Grain) * Grain

Near(x, y) == Abs(x - y) <= Tolerance

Agree(amounts, others) == \A a \in DOMAIN amounts : Near(amounts[a], others[a])

Equity(row) == row.cash + row.shares * Value(row.close)
OpenValue(row) == row.shares * Value(row.open)

\* What the order and its fill amount to, exactly and as recorded.
Amounts(order) ==
  LET price == ExecutionPrice(order.side, order.open)
  IN  [price |-> price,
       notional |-> order.quantity * price,
       commission |-> Commission(order.side, order.quantity, order.open),
       slippage |-> order.quantity * Abs(price - Value(order.open)),
       total |-> TransactionCost(order.side, order.quantity, order.open),
       change |-> order.change,
       cash |-> order.cash + order.change]

Written(order) == [a \in DOMAIN Amounts(order) |-> Recorded(Amounts(order)[a])]

-----------------------------------------------------------------------------
(* The metrics, computed from the records. *)

\* Variant: the slippage is forgotten.
RowCost_NoSlippage(row) == Written(row.order).commission

RowCost(row) == Written(row.order).total

\* The identities checked on each record, with the numbers as recorded.
RecordStands(row) ==
  /\ Near(Recorded(Equity(row)), Recorded(row.cash) + row.shares * Value(row.close))
  /\ row.order.side # "none" =>
       Near(Recorded(row.cash + OpenValue(row)), Recorded(row.cash) + Recorded(OpenValue(row)))
  /\ Approved(row) =>
       LET o == row.order
           fill == Written(o)
       IN  /\ Near(fill.notional, o.quantity * fill.price)
           /\ Near(fill.slippage, o.quantity * Abs(fill.price - Value(o.open)))
           /\ Near(fill.total, fill.commission + fill.slippage)
           /\ Near(fill.change,
                   (IF o.side = "buy" THEN -fill.notional ELSE fill.notional) - fill.commission)
           /\ Near(fill.cash, Recorded(o.cash) + fill.change)

\* Returns are taken of every equity but the last, and the mean has to be positive.
Worthless(i) == Recorded(Equity(rows[i])) <= 0 /\ (i < Len(rows) \/ i = 1)

ProposedRows == {i \in DOMAIN rows : rows[i].order.side # "none"}
ApprovedRows == {i \in DOMAIN rows : Approved(rows[i])}

\* The sum of a sequence of amounts.
Total(amounts) ==
  LET sum[n \in 0..Len(amounts)] == IF n = 0 THEN 0 ELSE sum[n - 1] + amounts[n]
  IN  sum[Len(amounts)]

Metrics ==
  [sessions |-> Len(rows),
   finalEquity |-> Recorded(Equity(rows[Len(rows)])),
   totalCost |-> Total([i \in DOMAIN rows |->
                           IF Approved(rows[i]) THEN RowCost(rows[i]) ELSE 0]),
   proposed |-> Cardinality(ProposedRows),
   approved |-> Cardinality(ApprovedRows),
   exposed |-> Cardinality({i \in DOMAIN rows : rows[i].shares > 0})]

Measure ==
  /\ phase = "trading" /\ rows # <<>>
  /\ IF \E i \in DOMAIN rows : Worthless(i) \/ ~RecordStands(rows[i])
       THEN Abort
       ELSE /\ metrics' = Metrics
            /\ phase' = "audit"
            /\ UNCHANGED <<costs, cash, shares, rows, at, replayed>>

-----------------------------------------------------------------------------
(* The audit of the result, from the records alone. *)

\* A fill as reconstructed: what can be derived from its price and commission
\* is derived, and has to agree with what was recorded.
ReadBack(order) ==
  LET fill == Written(order)
      notional == order.quantity * fill.price
      slippage == order.quantity * Abs(fill.price - Value(order.open))
      change == IF order.side = "buy" THEN -(notional + fill.commission)
                                      ELSE notional - fill.commission
  IN  [price |-> fill.price, notional |-> notional, commission |-> fill.commission,
       slippage |-> slippage, total |-> fill.commission + slippage,
       change |-> change, cash |-> Recorded(order.cash) + change]

Readable(row) ==
  /\ ReadBack(row.order).cash >= 0
  /\ Agree(Written(row.order), ReadBack(row.order))

\* Variant: the replay does not know that an unaffordable entry is proposed.
Expected_NoFallback(row) ==
  IF row.target = 1 /\ replayed.shares = 0 /\ Affordable(replayed.cash, row.open) = 0
    THEN NoOrder
    ELSE ProposeOrder(row.target, row.open, replayed.cash, replayed.shares)

\* The order the sizing policy asks for in the portfolio as replayed.
Expected(row) == ProposeOrder(row.target, row.open, replayed.cash, replayed.shares)

\* The order, its estimates and the decision on it are those of the replay.
OrderStands(row) ==
  LET order == Expected(row)
      after == IF row.reasons = {} THEN Filled(order) ELSE replayed
      value == after.shares * Value(row.open)
  IN  /\ order.side = row.order.side
      /\ order.side # "none" =>
           /\ order.quantity = row.order.quantity
           /\ row.order.shares = replayed.shares
           /\ Near(Recorded(row.order.cash), replayed.cash)
           /\ \A a \in {"price", "commission", "change"} :
                 Near(Written(row.order)[a], Amounts(order)[a])
           /\ Reasons(order, replayed.cash, replayed.shares) = row.reasons
           /\ row.shares = after.shares
           /\ Near(Recorded(row.cash), after.cash)
           /\ Near(Recorded(OpenValue(row)), value)
           /\ Near(Recorded(row.cash) + Recorded(OpenValue(row)), after.cash + value)

\* The fill is the one the replayed order would have had.
FillStands(row) ==
  Readable(row) /\ Agree(ReadBack(row.order), Amounts(Expected(row)))

Replay(row) ==
  IF Approved(row) THEN [cash |-> ReadBack(row.order).cash, shares |-> row.shares]
                   ELSE replayed

PortfolioStands(row) ==
  /\ Near(Recorded(row.cash), Replay(row).cash)
  /\ row.shares = Replay(row).shares
  /\ Near(Recorded(Equity(row)), Replay(row).cash + row.shares * Value(row.close))

AuditRow ==
  LET row == rows[at] IN
  /\ phase = "audit" /\ at <= Len(rows)
  /\ IF OrderStands(row) /\ (Approved(row) => FillStands(row)) /\ PortfolioStands(row)
       THEN /\ replayed' = Replay(row) /\ at' = at + 1
            /\ UNCHANGED phase
       ELSE phase' = "refuted" /\ UNCHANGED <<replayed, at>>
  /\ UNCHANGED <<costs, cash, shares, rows, metrics>>

Accept ==
  /\ phase = "audit" /\ at > Len(rows)
  /\ phase' = "accepted"
  /\ UNCHANGED <<costs, cash, shares, rows, metrics, at, replayed>>

BacktestNext ==
  \/ \E target \in {0, 1}, open \in Opens, close \in Closes : Trade(target, open, close)
  \/ Measure
  \/ AuditRow
  \/ Accept

BacktestSpec == BacktestInit /\ [][BacktestNext]_backtestVars

-----------------------------------------------------------------------------
(***************************************************************************)
(* Properties.                                                             *)
(***************************************************************************)

\* The variables hold values of the expected kind: neither cash nor shares are
\* ever negative, in the run or in its replay.
BacktestTypeOK ==
  /\ phase \in {"trading", "audit", "accepted", "failed", "refuted"}
  /\ costs \in Costs
  /\ cash \in Nat /\ shares \in Nat
  /\ Len(rows) <= MaxSessions /\ at \in 1..(Len(rows) + 1)
  /\ replayed \in [cash : Nat, shares : Nat]

\* The strategy gets what it asked for: the rules, which compute the costs on
\* their own, never reject an entry that the sizing found affordable, an exit
\* is never rejected, and only an entry too dear for one share is.
TargetIsReached ==
  \A i \in DOMAIN rows : LET row == rows[i] IN
    /\ row.target = 0 => row.shares = 0
    /\ row.target = 1 => row.shares > 0 \/ row.cash < ShareCost(row.open)

\* The checks on orders, fills and metrics abort no run, unless the assumed
\* costs take all the proceeds of a sale.
ChecksNeverTrip ==
  phase = "failed" => costs.slippage >= Scale \/ costs.commission >= Scale

\* What the recorded positions earned at the recorded prices.
Gain(i) ==
  LET row == rows[i]
      held == IF i = 1 THEN 0 ELSE rows[i - 1].shares
      mark == IF i = 1 THEN row.open ELSE rows[i - 1].close
  IN  held * (row.open - mark) + row.shares * (row.close - row.open)

\* The metrics explain each other: the reported final equity is the initial
\* cash and what the positions earned less the reported costs, up to one
\* rounding per number; and every approved order, and no other, was filled.
MetricsAddUp ==
  phase = "audit" =>
    LET earned == Total([i \in DOMAIN rows |-> Gain(i)])
        explained == Value(InitialCash + earned) - metrics.totalCost
    IN  /\ 2 * Abs(metrics.finalEquity - explained) <= Grain * (metrics.approved + 1)
        /\ metrics.approved <= metrics.proposed
        /\ metrics.exposed = Cardinality({i \in DOMAIN rows : rows[i].target = 1 /\ rows[i].shares > 0})

\* Cash is on the edge if it is, up to rounding, a whole number of shares, or what
\* trading one share is charged: there the equity after an entry changes sign.
Edge == Grain * (2 + Max({0} \cup {rows[i].shares : i \in DOMAIN rows}))
OnEdge(row) ==
  row.order.side = "buy" /\
    LET price == ShareCost(row.open)
        left == row.order.cash % price
        charge == price - Value(row.open)
    IN  left < Edge \/ price - left <= Edge \/ Abs(row.order.cash - charge) <= Edge

\* A run none of whose entries was on the edge passes its own audit, although
\* the audit computes with rounded numbers.
ClearRunsPassAudit ==
  phase = "refuted" => \E i \in DOMAIN rows : OnEdge(rows[i])

\* What the two properties above rest on for any constants: the tolerance covers
\* the rounding of the largest position twice, in its fill and in the cash before
\* it, and a share sold brings more than that.
WithinTolerance ==
  /\ Edge <= Tolerance
  /\ costs.slippage < Scale /\ costs.commission < Scale =>
       3 * Grain <= 2 * (Scale - costs.slippage) * (Scale - costs.commission)
=============================================================================
