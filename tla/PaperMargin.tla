----------------------------- MODULE PaperMargin -----------------------------
(***************************************************************************)
(* bot/broker.py: PaperMarginBroker, the simulated margin account, with    *)
(* long and short positions, leverage, liquidation, interest every four    *)
(* hours and a maximum age.                                                *)
(*                                                                         *)
(* Money is an integer in 1/Scale of the quote currency and quantities are *)
(* whole units, as in PaperBroker.  One symbol is modelled and trades at    *)
(* its cached price.  The engine's tick calls tick_maintenance, then       *)
(* set_price and check_price_extremes; callers come between them in any    *)
(* order here.  Left out: the price band of the margin rules (slippage     *)
(* stays far inside it), starting_capital (see PaperBroker) and the        *)
(* counters of liquidations and of interest, which are only displayed.     *)
(***************************************************************************)
EXTENDS Integers, Sums

CONSTANTS
    NPos,           \* positions 1..NPos: a bound on the positions ever opened
    Prices,         \* market prices
    Qtys,           \* quantities a caller asks to trade
    RiskCoefs,      \* leverages a caller asks for
    MaxRiskCoef,    \* the exchange's leverage cap
    OpenSlips,      \* what slippage may cost per unit when opening (randomised)
    CloseSlip,      \* what it costs per unit when closing (fixed)
    Scale,          \* money units per unit of quote currency
    FeeRate,        \* taker fee, in money units per unit of quote currency
    MaintRate,      \* maintenance margin rate, in money units per unit
    InterestDiv,    \* four hours of interest are 1/InterestDiv of the loan
    Period,         \* clock ticks in four hours
    MaxAge,         \* clock ticks a position may stay open
    MaxTime,        \* bound on the clock
    MinCollateral, MaxCollateral,   \* what the exchange accepts, in money units
    Capital,        \* starting capital, in money units
    Amounts,        \* amounts deposited, withdrawn or reserved at once
    MaxFunding      \* bound on the deposits of a behaviour

\* The leverages in use, after the cap.
Leverages == {IF rc > MaxRiskCoef THEN MaxRiskCoef ELSE rc : rc \in RiskCoefs}

ASSUME SizeAssumption == NPos \in Nat
ASSUME PriceAssumption ==
    /\ Prices \subseteq Nat \ {0}
    /\ OpenSlips \subseteq Nat
    /\ CloseSlip \in Nat
    /\ \A p \in Prices : CloseSlip < p /\ \A s \in OpenSlips : s < p
ASSUME RateAssumption ==
    /\ Scale \in Nat \ {0}
    /\ FeeRate \in Nat /\ FeeRate <= Scale
    /\ MaintRate \in Nat /\ MaintRate <= Scale
    /\ InterestDiv \in Nat \ {0}
    /\ RiskCoefs \subseteq Nat \ {0} /\ MaxRiskCoef \in Nat \ {0}
ASSUME ExactAssumption ==
    \A rc \in Leverages : /\ Scale % rc = 0
                          /\ (Scale - Scale \div rc) % InterestDiv = 0
ASSUME TimeAssumption == Period \in Nat \ {0} /\ MaxAge \in Nat \ {0} /\ MaxTime \in Nat
ASSUME AmountAssumption ==
    /\ Qtys \subseteq Nat \ {0}
    /\ MinCollateral \in Nat /\ MaxCollateral \in Nat
    /\ Capital \in Nat
    /\ Amounts \subseteq Nat \ {0}
    /\ MaxFunding \in Nat

VARIABLES
    cash,          \* self.cash: the free collateral
    reserved,      \* self._reserved, of one key
    positions,     \* self.positions
    price,         \* self._prices[symbol]
    now,           \* the clock
    funding        \* history: money put in, a bound's measure

vars == <<cash, reserved, positions, price, now, funding>>

PosIds == 1..NPos

Position == [state : {"none", "open", "closed"}, side : {"long", "short"}, qty : Nat,
             entry : Nat, lev : Nat, collateral : Nat, loan : Nat, liq : Int,
             interest : Nat, opened : Nat, last : Nat, pnl : Int]
NoPosition == [state |-> "none", side |-> "long", qty |-> 0, entry |-> 0, lev |-> 1,
               collateral |-> 0, loan |-> 0, liq |-> 0, interest |-> 0,
               opened |-> 0, last |-> 0, pnl |-> 0]

IsOpen(i) == positions[i].state = "open"
Fresh(i) == positions[i].state = "none" /\ \A j \in 1..(i - 1) : positions[j].state # "none"
AtLeastZero(x) == IF x > 0 THEN x ELSE 0

-----------------------------------------------------------------------------
(* Balances *)

Available == AtLeastZero(cash - reserved)

\* _upnl of a position at a price, in money units.
Upnl(p, px) == p.qty * (IF p.side = "short" THEN p.entry - px ELSE px - p.entry) * Scale

\* What an open position adds to the equity: never less than nothing.
Margin == [i \in PosIds |->
    IF IsOpen(i)
    THEN AtLeastZero(positions[i].collateral + Upnl(positions[i], price) - positions[i].interest)
    ELSE 0]

Equity == cash + SumTo(Margin, NPos)

-----------------------------------------------------------------------------
(* Opening *)

Leverage(rc) == IF rc > MaxRiskCoef THEN MaxRiskCoef ELSE rc

OpenFill(side, at, slip) == IF side = "long" THEN at + slip ELSE at - slip

Collateral(q, fill, lev) == q * fill * (Scale \div lev)
Fee(q, fill) == q * fill * FeeRate

\* The most the free balance carries, less the 0.1% safety margin; the fee
\* of the order asked for is set aside first.
Affordable(q, fill, lev) ==
    ((Available - Fee(q, fill)) * lev * 999) \div (1000 * fill * (Scale + FeeRate))

\* Seeded fault: the fee of the order asked for is not set aside.
OrderQtyFeeless(q, fill, lev) ==
    IF Collateral(q, fill, lev) > Available
    THEN (Available * lev) \div (fill * Scale)
    ELSE q

OrderQty(q, fill, lev) ==
    IF Collateral(q, fill, lev) + Fee(q, fill) > Available
    THEN Affordable(q, fill, lev)
    ELSE q

\* check_margin_order
Accepted(q, fill, lev) ==
    /\ q > 0
    /\ Collateral(q, fill, lev) > 0
    /\ Collateral(q, fill, lev) \in MinCollateral..MaxCollateral

\* Seeded fault: the leverage is left out.
LiquidationPriceUnlevered(side, fill, lev) ==
    IF side = "long"
    THEN (fill * MaintRate) \div Scale
    ELSE -((-(fill * (Scale + (Scale - MaintRate)))) \div Scale)

\* The last whole price at which the position is liquidated: the highest one
\* for a long, the lowest one for a short.
LiquidationPrice(side, fill, lev) ==
    IF side = "long"
    THEN (fill * (lev * Scale - (Scale - MaintRate))) \div (lev * Scale)
    ELSE -((-(fill * (lev * Scale + (Scale - MaintRate)))) \div (lev * Scale))

\* _open: `asked` is what the caller asks for.
Open(i, side, asked, rc, slip) ==
    LET fill == OpenFill(side, price, slip)
        lev  == Leverage(rc)
        q    == OrderQty(asked, fill, lev)
    IN  /\ Fresh(i)
        /\ Accepted(q, fill, lev)
        /\ cash' = cash - (Collateral(q, fill, lev) + Fee(q, fill))
        /\ positions' = [positions EXCEPT ![i] =
               [state |-> "open", side |-> side, qty |-> q, entry |-> fill, lev |-> lev,
                collateral |-> Collateral(q, fill, lev),
                loan |-> q * fill * (Scale - Scale \div lev),
                liq |-> LiquidationPrice(side, fill, lev),
                interest |-> 0, opened |-> now, last |-> now, pnl |-> 0]]
        /\ UNCHANGED <<reserved, price, now, funding>>

-----------------------------------------------------------------------------
(* Closing *)

CloseFill(p, at) == IF p.side = "long" THEN at - CloseSlip ELSE at + CloseSlip

\* The part of x that goes with q of the position's units.
Share(x, q, p) == (x * q) \div p.qty

\* Result of closing q units at market price `at`: profit or loss, less
\* interest and fee.
CloseResult(p, q, at) ==
    Upnl([p EXCEPT !.qty = q], CloseFill(p, at)) - Share(p.interest, q, p) - Fee(q, CloseFill(p, at))

\* What goes back to the cash.
Returned(p, q, at) == AtLeastZero(Share(p.collateral, q, p) + CloseResult(p, q, at))

\* Seeded fault: a partial close leaves the whole loan on the position.
AfterCloseLoanKept(p, q, at) ==
    IF q = p.qty
    THEN [p EXCEPT !.state = "closed", !.qty = 0, !.collateral = 0, !.loan = 0,
                   !.interest = 0, !.pnl = @ + CloseResult(p, q, at)]
    ELSE [p EXCEPT !.qty = @ - q, !.collateral = @ - Share(@, q, p),
                   !.interest = @ - Share(@, q, p), !.pnl = @ + CloseResult(p, q, at)]

AfterClose(p, q, at) ==
    IF q = p.qty
    THEN [p EXCEPT !.state = "closed", !.qty = 0, !.collateral = 0, !.loan = 0,
                   !.interest = 0, !.pnl = @ + CloseResult(p, q, at)]
    ELSE [p EXCEPT !.qty = @ - q, !.collateral = @ - Share(@, q, p),
                   !.loan = @ - Share(@, q, p), !.interest = @ - Share(@, q, p),
                   !.pnl = @ + CloseResult(p, q, at)]

\* _close, by strategy, user or grid: all or part of a position.
Close(i, q) ==
    LET p == positions[i]
    IN  /\ IsOpen(i) /\ q \in 1..p.qty
        /\ cash' = cash + Returned(p, q, price)
        /\ positions' = [positions EXCEPT ![i] = AfterClose(p, q, price)]
        /\ UNCHANGED <<reserved, price, now, funding>>

-----------------------------------------------------------------------------
(* Maintenance: _maintain_one, for every open position in one call *)

Periods(p) == (now - p.last) \div Period

\* Seeded fault: the time between two periods is forgotten.
AccruedFromNow(p) ==
    IF Periods(p) > 0 /\ p.loan > 0
    THEN [p EXCEPT !.interest = @ + (p.loan * Periods(p)) \div InterestDiv, !.last = now]
    ELSE p

Accrued(p) ==
    IF Periods(p) > 0 /\ p.loan > 0
    THEN [p EXCEPT !.interest = @ + (p.loan * Periods(p)) \div InterestDiv,
                   !.last = @ + Periods(p) * Period]
    ELSE p

\* Longs die on the low, shorts on the high.
Liquidated(p, lo, hi) ==
    /\ p.liq > 0
    /\ IF p.side = "long" THEN lo <= p.liq ELSE hi >= p.liq

Expired(p) == now - p.opened >= MaxAge

\* liquidate(): the result replaces what partial closes have booked before.
AfterLiquidation(p) ==
    [p EXCEPT !.state = "closed", !.qty = 0, !.pnl = -(p.collateral + p.interest)]

Maintained(p, lo, hi) ==
    LET a == Accrued(p)
    IN  CASE Liquidated(a, lo, hi) -> AfterLiquidation(a)
          [] ~Liquidated(a, lo, hi) /\ Expired(a) -> AfterClose(a, a.qty, price)
          [] OTHER -> a

ReturnedBy(p, lo, hi) ==
    LET a == Accrued(p)
    IN  IF ~Liquidated(a, lo, hi) /\ Expired(a) THEN Returned(a, a.qty, price) ELSE 0

Lower(x, y)  == IF x < y THEN x ELSE y
Higher(x, y) == IF x > y THEN x ELSE y

MaintainAll(lo, hi) ==
    /\ positions' = [i \in PosIds |->
           IF IsOpen(i) THEN Maintained(positions[i], lo, hi) ELSE positions[i]]
    /\ cash' = cash + SumTo([i \in PosIds |->
           IF IsOpen(i) THEN ReturnedBy(positions[i], lo, hi) ELSE 0], NPos)
    /\ UNCHANGED <<reserved, price, now, funding>>

TickMaintenance == MaintainAll(price, price)

\* Low and high of the candle that closed last, the cached price included.
CheckExtremes(low, high) ==
    /\ low <= high
    /\ MaintainAll(Lower(low, price), Higher(high, price))

-----------------------------------------------------------------------------
(* Prices, time, funding, reservations *)

SetPrice(p) ==
    /\ price' = p
    /\ UNCHANGED <<cash, reserved, positions, now, funding>>

TimePasses ==
    /\ now < MaxTime
    /\ now' = now + 1
    /\ UNCHANGED <<cash, reserved, positions, price, funding>>

Deposit(amount) ==
    /\ funding + amount <= MaxFunding
    /\ cash' = cash + amount
    /\ funding' = funding + amount
    /\ UNCHANGED <<reserved, positions, price, now>>

\* Free collateral only: what positions hold is not in the cash.
Withdraw(amount) ==
    /\ amount <= cash
    /\ cash' = cash - amount
    /\ UNCHANGED <<reserved, positions, price, now, funding>>

Reserve(amount) ==
    /\ amount <= cash - reserved
    /\ reserved' = reserved + amount
    /\ UNCHANGED <<cash, positions, price, now, funding>>

Release ==
    /\ reserved' = 0
    /\ UNCHANGED <<cash, positions, price, now, funding>>

Init ==
    /\ cash = Capital
    /\ reserved = 0
    /\ positions = [i \in PosIds |-> NoPosition]
    /\ price \in Prices
    /\ now = 0
    /\ funding = Capital

OpenAny ==
    \E i \in PosIds, side \in {"long", "short"}, q \in Qtys, rc \in RiskCoefs, slip \in OpenSlips :
        Open(i, side, q, rc, slip)
CloseAny == \E i \in PosIds : \E q \in 1..positions[i].qty : Close(i, q)
MoveFunds == \E a \in Amounts : Deposit(a) \/ Withdraw(a)
MoveReservations == Release \/ \E a \in Amounts : Reserve(a)
CandleCloses == \E low, high \in Prices : CheckExtremes(low, high)
PriceMoves == \E p \in Prices : SetPrice(p)

Next ==
    \/ OpenAny \/ CloseAny \/ TickMaintenance \/ CandleCloses
    \/ PriceMoves \/ TimePasses \/ MoveFunds \/ MoveReservations

Spec == Init /\ [][Next]_vars

-----------------------------------------------------------------------------
(* Properties *)

\* Types; interest starts with the position and is never charged ahead.
MarginTypeOK ==
    /\ cash \in Int
    /\ reserved \in Nat
    /\ positions \in [PosIds -> Position]
    /\ price \in Prices
    /\ now \in Nat
    /\ funding \in Nat
    /\ \A i \in PosIds : positions[i].opened <= positions[i].last /\ positions[i].last <= now

\* The margin account is never overdrawn: an order that the free balance does
\* not carry is shrunk until collateral and fee fit (_open shrinks once and
\* does not look again), and no loss reaches beyond the collateral.
MarginSolvent == cash >= 0

\* However often a position is closed in part, its collateral and its loan
\* remain those of the units that are left at the position's leverage.
SharesStayExact ==
    \A i \in PosIds : IsOpen(i) =>
        LET p == positions[i]
        IN  /\ p.collateral * p.lev = p.qty * p.entry * Scale
            /\ p.collateral + p.loan = p.qty * p.entry * Scale

\* Interest is charged once for every four hours since the position was
\* opened, although two calls of each tick charge it, ticks come at any time
\* and partial closes pay some of it off.
InterestOncePerPeriod ==
    \A i \in PosIds : IsOpen(i) =>
        LET p == positions[i]
        IN  /\ (p.last - p.opened) % Period = 0
            /\ p.interest * InterestDiv = p.loan * ((p.last - p.opened) \div Period)

\* What is still open once a candle's low and high have been looked at has
\* not lost its collateral at the worse of the two: liquidation comes first.
WicksLiquidateFirst ==
    [][\A low, high \in Prices : CheckExtremes(low, high) =>
         \A i \in PosIds : IsOpen(i)' =>
             LET p == positions'[i]
             IN  p.collateral + Upnl(p, IF p.side = "long" THEN low ELSE high) > 0]_vars

=============================================================================
