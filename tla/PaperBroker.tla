----------------------------- MODULE PaperBroker -----------------------------
(***************************************************************************)
(* bot/broker.py: BaseBroker (reservations) and PaperBroker (the simulated *)
(* spot account).                                                          *)
(*                                                                         *)
(* Money is an integer in 1/Scale of the quote currency, so that a trade   *)
(* of q units at price p moves q*p*Scale and its taker fee q*p*FeeRate     *)
(* exactly.  Quantities are whole units: a fractional quantity of the code *)
(* is rounded down where the code computes one.  One symbol is modelled:   *)
(* two symbols share nothing in this class but the cash.                   *)
(***************************************************************************)
EXTENDS Integers, Sums

CONSTANTS
    NPos,        \* positions 1..NPos: a bound on the positions ever opened
    NKeys,       \* 1..NKeys: the keys capital is reserved under (grid ids)
    Prices,      \* market prices
    Qtys,        \* quantities a caller asks to buy
    BuySlips,    \* what slippage may add to the price of a buy (randomised)
    SellSlip,    \* what slippage takes off the price of a sell (fixed)
    Scale,       \* money units per unit of quote currency
    FeeRate,     \* taker fee, in money units per unit of quote currency
    MinOrder,    \* smallest order value the exchange accepts
    Capital,     \* starting capital, in money units
    Amounts,     \* amounts deposited, withdrawn or reserved at once
    MaxFunding   \* bound on the deposits of a behaviour

ASSUME SizeAssumption == NPos \in Nat /\ NKeys \in Nat
ASSUME PriceAssumption ==
    /\ Prices \subseteq Nat \ {0}
    /\ BuySlips \subseteq Nat
    /\ SellSlip \in Nat
    /\ \A p \in Prices : SellSlip < p
ASSUME FeeAssumption ==
    /\ Scale \in Nat \ {0}
    /\ FeeRate \in Nat
    /\ FeeRate <= Scale
ASSUME AmountAssumption ==
    /\ Qtys \subseteq Nat \ {0}
    /\ MinOrder \in Nat
    /\ Capital \in Nat
    /\ Amounts \subseteq Nat \ {0}
    /\ MaxFunding \in Nat

VARIABLES
    cash,             \* self.cash
    startingCapital,  \* self.starting_capital
    reserved,         \* self._reserved: amount per key, 0 when absent
    positions,        \* self.positions
    price,            \* self._prices[symbol]
    funding,          \* history: money put in less money taken out
    entryFees         \* history: fees charged by open_long

brokerVars == <<cash, startingCapital, reserved, positions, price, funding, entryFees>>

PosIds == 1..NPos
Keys == 1..NKeys

Position == [state : {"none", "open", "closed"}, qty : Nat, entry : Nat,
             notional : Nat, pnl : Int]
NoPosition == [state |-> "none", qty |-> 0, entry |-> 0, notional |-> 0, pnl |-> 0]

IsOpen(i) == positions[i].state = "open"

\* Position ids are drawn once and never reused.
Fresh(i) == positions[i].state = "none" /\ \A j \in 1..(i - 1) : positions[j].state # "none"

-----------------------------------------------------------------------------
(* Balances *)

ReservedTotal == SumTo(reserved, NKeys)

Available == IF cash > ReservedTotal THEN cash - ReservedTotal ELSE 0

MarketValue == [i \in PosIds |-> positions[i].qty * price * Scale]
CostBasis   == [i \in PosIds |-> positions[i].qty * positions[i].entry * Scale]
RealizedPnl == [i \in PosIds |-> positions[i].pnl]

Equity == cash + SumTo(MarketValue, NPos)

\* Units of the symbol owned, whatever position holds them.
Holdings == [i \in PosIds |-> positions[i].qty]
Units    == SumTo(Holdings, NPos)

-----------------------------------------------------------------------------
(* Order pricing and sizing *)

\* Money one unit costs at fill price `fill`, fee included.
UnitCost(fill) == fill * (Scale + FeeRate)

\* The most that the free balance buys, less the 0.1% safety margin.
Affordable(fill) == (999 * Available) \div (1000 * UnitCost(fill))

MeetsMinOrder(qty, fill) == qty > 0 /\ qty * fill >= MinOrder

\* check_spot_order refused the order and shrinking it may not save it.
Refused(qty, fill) ==
    /\ ~MeetsMinOrder(qty, fill)
    /\ qty < Affordable(fill) \/ ~MeetsMinOrder(Affordable(fill), fill)

\* The quantity once the order rules have had their say.
RuledQty(qty, fill) == IF MeetsMinOrder(qty, fill) THEN qty ELSE Affordable(fill)

\* Seeded fault: an order that is too large is not shrunk.
OrderQtyUnshrunk(qty, fill) == RuledQty(qty, fill)

\* The quantity bought: shrunk to what the free balance pays for.
OrderQty(qty, fill) ==
    IF RuledQty(qty, fill) * UnitCost(fill) > Available
    THEN Affordable(fill)
    ELSE RuledQty(qty, fill)

Accepted(qty, fill) == ~Refused(qty, fill) /\ OrderQty(qty, fill) > 0

SellFill(at) == at - SellSlip

\* Seeded fault: close_long returns the gross result of the trade.
ClosePnlGross(i, q, at) == (SellFill(at) - positions[i].entry) * q * Scale

\* The result close_long reports: its own fee is in it, the entry fee is not.
ClosePnl(i, q, at) == (SellFill(at) - positions[i].entry) * q * Scale - SellFill(at) * q * FeeRate

CapitalAfterWithdraw(amount) ==
    IF startingCapital > amount THEN startingCapital - amount ELSE 0

-----------------------------------------------------------------------------
(* Operations *)

SetPrice(p) ==
    /\ price' = p
    /\ UNCHANGED <<cash, startingCapital, reserved, positions, funding, entryFees>>

\* A buy of `qty` at market price `at`, position id i, that the broker fills.
OpenLong(i, qty, at, slip) ==
    LET fill   == at + slip
        bought == OrderQty(qty, fill)
    IN  /\ Fresh(i)
        /\ Accepted(qty, fill)
        /\ cash' = cash - bought * UnitCost(fill)
        /\ positions' = [positions EXCEPT ![i] =
               [state |-> "open", qty |-> bought, entry |-> fill,
                notional |-> bought * fill, pnl |-> 0]]
        /\ entryFees' = entryFees + bought * fill * FeeRate
        /\ UNCHANGED <<startingCapital, reserved, price, funding>>

\* The same buy turned down: nothing changes but last_reject.
OpenLongRejected(qty, at, slip) == ~Accepted(qty, at + slip)

\* Sell q units of position i at market price `at`.  Every caller in the
\* repository asks for at most what the position holds.
CloseLong(i, q, at) ==
    LET fill == SellFill(at)
        left == positions[i].qty - q
    IN  /\ IsOpen(i)
        /\ q \in 0..positions[i].qty
        /\ q = 0 => positions[i].qty = 0      \* qty = qty or pos.qty
        /\ cash' = cash + q * fill * (Scale - FeeRate)
        /\ positions' = [positions EXCEPT
               ![i].qty = left,
               ![i].pnl = @ + ClosePnl(i, q, at),
               ![i].state = IF left = 0 THEN "closed" ELSE @]
        /\ UNCHANGED <<startingCapital, reserved, price, funding, entryFees>>

Deposit(amount) ==
    /\ funding + amount <= MaxFunding
    /\ cash' = cash + amount
    /\ startingCapital' = startingCapital + amount
    /\ funding' = funding + amount
    /\ UNCHANGED <<reserved, positions, price, entryFees>>

Withdraw(amount) ==
    /\ amount <= cash
    /\ cash' = cash - amount
    /\ startingCapital' = CapitalAfterWithdraw(amount)
    /\ funding' = funding - amount
    /\ UNCHANGED <<reserved, positions, price, entryFees>>

\* BaseBroker.reserve, when it returns True.
Reserve(k, amount) ==
    /\ amount <= cash - ReservedTotal
    /\ reserved' = [reserved EXCEPT ![k] = @ + amount]
    /\ UNCHANGED <<cash, startingCapital, positions, price, funding, entryFees>>

Release(k) ==
    /\ reserved' = [reserved EXCEPT ![k] = 0]
    /\ UNCHANGED <<cash, startingCapital, positions, price, funding, entryFees>>

-----------------------------------------------------------------------------
BrokerInit ==
    /\ cash = Capital
    /\ startingCapital = Capital
    /\ reserved = [k \in Keys |-> 0]
    /\ positions = [i \in PosIds |-> NoPosition]
    /\ price \in Prices
    /\ funding = Capital
    /\ entryFees = 0

\* A buy or a sell by one of the strategies; their own modules say which.
Buy == \E i \in PosIds, qty \in Qtys, at \in Prices, slip \in BuySlips : OpenLong(i, qty, at, slip)
Sell == \E i \in PosIds, at \in Prices : \E q \in 0..positions[i].qty : CloseLong(i, q, at)
MoveFunds == \E amount \in Amounts : Deposit(amount) \/ Withdraw(amount)
MoveReservations == \E k \in Keys : Release(k) \/ \E amount \in Amounts : Reserve(k, amount)
Tick == \E p \in Prices : SetPrice(p)

BrokerNext == Buy \/ Sell \/ MoveFunds \/ MoveReservations \/ Tick

BrokerSpec == BrokerInit /\ [][BrokerNext]_brokerVars

-----------------------------------------------------------------------------
(* Properties *)

\* The account's fields stay in their domains; quantities never go negative.
TypeOK ==
    /\ cash \in Int
    /\ startingCapital \in Nat
    /\ reserved \in [Keys -> Nat]
    /\ positions \in [PosIds -> Position]
    /\ price \in Prices
    /\ funding \in Int
    /\ entryFees \in Nat

\* No sequence of trades, deposits and withdrawals overdraws the account:
\* open_long shrinks an order by the fee as well as the price.
CashNonNegative == cash >= 0

\* The books balance: what was put in, plus every result close_long has
\* reported, is the cash plus the open positions at cost, plus the entry
\* fees, which no reported result ever contains.
BooksBalance ==
    funding + SumTo(RealizedPnl, NPos) = cash + SumTo(CostBasis, NPos) + entryFees

\* Reserved capital is spent by nobody: only a withdrawal may take the cash
\* from covering the reservations to not covering them.  open_long sizes an
\* order by available(), reserve() refuses what is not free.
ReservationsStayCovered ==
    [][ cash >= ReservedTotal /\ cash' < ReservedTotal'
        => \E amount \in Amounts : Withdraw(amount) ]_brokerVars

\* Trading alone makes no money: a buy or a sell at the cached price leaves
\* the equity the same or lower (slippage and fees), never higher.
NoMoneyFromTrading ==
    [][ \/ \E i \in PosIds, qty \in Qtys, slip \in BuySlips : OpenLong(i, qty, price, slip)
        \/ \E i \in PosIds : \E q \in 0..positions[i].qty : CloseLong(i, q, price)
        => Equity' <= Equity ]_brokerVars

\* The positions, fees, slippage, order rules and per-key reservations of
\* the simulated account implement the account strategies rely on: buys are
\* paid from free money at the market price or worse, sells take units that
\* are owned and bring in the market price or less, and only the owner's
\* deposits and withdrawals are exempt.
Acc == INSTANCE Account WITH units <- Units, held <- ReservedTotal

ImplementsAccount == Acc!Spec
=============================================================================
