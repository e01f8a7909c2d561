----------------------------- MODULE ManualOrders -----------------------------
(***************************************************************************)
(* bot/manual_orders.py: the orders a user places by hand, on the paper    *)
(* spot account of PaperBroker.                                            *)
(*                                                                         *)
(* place() and cancel() run in an HTTP thread, check() in the engine's     *)
(* tick, and no lock keeps them apart.  Both execute orders through        *)
(* _fill(), modelled as a task of one or the other actor.  Only the reads  *)
(* and the writes another thread can come between are steps of their own:  *)
(* a buy is one step (its race with other buys is in SharedAccount).      *)
(*                                                                         *)
(* The rows of the manual_orders table survive; self.positions, the list   *)
(* of positions opened by hand, lives in memory.  Positions are numbered   *)
(* in the order in which they were opened, which is the order of the list. *)
(***************************************************************************)
EXTENDS PaperBroker, FiniteSets

CONSTANTS
    NOrders,      \* orders 1..NOrders: a bound on the orders ever placed
    Kinds,        \* the kinds of order users place
    Brackets,     \* <<take-profit, stop-loss>> pairs a user asks for, 0: none
    NCandles      \* bound on the candles of a behaviour

ASSUME OrderAssumption ==
    NOrders \in 0..NPos /\ NCandles \in Nat /\ Kinds \subseteq {"market", "limit", "stop"}
ASSUME BracketAssumption ==
    \A b \in Brackets : \A x \in {b[1], b[2]} : x = 0 \/ (x \in Nat /\ SellSlip < x)

VARIABLES
    row,          \* the manual_orders table
    opener,       \* pos.id: the order that opened a position, 0 for none
    task,         \* the _fill() each actor is in
    check,        \* the check() of the engine's tick
    cancelling,   \* the order cancel() has read as pending, 0 for none
    candle,       \* the last closed candle: number, low, high and close
    sold,         \* history: units of each position handed to close_long
    executions    \* history: broker trades each order caused, brackets aside

manualVars == <<row, opener, task, check, cancelling, candle, sold, executions>>
orderVars == <<brokerVars, manualVars>>

Orders == 1..NOrders
Actors == {"http", "engine"}

NoOrder == [status |-> "none", side |-> "buy", kind |-> "market", qty |-> 0,
            at |-> 0, tp |-> 0, sl |-> 0]
NoTask == [step |-> "idle", order |-> 0, at |-> 0, target |-> 0]
NoCandle == [number |-> 0, low |-> 0, high |-> 0, close |-> 0]
NoCheck == [pc |-> "idle", queue |-> {}, list |-> {}, left |-> {}, seen |-> NoCandle]

Idle(a) == task[a].step = "idle"
HttpFree == Idle("http") /\ cancelling = 0

-----------------------------------------------------------------------------
(* place() and cancel(), in an HTTP thread *)

\* A limit order waits on the better side of the market, a stop order on the
\* worse one; both with 0.1% of tolerance.
TriggerSane(side, kind, at) ==
    CASE kind = "market" -> TRUE
      [] kind = "limit" /\ side = "buy"  -> 1000 * at <= 1001 * price
      [] kind = "limit" /\ side = "sell" -> 1000 * at >= 999 * price
      [] kind = "stop"  /\ side = "buy"  -> 1000 * at >= 999 * price
      [] kind = "stop"  /\ side = "sell" -> 1000 * at <= 1001 * price

BracketSane(side, ref, b) ==
    /\ b[1] # 0 => IF side = "buy" THEN b[1] > ref ELSE b[1] < ref
    /\ b[2] # 0 => IF side = "buy" THEN b[2] < ref ELSE b[2] > ref

\* A market order has no price and is executed at once, in the same call.
Place(o, side, kind, qty, at, b) ==
    /\ HttpFree
    /\ row[o].status = "none" /\ \A p \in 1..(o - 1) : row[p].status # "none"
    /\ (kind = "market") <=> (at = 0)
    /\ TriggerSane(side, kind, at)
    /\ BracketSane(side, IF kind = "market" THEN price ELSE at, b)
    /\ row' = [row EXCEPT ![o] =
           [status |-> IF kind = "market" THEN "filled" ELSE "pending", side |-> side,
            kind |-> kind, qty |-> qty, at |-> at, tp |-> b[1], sl |-> b[2]]]
    /\ task' = IF kind = "market"
               THEN [task EXCEPT !["http"] =
                       [step |-> "begin", order |-> o, at |-> price, target |-> 0]]
               ELSE task
    /\ UNCHANGED <<brokerVars, opener, check, cancelling, candle, sold, executions>>

CancelRead(o) ==
    /\ HttpFree
    /\ row[o].status = "pending"
    /\ cancelling' = o
    /\ UNCHANGED <<brokerVars, row, opener, task, check, candle, sold, executions>>

\* The row goes back as it was read, cancelled, whatever it holds by now.
CancelWrite ==
    /\ cancelling # 0
    /\ row' = [row EXCEPT ![cancelling].status = "cancelled"]
    /\ cancelling' = 0
    /\ UNCHANGED <<brokerVars, opener, task, check, candle, sold, executions>>

-----------------------------------------------------------------------------
(* _fill(), by either actor *)

Filling(a, side, step) ==
    task[a].step = step /\ row[task[a].order].side = side

\* Seeded fault: the row is not saved once the position is open.
SettledUnsaved(a, status) ==
    /\ row' = IF status = "position" THEN row ELSE [row EXCEPT ![task[a].order].status = status]
    /\ task' = [task EXCEPT ![a] = NoTask]

Settled(a, status) ==
    /\ row' = [row EXCEPT ![task[a].order].status = status]
    /\ task' = [task EXCEPT ![a] = NoTask]

Executed(a) == executions' = [executions EXCEPT ![task[a].order] = @ + 1]

FillBuy(a) ==
    LET o == task[a].order
    IN  /\ Filling(a, "buy", "begin")
        /\ \E i \in PosIds, slip \in BuySlips :
             /\ OpenLong(i, row[o].qty, task[a].at, slip)
             /\ opener' = [opener EXCEPT ![i] = o]
        /\ Settled(a, "position")
        /\ Executed(a)
        /\ UNCHANGED <<check, cancelling, candle, sold>>

FillBuyRejected(a) ==
    /\ Filling(a, "buy", "begin")
    /\ \E slip \in BuySlips : OpenLongRejected(row[task[a].order].qty, task[a].at, slip)
    /\ Settled(a, "rejected")
    /\ UNCHANGED <<brokerVars, opener, check, cancelling, candle, sold, executions>>

\* _find_open: the first position in the list that is open.
FirstOpen(i) == IsOpen(i) /\ \A j \in 1..(i - 1) : ~IsOpen(j)

Inventory(qty) == {i \in PosIds : FirstOpen(i) /\ positions[i].qty >= qty}

FillSellFound(a) ==
    /\ Filling(a, "sell", "begin")
    /\ \E i \in Inventory(row[task[a].order].qty) :
           task' = [task EXCEPT ![a].step = "close", ![a].target = i]
    /\ UNCHANGED <<brokerVars, row, opener, check, cancelling, candle, sold, executions>>

FillSellRejected(a) ==
    /\ Filling(a, "sell", "begin")
    /\ Inventory(row[task[a].order].qty) = {}
    /\ Settled(a, "rejected")
    /\ UNCHANGED <<brokerVars, opener, check, cancelling, candle, sold, executions>>

\* close_long of more than the position still holds: another thread sold
\* from it since _fill() looked.
CloseUncovered(i, q, at) ==
    /\ q > positions[i].qty
    /\ cash' = cash + q * SellFill(at) * (Scale - FeeRate)
    /\ positions' = [positions EXCEPT ![i].qty = 0, ![i].state = "closed",
                                      ![i].pnl = @ + ClosePnl(i, q, at)]
    /\ UNCHANGED <<startingCapital, reserved, price, funding, entryFees>>

FillSellClose(a) ==
    LET i == task[a].target
        q == row[task[a].order].qty
    IN  /\ Filling(a, "sell", "close")
        /\ CloseLong(i, q, task[a].at) \/ CloseUncovered(i, q, task[a].at)
        /\ sold' = [sold EXCEPT ![i] = @ + q]
        /\ task' = [task EXCEPT ![a].step = "reduce"]
        /\ Executed(a)
        /\ UNCHANGED <<row, opener, check, cancelling, candle>>

\* _reduce, after close_long has already taken the quantity off.
FillSellReduce(a) ==
    LET q == row[task[a].order].qty
    IN  /\ Filling(a, "sell", "reduce")
        /\ positions' = [positions EXCEPT ![task[a].target].qty = IF @ > q THEN @ - q ELSE 0]
        /\ Settled(a, "closed")
        /\ UNCHANGED <<cash, startingCapital, reserved, price, funding, entryFees,
                       opener, check, cancelling, candle, sold, executions>>

FillStep(a) ==
    \/ FillBuy(a) \/ FillBuyRejected(a)
    \/ FillSellFound(a) \/ FillSellRejected(a) \/ FillSellClose(a) \/ FillSellReduce(a)

-----------------------------------------------------------------------------
(* check(), in the engine's tick *)

Touched(o, c) ==
    CASE row[o].kind = "limit" /\ row[o].side = "buy"  -> c.low <= row[o].at
      [] row[o].kind = "limit" /\ row[o].side = "sell" -> c.high >= row[o].at
      [] row[o].kind = "stop"  /\ row[o].side = "buy"  -> c.high >= row[o].at
      [] row[o].kind = "stop"  /\ row[o].side = "sell" -> c.low <= row[o].at

\* The tick of the symbol has set the price to the last close.  The pending
\* rows are read once.  They come newest first, to the second:
\* orders of one second in any order, which is all that is kept of it here.
CheckBegin ==
    /\ check.pc = "idle" /\ Idle("engine")
    /\ candle.number > 0
    /\ SetPrice(candle.close)
    /\ check' = [NoCheck EXCEPT
           !.pc = "orders", !.seen = candle,
           !.queue = {o \in Orders : row[o].status = "pending" /\ Touched(o, candle)}]
    /\ UNCHANGED <<row, opener, task, cancelling, candle, sold, executions>>

CheckOrder(o) ==
    /\ check.pc = "orders" /\ Idle("engine")
    /\ o \in check.queue
    /\ check' = [check EXCEPT !.queue = @ \ {o}]
    /\ task' = [task EXCEPT !["engine"] =
                  [step |-> "begin", order |-> o, at |-> row[o].at, target |-> 0]]
    /\ UNCHANGED <<brokerVars, row, opener, cancelling, candle, sold, executions>>

CheckPositions ==
    /\ check.pc = "orders" /\ Idle("engine")
    /\ check.queue = {}
    /\ LET list == {i \in PosIds : opener[i] # 0}
       IN  check' = [check EXCEPT !.pc = "positions", !.list = list, !.left = list]
    /\ UNCHANGED <<brokerVars, row, opener, task, cancelling, candle, sold, executions>>

\* Seeded fault: the take-profit is only looked at when there is no stop.
ExitPriceStopOnly(i, c) ==
    LET r == row[opener[i]]
    IN  CASE r.sl # 0 -> IF c.low <= r.sl THEN r.sl ELSE 0
          [] r.sl = 0 /\ r.tp # 0 -> IF c.high >= r.tp THEN r.tp ELSE 0
          [] OTHER -> 0

\* Where the bracket of position i takes it out on candle c, 0 for nowhere:
\* the stop first.
ExitPrice(i, c) ==
    LET r == row[opener[i]]
    IN  CASE r.sl # 0 /\ c.low <= r.sl -> r.sl
          [] ~(r.sl # 0 /\ c.low <= r.sl) /\ r.tp # 0 /\ c.high >= r.tp -> r.tp
          [] OTHER -> 0

Exits(i) == IsOpen(i) /\ ExitPrice(i, check.seen) # 0

CheckExit(i) ==
    /\ check.pc = "positions" /\ i \in check.left
    /\ Exits(i)
    /\ CloseLong(i, positions[i].qty, ExitPrice(i, check.seen))
    /\ sold' = [sold EXCEPT ![i] = @ + positions[i].qty]
    /\ row' = [row EXCEPT ![opener[i]].status = "closed"]
    /\ check' = [check EXCEPT !.left = @ \ {i}]
    /\ UNCHANGED <<opener, task, cancelling, candle, executions>>

CheckNoExit(i) ==
    /\ check.pc = "positions" /\ i \in check.left
    /\ ~Exits(i)
    /\ check' = [check EXCEPT !.left = @ \ {i}]
    /\ UNCHANGED <<brokerVars, row, opener, task, cancelling, candle, sold, executions>>

CheckEnd ==
    /\ check.pc = "positions" /\ check.left = {}
    /\ check' = NoCheck
    /\ UNCHANGED <<brokerVars, row, opener, task, cancelling, candle, sold, executions>>

-----------------------------------------------------------------------------
(* The market *)

\* The exchange closes a 15-minute candle and the engine fetches it.
NewCandle ==
    /\ candle.number < NCandles
    /\ \E low, high, close \in Prices :
         /\ low <= close /\ close <= high
         /\ candle' = [number |-> candle.number + 1, low |-> low, high |-> high, close |-> close]
    /\ UNCHANGED <<brokerVars, row, opener, task, check, cancelling, sold, executions>>

OrdersInit ==
    /\ BrokerInit
    /\ row = [o \in Orders |-> NoOrder]
    /\ opener = [i \in PosIds |-> 0]
    /\ task = [a \in Actors |-> NoTask]
    /\ check = NoCheck
    /\ cancelling = 0
    /\ candle = NoCandle
    /\ sold = [i \in PosIds |-> 0]
    /\ executions = [o \in Orders |-> 0]

PlaceAny ==
    \E o \in Orders, side \in {"buy", "sell"}, kind \in Kinds, qty \in Qtys, b \in Brackets :
        \E at \in IF kind = "market" THEN {0} ELSE Prices : Place(o, side, kind, qty, at, b)

HttpStep == PlaceAny \/ (\E o \in Orders : CancelRead(o)) \/ CancelWrite \/ FillStep("http")

EngineStep ==
    \/ CheckBegin \/ CheckPositions \/ CheckEnd
    \/ \E o \in Orders : CheckOrder(o)
    \/ FillStep("engine")
    \/ \E i \in PosIds : CheckExit(i) \/ CheckNoExit(i)

OrdersNext == HttpStep \/ EngineStep \/ NewCandle

OrdersSpec == OrdersInit /\ [][OrdersNext]_orderVars

-----------------------------------------------------------------------------
(* Properties *)

Order == [status : {"none", "pending", "filled", "position", "closed", "cancelled", "rejected"},
          side : {"buy", "sell"}, kind : {"market", "limit", "stop"}, qty : Nat, at : Nat,
          tp : Nat, sl : Nat]

Task == [step : {"idle", "begin", "close", "reduce"}, order : Orders \cup {0}, at : Nat,
         target : PosIds \cup {0}]

\* Types; a task always has an order, and a sell in progress a position.
ManualTypeOK ==
    /\ TypeOK
    /\ row \in [Orders -> Order]
    /\ opener \in [PosIds -> Orders \cup {0}]
    /\ task \in [Actors -> Task]
    /\ \A a \in Actors :
         /\ ~Idle(a) => task[a].order # 0
         /\ task[a].step \in {"close", "reduce"} => task[a].target # 0
    /\ cancelling \in Orders \cup {0}
    /\ sold \in [PosIds -> Nat]

InProgress(o) == \E a \in Actors : task[a].order = o

\* The table tells what happened on the account: an order trades at most
\* once, never if its row says pending or rejected, exactly once if the row
\* says position or closed, however cancel() and check() interleave.
RowsMatchTrades ==
    \A o \in Orders :
        /\ executions[o] <= 1
        /\ ~InProgress(o) /\ row[o].status \in {"none", "pending", "rejected"} => executions[o] = 0
        /\ row[o].status \in {"position", "closed"} => executions[o] = 1

\* No check leaves a position open whose stop or target its candle reached,
\* whatever orders filled earlier in the same check or meanwhile by hand.
BracketsEnforced ==
    check.pc = "positions" /\ check.left = {} =>
        \A i \in check.list : IsOpen(i) =>
            LET r == row[opener[i]]
            IN  (r.sl = 0 \/ check.seen.low > r.sl) /\ (r.tp = 0 \/ check.seen.high < r.tp)

BoughtQty(i) == IF positions[i].entry = 0 THEN 0 ELSE positions[i].notional \div positions[i].entry

(* What the documentation says of the program *)

\* test_money_paths.py:288 "1 remaining unit long": an open position
\* nobody is selling from holds what was bought and not sold.
RemainingUnitsStay ==
    \A i \in PosIds :
        IsOpen(i) /\ (\A a \in Actors : task[a].target # i)
        => positions[i].qty = BoughtQty(i) - sold[i]
=============================================================================
