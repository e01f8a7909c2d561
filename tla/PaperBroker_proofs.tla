------------------------- MODULE PaperBroker_proofs -------------------------
(***************************************************************************)
(* Proofs about the paper account and the two components that trade on it, *)
(* the manual orders and the grids: for every number of positions, orders  *)
(* and grids, every ladder of levels, every set of prices, slippages and   *)
(* amounts, and every fee.  First the account itself, then what each of    *)
(* the two does with it.                                                   *)
(***************************************************************************)
EXTENDS ManualOrders, GridTrading, Sums_proofs

USE SizeAssumption, PriceAssumption, FeeAssumption, AmountAssumption

-----------------------------------------------------------------------------
(* The sums of the account *)

\* The reservations of a well-typed account add up to a natural number.
LEMMA ReservedTotalType == TypeOK => ReservedTotal \in Nat
<1> SUFFICES ASSUME TypeOK PROVE ReservedTotal \in Nat
  OBVIOUS
<1>1. reserved \in [1..NKeys -> Nat] /\ NKeys \in 0..NKeys
  BY DEF TypeOK, Keys
<1> QED  BY <1>1, SumNat DEF ReservedTotal

\* What is free is a natural number, and no more than a non-negative cash.
LEMMA AvailableType ==
  ASSUME TypeOK
  PROVE  /\ Available \in Nat
         /\ cash >= 0 => Available <= cash
         /\ cash >= ReservedTotal => Available = cash - ReservedTotal
BY ReservedTotalType DEF TypeOK, Available

\* What fits the free balance, whatever the order rules say: the order
\* open_long fills, with its fee, costs at most the available balance.
LEMMA OrderFitsBalance ==
  ASSUME TypeOK, NEW qty \in Nat, NEW fill \in Nat \ {0}
  PROVE  /\ OrderQty(qty, fill) \in Nat
         /\ OrderQty(qty, fill) * UnitCost(fill) \in Nat
         /\ OrderQty(qty, fill) * UnitCost(fill) <= Available
<1> DEFINE a == Available
           u == UnitCost(fill)
           m == Affordable(fill)
<1>1. u \in Nat \ {0}
  BY DEF UnitCost
<1>2. a \in Nat
  BY AvailableType
<1>3. m = (999 * a) \div (1000 * u)
  BY DEF Affordable
<1> HIDE DEF a, u, m
<1>4. 999 * a \in Nat /\ 1000 * u \in Nat \ {0}
  BY <1>1, <1>2
<1>5. m \in Nat /\ (1000 * u) * m <= 999 * a
  BY <1>3, <1>4
<1>6. m * u <= a
  BY <1>1, <1>2, <1>5
<1>7. RuledQty(qty, fill) \in Nat
  BY <1>5 DEF RuledQty, m
<1>8. OrderQty(qty, fill) = IF RuledQty(qty, fill) * u > a THEN m ELSE RuledQty(qty, fill)
  BY DEF OrderQty, u, a, m
<1>9. OrderQty(qty, fill) \in Nat /\ OrderQty(qty, fill) * u <= a
  BY <1>1, <1>2, <1>5, <1>6, <1>7, <1>8
<1>10. OrderQty(qty, fill) * u \in Nat
  BY <1>1, <1>9
<1> QED  BY <1>9, <1>10 DEF u, a

-----------------------------------------------------------------------------
(* Type correctness *)

\* The initial account is well-typed.
LEMMA TypeInit == BrokerInit => TypeOK
BY DEF BrokerInit, TypeOK, Position, NoPosition, Keys, PosIds

\* A buy of any quantity at any price keeps the account well-typed.
LEMMA BuyTypes ==
  ASSUME TypeOK, NEW i \in PosIds, NEW qty \in Nat, NEW at \in Nat \ {0}, NEW slip \in BuySlips,
         OpenLong(i, qty, at, slip)
  PROVE  TypeOK'
<1> DEFINE fill == at + slip
           bought == OrderQty(qty, fill)
<1>1. fill \in Nat \ {0} /\ qty \in Nat
  OBVIOUS
<1> HIDE DEF fill
<1>2. bought \in Nat /\ bought * UnitCost(fill) \in Nat
  BY <1>1, OrderFitsBalance
<1> HIDE DEF bought
<1>3. bought * fill \in Nat /\ bought * fill * FeeRate \in Nat
  BY <1>1, <1>2
<1>4. [state |-> "open", qty |-> bought, entry |-> fill,
       notional |-> bought * fill, pnl |-> 0] \in Position
  BY <1>1, <1>2, <1>3 DEF Position
<1>5. positions' \in [PosIds -> Position]
  BY <1>4 DEF OpenLong, TypeOK, bought, fill
<1>6. cash' \in Int /\ entryFees' \in Nat
  BY <1>2, <1>3 DEF OpenLong, TypeOK, bought, fill
<1> QED  BY <1>5, <1>6 DEF OpenLong, TypeOK

\* A sell at any price above the slippage keeps the account well-typed.
LEMMA SellTypes ==
  ASSUME TypeOK, NEW i \in PosIds, NEW at \in Nat, SellSlip <= at,
         NEW q \in 0..positions[i].qty, CloseLong(i, q, at)
  PROVE  TypeOK'
<1> DEFINE left == positions[i].qty - q
           pnl == positions[i].pnl + ClosePnl(i, q, at)
           st == IF left = 0 THEN "closed" ELSE positions[i].state
<1>1. /\ positions[i] \in Position
      /\ positions[i].qty \in Nat /\ positions[i].entry \in Nat /\ positions[i].pnl \in Int
      /\ positions[i].state \in {"none", "open", "closed"}
      /\ positions[i].notional \in Nat
  BY DEF TypeOK, Position
<1>2. q \in Nat /\ left \in Nat
  BY <1>1
<1>3. SellFill(at) \in Nat
  BY DEF SellFill
<1>4. ClosePnl(i, q, at) \in Int
  BY <1>1, <1>2, <1>3 DEF ClosePnl
<1>5. pnl \in Int /\ st \in {"none", "open", "closed"}
  BY <1>1, <1>4
<1>6. positions' = [positions EXCEPT ![i] = [@ EXCEPT !.qty = left, !.pnl = pnl, !.state = st]]
  BY <1>1 DEF CloseLong, TypeOK
<1> HIDE DEF left, pnl, st
<1>7. [positions[i] EXCEPT !.qty = left, !.pnl = pnl, !.state = st] \in Position
  BY <1>1, <1>2, <1>5 DEF Position
<1>8. positions' \in [PosIds -> Position]
  BY <1>6, <1>7 DEF TypeOK
<1>9. q * SellFill(at) * (Scale - FeeRate) \in Int
  BY <1>2, <1>3
<1>10. cash' \in Int
  BY <1>9 DEF CloseLong, TypeOK
<1> QED  BY <1>8, <1>10 DEF CloseLong, TypeOK

\* Every operation of the broker keeps the account well-typed.
LEMMA TypeStep == TypeOK /\ [BrokerNext]_brokerVars => TypeOK'
<1> SUFFICES ASSUME TypeOK, [BrokerNext]_brokerVars PROVE TypeOK'
  OBVIOUS
<1>1. ASSUME NEW i \in PosIds, NEW qty \in Qtys, NEW at \in Prices, NEW slip \in BuySlips,
             OpenLong(i, qty, at, slip)
      PROVE  TypeOK'
  <2>1. qty \in Nat /\ at \in Nat \ {0}
    OBVIOUS
  <2> QED  BY <1>1, <2>1, BuyTypes
<1>2. ASSUME NEW i \in PosIds, NEW at \in Prices, NEW q \in 0..positions[i].qty,
             CloseLong(i, q, at)
      PROVE  TypeOK'
  <2>1. at \in Nat /\ SellSlip <= at
    <3>1. SellSlip < at /\ SellSlip \in Nat /\ at \in Nat
      OBVIOUS
    <3> QED  BY <3>1
  <2> QED  BY <1>2, <2>1, SellTypes
<1>3. ASSUME NEW amount \in Amounts, Deposit(amount) PROVE TypeOK'
  BY <1>3 DEF Deposit, TypeOK
<1>4. ASSUME NEW amount \in Amounts, Withdraw(amount) PROVE TypeOK'
  BY <1>4 DEF Withdraw, TypeOK, CapitalAfterWithdraw
<1>5. ASSUME NEW k \in Keys, NEW amount \in Amounts, Reserve(k, amount) PROVE TypeOK'
  BY <1>5 DEF Reserve, TypeOK
<1>6. ASSUME NEW k \in Keys, Release(k) PROVE TypeOK'
  BY <1>6 DEF Release, TypeOK
<1>7. ASSUME NEW p \in Prices, SetPrice(p) PROVE TypeOK'
  BY <1>7 DEF SetPrice, TypeOK
<1>8. CASE UNCHANGED brokerVars
  BY <1>8 DEF brokerVars, TypeOK
<1> QED
  BY <1>1, <1>2, <1>3, <1>4, <1>5, <1>6, <1>7, <1>8
     DEF BrokerNext, Buy, Sell, MoveFunds, MoveReservations, Tick

\* The account stays well-typed.
THEOREM TypeCorrect == BrokerSpec => []TypeOK
BY TypeInit, TypeStep, PTL DEF BrokerSpec

-----------------------------------------------------------------------------
(* Solvency *)

\* What a sell pays into the account is never negative.
LEMMA SellProceeds ==
  ASSUME TypeOK, NEW i \in PosIds, NEW at \in Prices, NEW q \in 0..positions[i].qty,
         CloseLong(i, q, at)
  PROVE  cash' >= cash /\ cash' \in Int
<1>1. q \in Nat
  BY DEF TypeOK, Position
<1>2. SellFill(at) \in Nat
  BY DEF SellFill
<1>3. Scale - FeeRate \in Nat
  OBVIOUS
<1>4. q * SellFill(at) * (Scale - FeeRate) \in Nat
  BY <1>1, <1>2, <1>3
<1> QED  BY <1>4 DEF CloseLong, TypeOK

\* A buy of any quantity at any price leaves at least what was not available.
LEMMA BuyPays ==
  ASSUME TypeOK, NEW i \in PosIds, NEW qty \in Nat, NEW at \in Nat \ {0}, NEW slip \in BuySlips,
         OpenLong(i, qty, at, slip)
  PROVE  cash' >= cash - Available /\ cash' \in Int
<1> DEFINE fill == at + slip
<1>1. fill \in Nat \ {0}
  OBVIOUS
<1> HIDE DEF fill
<1> DEFINE cost == OrderQty(qty, fill) * UnitCost(fill)
<1>2. cost \in Nat /\ cost <= Available
  BY <1>1, OrderFitsBalance
<1>3. cash' = cash - cost
  BY DEF OpenLong, fill
<1>4. cash \in Int /\ Available \in Nat
  BY AvailableType DEF TypeOK
<1> HIDE DEF cost
<1> QED  BY <1>2, <1>3, <1>4

\* No operation overdraws the account.
LEMMA SolventStep ==
  TypeOK /\ CashNonNegative /\ [BrokerNext]_brokerVars => CashNonNegative'
<1> SUFFICES ASSUME TypeOK, CashNonNegative, [BrokerNext]_brokerVars PROVE CashNonNegative'
  OBVIOUS
<1>0. cash \in Int /\ cash >= 0
  BY DEF TypeOK, CashNonNegative
<1>1. ASSUME NEW i \in PosIds, NEW qty \in Qtys, NEW at \in Prices, NEW slip \in BuySlips,
             OpenLong(i, qty, at, slip)
      PROVE  CashNonNegative'
  BY <1>0, <1>1, BuyPays, AvailableType DEF CashNonNegative
<1>2. ASSUME NEW i \in PosIds, NEW at \in Prices, NEW q \in 0..positions[i].qty,
             CloseLong(i, q, at)
      PROVE  CashNonNegative'
  BY <1>0, <1>2, SellProceeds DEF CashNonNegative
<1>3. ASSUME NEW amount \in Amounts, Deposit(amount) \/ Withdraw(amount)
      PROVE  CashNonNegative'
  BY <1>0, <1>3 DEF Deposit, Withdraw, CashNonNegative
<1>4. CASE MoveReservations \/ Tick \/ UNCHANGED brokerVars
  BY <1>0, <1>4 DEF MoveReservations, Tick, Reserve, Release, SetPrice, brokerVars, CashNonNegative
<1> QED
  BY <1>1, <1>2, <1>3, <1>4 DEF BrokerNext, Buy, Sell, MoveFunds

\* No sequence of operations overdraws the paper account.
THEOREM NeverOverdrawn == BrokerSpec => []CashNonNegative
<1>1. BrokerInit => CashNonNegative
  BY DEF BrokerInit, CashNonNegative
<1> QED  BY <1>1, TypeInit, TypeStep, SolventStep, PTL DEF BrokerSpec

-----------------------------------------------------------------------------
(* Reservations *)

\* The total of the reservations follows the change of one of them.
LEMMA ReservationChange ==
  ASSUME TypeOK, NEW k \in Keys, NEW a \in Int
  PROVE  SumTo([reserved EXCEPT ![k] = a], NKeys) = ReservedTotal + (a - reserved[k])
<1>0. reserved \in [1..NKeys -> Int] /\ k \in 1..NKeys /\ reserved[k] \in Nat
  BY DEF TypeOK, Keys
<1> DEFINE g == [reserved EXCEPT ![k] = a]
<1>1. g \in [1..NKeys -> Int] /\ g[k] = a
  BY <1>0
<1>2. \A i \in 1..NKeys : i # k => g[i] = reserved[i]
  BY <1>0
<1> HIDE DEF g
<1>3. SumTo(g, NKeys) = SumTo(reserved, NKeys) + (g[k] - reserved[k])
  BY <1>0, <1>1, <1>2, SumChange
<1> QED  BY <1>1, <1>3 DEF g, ReservedTotal

\* Raising one key's reservation raises the total by as much; releasing one
\* never raises it.
LEMMA ReservationMoves ==
  ASSUME TypeOK, NEW k \in Keys
  PROVE  /\ \A amount \in Amounts : Reserve(k, amount) => ReservedTotal' = ReservedTotal + amount
         /\ Release(k) => ReservedTotal' <= ReservedTotal
<1>0. reserved \in [1..NKeys -> Int] /\ k \in 1..NKeys /\ reserved[k] \in Nat
  BY DEF TypeOK, Keys
<1>1. ASSUME NEW a \in Int
      PROVE  SumTo([reserved EXCEPT ![k] = a], NKeys) = ReservedTotal + (a - reserved[k])
  <2> DEFINE g == [reserved EXCEPT ![k] = a]
  <2>1. g \in [1..NKeys -> Int] /\ g[k] = a
    BY <1>0
  <2>2. \A i \in 1..NKeys : i # k => g[i] = reserved[i]
    BY <1>0
  <2> HIDE DEF g
  <2>3. SumTo(g, NKeys) = SumTo(reserved, NKeys) + (g[k] - reserved[k])
    BY <1>0, <2>1, <2>2, SumChange
  <2> QED  BY <2>1, <2>3 DEF g, ReservedTotal
<1>2. ASSUME NEW amount \in Amounts, Reserve(k, amount)
      PROVE  ReservedTotal' = ReservedTotal + amount
  <2>1. reserved' = [reserved EXCEPT ![k] = reserved[k] + amount]
    BY <1>2 DEF Reserve
  <2>2. reserved[k] + amount \in Int
    BY <1>0
  <2>3. SumTo(reserved', NKeys) = ReservedTotal + ((reserved[k] + amount) - reserved[k])
    BY <1>1, <2>1, <2>2
  <2> QED  BY <1>0, <2>3, ReservedTotalType DEF ReservedTotal
<1>3. ASSUME Release(k) PROVE ReservedTotal' <= ReservedTotal
  <2>1. reserved' = [reserved EXCEPT ![k] = 0]
    BY <1>3 DEF Release
  <2>2. 0 \in Int
    OBVIOUS
  <2>3. SumTo([reserved EXCEPT ![k] = 0], NKeys) = ReservedTotal + (0 - reserved[k])
    BY <1>1, <2>2
  <2>4. SumTo(reserved', NKeys) = ReservedTotal + (0 - reserved[k])
    BY <2>1, <2>3
  <2> QED  BY <1>0, <2>4, ReservedTotalType DEF ReservedTotal
<1> QED  BY <1>2, <1>3

\* Only a withdrawal can leave the reservations uncovered.
LEMMA CoveredStep ==
  ASSUME TypeOK, BrokerNext, cash >= ReservedTotal, cash' < ReservedTotal'
  PROVE  \E amount \in Amounts : Withdraw(amount)
<1>0. cash \in Int /\ ReservedTotal \in Nat
  BY ReservedTotalType DEF TypeOK
<1>1. ASSUME NEW i \in PosIds, NEW qty \in Qtys, NEW at \in Prices, NEW slip \in BuySlips,
             OpenLong(i, qty, at, slip)
      PROVE  FALSE
  <2>1. ReservedTotal' = ReservedTotal
    BY <1>1 DEF OpenLong, ReservedTotal
  <2>2. cash' >= cash - Available /\ cash' \in Int
    BY <1>1, BuyPays
  <2> QED  BY <1>0, <2>1, <2>2, AvailableType
<1>2. ASSUME NEW i \in PosIds, NEW at \in Prices, NEW q \in 0..positions[i].qty,
             CloseLong(i, q, at)
      PROVE  FALSE
  <2>1. ReservedTotal' = ReservedTotal
    BY <1>2 DEF CloseLong, ReservedTotal
  <2>2. cash' >= cash /\ cash' \in Int
    BY <1>2, SellProceeds
  <2> QED  BY <1>0, <2>1, <2>2
<1>3. ASSUME NEW amount \in Amounts, Deposit(amount) PROVE FALSE
  <2>1. ReservedTotal' = ReservedTotal /\ cash' = cash + amount
    BY <1>3 DEF Deposit, ReservedTotal
  <2> QED  BY <1>0, <2>1
<1>4. ASSUME NEW k \in Keys, NEW amount \in Amounts, Reserve(k, amount) PROVE FALSE
  <2>1. ReservedTotal' = ReservedTotal + amount
    BY <1>4, ReservationMoves
  <2>2. cash' = cash /\ amount <= cash - ReservedTotal
    BY <1>4 DEF Reserve
  <2> QED  BY <1>0, <2>1, <2>2
<1>5. ASSUME NEW k \in Keys, Release(k) PROVE FALSE
  <2>1. ReservedTotal' <= ReservedTotal /\ cash' = cash
    BY <1>5, ReservationMoves DEF Release
  <2>2. ReservedTotal' \in Nat
    <3>1. TypeOK'
      BY <1>5, TypeStep DEF BrokerNext, MoveReservations
    <3>2. (ReservedTotal \in Nat)'
      BY <3>1, ReservedTotalType, PTL
    <3> QED  BY <3>2
  <2> QED  BY <1>0, <2>1, <2>2
<1>6. ASSUME NEW p \in Prices, SetPrice(p) PROVE FALSE
  <2>1. ReservedTotal' = ReservedTotal /\ cash' = cash
    BY <1>6 DEF SetPrice, ReservedTotal
  <2> QED  BY <1>0, <2>1
<1> QED
  BY <1>1, <1>2, <1>3, <1>4, <1>5, <1>6
     DEF BrokerNext, Buy, Sell, MoveFunds, MoveReservations, Tick

\* Reserved capital is spent by no strategy: only a withdrawal takes the
\* cash below the reservations.
THEOREM ReservationsAreKept == BrokerSpec => ReservationsStayCovered
<1>1. TypeOK /\ [BrokerNext]_brokerVars =>
        [cash >= ReservedTotal /\ cash' < ReservedTotal'
         => \E amount \in Amounts : Withdraw(amount)]_brokerVars
  BY CoveredStep
<1> QED  BY <1>1, TypeCorrect, PTL DEF BrokerSpec, ReservationsStayCovered

-----------------------------------------------------------------------------
(* The books *)

\* The change a trade makes to a sum over the positions is the change of the
\* traded position's term.
LEMMA SumOverPositions ==
  ASSUME NEW f \in [PosIds -> Int], NEW g \in [PosIds -> Int], NEW i \in PosIds,
         \A j \in PosIds : j # i => g[j] = f[j]
  PROVE  /\ SumTo(f, NPos) \in Int
         /\ SumTo(g, NPos) = SumTo(f, NPos) + (g[i] - f[i])
<1>1. f \in [1..NPos -> Int] /\ g \in [1..NPos -> Int] /\ i \in 1..NPos /\ NPos \in 0..NPos
  BY DEF PosIds
<1> QED  BY <1>1, SumInt, SumChange DEF PosIds

\* The valuations of a well-typed account are families of integers.
LEMMA ValuationTypes ==
  TypeOK => /\ CostBasis \in [PosIds -> Int]
            /\ RealizedPnl \in [PosIds -> Int]
            /\ MarketValue \in [PosIds -> Int]
<1> SUFFICES ASSUME TypeOK
             PROVE  /\ CostBasis \in [PosIds -> Int]
                    /\ RealizedPnl \in [PosIds -> Int]
                    /\ MarketValue \in [PosIds -> Int]
  OBVIOUS
<1>1. \A i \in PosIds : /\ positions[i].qty \in Nat /\ positions[i].entry \in Nat
                        /\ positions[i].pnl \in Int
  BY DEF TypeOK, Position
<1>2. price \in Nat
  BY DEF TypeOK
<1>3. \A i \in PosIds : /\ positions[i].qty * positions[i].entry * Scale \in Int
                        /\ positions[i].qty * price * Scale \in Int
  BY <1>1, <1>2
<1> QED  BY <1>1, <1>3 DEF CostBasis, RealizedPnl, MarketValue

\* A trade moves the sum of a valuation by what it does to the position traded.
LEMMA TradeMovesSums ==
  ASSUME TypeOK, TypeOK', NEW i \in PosIds, NEW r,
         positions' = [positions EXCEPT ![i] = r], price' = price
  PROVE  /\ SumTo(CostBasis, NPos)' = SumTo(CostBasis, NPos)
              + (r.qty * r.entry * Scale - positions[i].qty * positions[i].entry * Scale)
         /\ SumTo(RealizedPnl, NPos)' = SumTo(RealizedPnl, NPos) + (r.pnl - positions[i].pnl)
         /\ SumTo(MarketValue, NPos)' = SumTo(MarketValue, NPos)
              + (r.qty * price * Scale - positions[i].qty * price * Scale)
<1>1. /\ CostBasis \in [PosIds -> Int] /\ CostBasis' \in [PosIds -> Int]
      /\ RealizedPnl \in [PosIds -> Int] /\ RealizedPnl' \in [PosIds -> Int]
      /\ MarketValue \in [PosIds -> Int] /\ MarketValue' \in [PosIds -> Int]
  <2>1. (/\ CostBasis \in [PosIds -> Int]
         /\ RealizedPnl \in [PosIds -> Int]
         /\ MarketValue \in [PosIds -> Int])'
    BY ValuationTypes, PTL
  <2> QED  BY <2>1, ValuationTypes
<1>2. positions'[i] = r /\ \A j \in PosIds : j # i => positions'[j] = positions[j]
  BY DEF TypeOK
<1>3. \A j \in PosIds : j # i => /\ CostBasis'[j] = CostBasis[j]
                                /\ RealizedPnl'[j] = RealizedPnl[j]
                                /\ MarketValue'[j] = MarketValue[j]
  BY <1>2 DEF CostBasis, RealizedPnl, MarketValue
<1>4. /\ SumTo(CostBasis', NPos) = SumTo(CostBasis, NPos) + (CostBasis'[i] - CostBasis[i])
      /\ SumTo(RealizedPnl', NPos) = SumTo(RealizedPnl, NPos) + (RealizedPnl'[i] - RealizedPnl[i])
      /\ SumTo(MarketValue', NPos) = SumTo(MarketValue, NPos) + (MarketValue'[i] - MarketValue[i])
  BY <1>1, <1>3, SumOverPositions
<1>5. /\ CostBasis'[i] = r.qty * r.entry * Scale
      /\ CostBasis[i] = positions[i].qty * positions[i].entry * Scale
      /\ RealizedPnl'[i] = r.pnl /\ RealizedPnl[i] = positions[i].pnl
      /\ MarketValue'[i] = r.qty * price * Scale
      /\ MarketValue[i] = positions[i].qty * price * Scale
  BY <1>2 DEF CostBasis, RealizedPnl, MarketValue
<1> QED  BY <1>4, <1>5

\* What a buy of b units at fill price `fill`, under id i, moves.
BuyChanges(i, b, fill) ==
  /\ cash' = cash - (b * fill * Scale + b * fill * FeeRate)
  /\ entryFees' = entryFees + b * fill * FeeRate
  /\ SumTo(CostBasis, NPos)' = SumTo(CostBasis, NPos) + b * fill * Scale
        - positions[i].qty * positions[i].entry * Scale
  /\ SumTo(RealizedPnl, NPos)' = SumTo(RealizedPnl, NPos) - positions[i].pnl
  /\ SumTo(MarketValue, NPos)' = SumTo(MarketValue, NPos)
        + b * price * Scale - positions[i].qty * price * Scale

\* A buy writes one record: bought units at the fill, no result yet.
LEMMA BuyEffect ==
  ASSUME TypeOK, NEW i \in PosIds, NEW qty \in Qtys, NEW at \in Prices, NEW slip \in BuySlips,
         OpenLong(i, qty, at, slip)
  PROVE  \E b \in Nat : BuyChanges(i, b, at + slip)
<1> DEFINE fill == at + slip
           b == OrderQty(qty, fill)
           r == [state |-> "open", qty |-> b, entry |-> fill, notional |-> b * fill, pnl |-> 0]
<1>1. fill \in Nat \ {0} /\ qty \in Nat
  OBVIOUS
<1>2. TypeOK'
  BY TypeStep DEF BrokerNext, Buy
<1> HIDE DEF fill
<1>3. b \in Nat
  BY <1>1, OrderFitsBalance
<1>4. /\ positions' = [positions EXCEPT ![i] = r] /\ price' = price
      /\ cash' = cash - b * (fill * (Scale + FeeRate))
      /\ entryFees' = entryFees + b * fill * FeeRate
  BY DEF OpenLong, UnitCost, fill
<1> HIDE DEF b
<1>5. b * (fill * (Scale + FeeRate)) = b * fill * Scale + b * fill * FeeRate
  BY <1>1, <1>3
<1>6. r.qty = b /\ r.entry = fill /\ r.pnl = 0
  OBVIOUS
<1> HIDE DEF r
<1>7. /\ SumTo(CostBasis, NPos)' = SumTo(CostBasis, NPos)
           + (r.qty * r.entry * Scale - positions[i].qty * positions[i].entry * Scale)
      /\ SumTo(RealizedPnl, NPos)' = SumTo(RealizedPnl, NPos) + (r.pnl - positions[i].pnl)
      /\ SumTo(MarketValue, NPos)' = SumTo(MarketValue, NPos)
           + (r.qty * price * Scale - positions[i].qty * price * Scale)
  BY <1>2, <1>4, TradeMovesSums
<1>8. /\ SumTo(CostBasis, NPos) \in Int /\ SumTo(RealizedPnl, NPos) \in Int
      /\ SumTo(MarketValue, NPos) \in Int
  BY ValuationTypes, SumOverPositions
<1>9. /\ positions[i].qty \in Nat /\ positions[i].entry \in Nat /\ positions[i].pnl \in Int
      /\ price \in Nat
  BY DEF TypeOK, Position
<1>10. /\ b * fill * Scale \in Int /\ positions[i].qty * positions[i].entry * Scale \in Int
       /\ b * price * Scale \in Int /\ positions[i].qty * price * Scale \in Int
  BY <1>1, <1>3, <1>9
<1>11. /\ SumTo(CostBasis, NPos)' = SumTo(CostBasis, NPos) + b * fill * Scale
             - positions[i].qty * positions[i].entry * Scale
       /\ SumTo(RealizedPnl, NPos)' = SumTo(RealizedPnl, NPos) - positions[i].pnl
       /\ SumTo(MarketValue, NPos)' = SumTo(MarketValue, NPos)
             + b * price * Scale - positions[i].qty * price * Scale
  BY <1>6, <1>7, <1>8, <1>9, <1>10
<1>12. BuyChanges(i, b, fill)
  BY <1>4, <1>5, <1>11 DEF BuyChanges
<1> QED  BY <1>3, <1>12 DEF fill

\* A sell of q units moves the cost and the result of one record.
LEMMA SellEffect ==
  ASSUME TypeOK, NEW i \in PosIds, NEW at \in Prices, NEW q \in 0..positions[i].qty,
         CloseLong(i, q, at)
  PROVE  /\ q \in Nat /\ SellFill(at) \in Nat
         /\ cash' = cash + q * SellFill(at) * (Scale - FeeRate)
         /\ SumTo(CostBasis, NPos)' = SumTo(CostBasis, NPos) - q * positions[i].entry * Scale
         /\ SumTo(RealizedPnl, NPos)' = SumTo(RealizedPnl, NPos) + ClosePnl(i, q, at)
         /\ SumTo(MarketValue, NPos)' = SumTo(MarketValue, NPos) - q * price * Scale
<1> DEFINE p == positions[i]
           r == [p EXCEPT !.qty = p.qty - q, !.pnl = p.pnl + ClosePnl(i, q, at),
                          !.state = IF p.qty - q = 0 THEN "closed" ELSE p.state]
<1>1. /\ p \in Position /\ p.qty \in Nat /\ p.entry \in Nat /\ p.pnl \in Int /\ price \in Nat
  BY DEF TypeOK, Position
<1>2. q \in Nat /\ SellFill(at) \in Nat
  BY <1>1 DEF SellFill
<1>3. ClosePnl(i, q, at) \in Int
  BY <1>1, <1>2 DEF ClosePnl
<1>4. TypeOK'
  BY TypeStep DEF BrokerNext, Sell
<1>5. /\ positions' = [positions EXCEPT ![i] = r] /\ price' = price
      /\ cash' = cash + q * SellFill(at) * (Scale - FeeRate)
  BY <1>1 DEF CloseLong, TypeOK
<1>6. r.qty = p.qty - q /\ r.entry = p.entry /\ r.pnl = p.pnl + ClosePnl(i, q, at)
  BY <1>1 DEF Position
<1> HIDE DEF r
<1>7. /\ SumTo(CostBasis, NPos)' = SumTo(CostBasis, NPos)
           + (r.qty * r.entry * Scale - p.qty * p.entry * Scale)
      /\ SumTo(RealizedPnl, NPos)' = SumTo(RealizedPnl, NPos) + (r.pnl - p.pnl)
      /\ SumTo(MarketValue, NPos)' = SumTo(MarketValue, NPos)
           + (r.qty * price * Scale - p.qty * price * Scale)
  BY <1>4, <1>5, TradeMovesSums
<1>8. /\ SumTo(CostBasis, NPos) \in Int /\ SumTo(RealizedPnl, NPos) \in Int
      /\ SumTo(MarketValue, NPos) \in Int
  BY ValuationTypes, SumOverPositions
<1>9. /\ (p.qty - q) * p.entry * Scale - p.qty * p.entry * Scale = 0 - q * p.entry * Scale
      /\ (p.qty - q) * price * Scale - p.qty * price * Scale = 0 - q * price * Scale
      /\ q * p.entry * Scale \in Int /\ q * price * Scale \in Int
  BY <1>1, <1>2
<1>10. /\ SumTo(CostBasis, NPos)' = SumTo(CostBasis, NPos) + (0 - q * p.entry * Scale)
       /\ SumTo(MarketValue, NPos)' = SumTo(MarketValue, NPos) + (0 - q * price * Scale)
       /\ SumTo(RealizedPnl, NPos)' = SumTo(RealizedPnl, NPos) + ((p.pnl + ClosePnl(i, q, at)) - p.pnl)
  BY <1>6, <1>7, <1>9
<1> HIDE DEF p
<1>11. /\ SumTo(CostBasis, NPos)' = SumTo(CostBasis, NPos) - q * p.entry * Scale
       /\ SumTo(MarketValue, NPos)' = SumTo(MarketValue, NPos) - q * price * Scale
       /\ SumTo(RealizedPnl, NPos)' = SumTo(RealizedPnl, NPos) + ClosePnl(i, q, at)
  BY <1>1, <1>3, <1>8, <1>9, <1>10
<1> QED  BY <1>2, <1>5, <1>11 DEF p

-----------------------------------------------------------------------------
(* The inductive invariant: a fresh id has traded nothing.                 *)

FreshIsBlank == \A i \in PosIds : positions[i].state = "none" => positions[i] = NoPosition

BooksInv == TypeOK /\ FreshIsBlank /\ BooksBalance

\* Every operation leaves the ids it does not use blank.
LEMMA BlankStep ==
  TypeOK /\ FreshIsBlank /\ [BrokerNext]_brokerVars => FreshIsBlank'
<1> SUFFICES ASSUME TypeOK, FreshIsBlank, [BrokerNext]_brokerVars,
                    NEW j \in PosIds, positions'[j].state = "none"
             PROVE  positions'[j] = NoPosition
  BY DEF FreshIsBlank
<1>1. ASSUME NEW i \in PosIds, NEW qty \in Qtys, NEW at \in Prices, NEW slip \in BuySlips,
             OpenLong(i, qty, at, slip)
      PROVE  positions'[j] = NoPosition
  <2>1. CASE i = j
    BY <1>1, <2>1 DEF OpenLong, TypeOK
  <2>2. CASE i # j
    BY <1>1, <2>2 DEF OpenLong, TypeOK, FreshIsBlank
  <2> QED  BY <2>1, <2>2
<1>2. ASSUME NEW i \in PosIds, NEW at \in Prices, NEW q \in 0..positions[i].qty,
             CloseLong(i, q, at)
      PROVE  positions'[j] = NoPosition
  <2>1. CASE i = j
    <3>1. positions[j].state = "open" /\ positions[j] \in Position
      BY <1>2, <2>1 DEF CloseLong, IsOpen, TypeOK
    <3>2. positions'[j].state \in {"closed", "open"}
      BY <1>2, <2>1, <3>1 DEF CloseLong, TypeOK, Position
    <3> QED  BY <3>2
  <2>2. CASE i # j
    BY <1>2, <2>2 DEF CloseLong, TypeOK, FreshIsBlank
  <2> QED  BY <2>1, <2>2
<1>3. CASE MoveFunds \/ MoveReservations \/ Tick \/ UNCHANGED brokerVars
  <2>1. positions' = positions
    BY <1>3 DEF MoveFunds, MoveReservations, Tick, Deposit, Withdraw, Reserve, Release,
                SetPrice, brokerVars
  <2> QED  BY <2>1 DEF FreshIsBlank
<1> QED  BY <1>1, <1>2, <1>3 DEF BrokerNext, Buy, Sell

\* Every operation keeps the books balanced.
LEMMA BooksStep ==
  BooksInv /\ [BrokerNext]_brokerVars => BooksBalance'
<1> SUFFICES ASSUME TypeOK, FreshIsBlank, BooksBalance, [BrokerNext]_brokerVars
             PROVE  BooksBalance'
  BY DEF BooksInv
<1> DEFINE cost == SumTo(CostBasis, NPos)
           pnl  == SumTo(RealizedPnl, NPos)
<1>1. /\ cost \in Int /\ pnl \in Int /\ cash \in Int /\ funding \in Int /\ entryFees \in Int
      /\ funding + pnl = cash + cost + entryFees
  <2>1. NPos \in 0..NPos
    OBVIOUS
  <2>2. SumTo(CostBasis, NPos) \in Int /\ SumTo(RealizedPnl, NPos) \in Int
    BY <2>1, ValuationTypes, SumInt DEF PosIds
  <2> QED  BY <2>2 DEF TypeOK, BooksBalance
<1>2. ASSUME NEW i \in PosIds, NEW qty \in Qtys, NEW at \in Prices, NEW slip \in BuySlips,
             OpenLong(i, qty, at, slip)
      PROVE  BooksBalance'
  <2>1. positions[i].qty = 0 /\ positions[i].pnl = 0 /\ positions[i].entry = 0
    BY <1>2 DEF OpenLong, Fresh, FreshIsBlank, NoPosition
  <2> DEFINE fill == at + slip
  <2>2. PICK b \in Nat : BuyChanges(i, b, fill)
    BY <1>2, BuyEffect
  <2>7. fill \in Nat
    OBVIOUS
  <2> HIDE DEF fill
  <2>3. positions[i].qty * positions[i].entry * Scale = 0
    BY <2>1
  <2>4. b * fill * Scale \in Int /\ b * fill * FeeRate \in Int
    BY <2>2, <2>7
  <2>8. /\ cash' = cash - (b * fill * Scale + b * fill * FeeRate)
        /\ entryFees' = entryFees + b * fill * FeeRate
        /\ cost' = cost + b * fill * Scale - positions[i].qty * positions[i].entry * Scale
        /\ pnl' = pnl - positions[i].pnl
    BY <2>2 DEF BuyChanges
  <2>5. funding' = funding
    BY <1>2 DEF OpenLong
  <2> HIDE DEF cost, pnl
  <2>6. funding' + pnl' = cash' + cost' + entryFees'
    BY <1>1, <2>1, <2>8, <2>3, <2>4, <2>5
  <2> QED  BY <2>6 DEF BooksBalance, cost, pnl
<1>3. ASSUME NEW i \in PosIds, NEW at \in Prices, NEW q \in 0..positions[i].qty,
             CloseLong(i, q, at)
      PROVE  BooksBalance'
  <2> DEFINE e == positions[i].entry
             f == SellFill(at)
  <2>1. /\ q \in Nat /\ f \in Nat /\ e \in Nat
    BY <1>3, SellEffect DEF TypeOK, Position
  <2>2. /\ cash' = cash + q * f * (Scale - FeeRate)
        /\ cost' = cost - q * e * Scale
        /\ pnl' = pnl + ((f - e) * q * Scale - f * q * FeeRate)
    BY <1>3, SellEffect DEF ClosePnl
  <2>3. funding' = funding /\ entryFees' = entryFees
    BY <1>3 DEF CloseLong
  <2> HIDE DEF cost, pnl, e, f
  <2>4. (f - e) * q * Scale - f * q * FeeRate = q * f * (Scale - FeeRate) - q * e * Scale
    BY <2>1
  <2>5. q * f * (Scale - FeeRate) \in Int /\ q * e * Scale \in Int
    BY <2>1
  <2>6. funding' + pnl' = cash' + cost' + entryFees'
    BY <1>1, <2>2, <2>3, <2>4, <2>5
  <2> QED  BY <2>6 DEF BooksBalance, cost, pnl
<1>4. CASE MoveFunds \/ MoveReservations \/ Tick \/ UNCHANGED brokerVars
  <2>1. /\ positions' = positions /\ entryFees' = entryFees
        /\ funding' - funding = cash' - cash /\ funding' \in Int /\ cash' \in Int
    BY <1>1, <1>4 DEF MoveFunds, MoveReservations, Tick, Deposit, Withdraw, Reserve, Release,
                SetPrice, brokerVars
  <2>2. cost' = cost /\ pnl' = pnl
    BY <2>1 DEF CostBasis, RealizedPnl
  <2> HIDE DEF cost, pnl
  <2>3. funding' + pnl' = cash' + cost' + entryFees'
    BY <1>1, <2>1, <2>2
  <2> QED  BY <2>3 DEF BooksBalance, cost, pnl
<1> QED  BY <1>2, <1>3, <1>4 DEF BrokerNext, Buy, Sell

\* An empty account with its starting capital has balanced books.
LEMMA BooksInit == BrokerInit => BooksInv
<1> SUFFICES ASSUME BrokerInit PROVE BooksInv
  OBVIOUS
<1>1. \A i \in PosIds : positions[i] = NoPosition
  BY DEF BrokerInit
<1>2. \A i \in 1..NPos : CostBasis[i] = 0 /\ RealizedPnl[i] = 0
  BY <1>1 DEF CostBasis, RealizedPnl, NoPosition, PosIds
<1>3. SumTo(CostBasis, NPos) = 0 /\ SumTo(RealizedPnl, NPos) = 0
  BY <1>2, SumZero
<1>4. BooksBalance
  BY <1>3 DEF BooksBalance, BrokerInit
<1> QED  BY <1>1, <1>4, TypeInit DEF BooksInv, FreshIsBlank

\* The books always balance: the reported results, the cash, the open
\* positions at cost and the entry fees account for all the money put in.
THEOREM BooksAlwaysBalance == BrokerSpec => []BooksBalance
<1>1. BooksInv /\ [BrokerNext]_brokerVars => BooksInv'
  BY TypeStep, BlankStep, BooksStep DEF BooksInv
<1>2. BooksInv => BooksBalance
  BY DEF BooksInv
<1> QED  BY <1>1, <1>2, BooksInit, PTL DEF BrokerSpec

-----------------------------------------------------------------------------
(* No money from trading *)

\* A trade at the cached price never raises the equity.
LEMMA TradeLosesNothing ==
  ASSUME TypeOK, FreshIsBlank, NEW i \in PosIds,
         \/ \E qty \in Qtys, slip \in BuySlips : OpenLong(i, qty, price, slip)
         \/ \E q \in 0..positions[i].qty : CloseLong(i, q, price)
  PROVE  Equity' <= Equity
<1> DEFINE mv == SumTo(MarketValue, NPos)
<1>1. mv \in Int /\ cash \in Int /\ price \in Nat /\ price \in Prices
  <2>1. NPos \in 0..NPos
    OBVIOUS
  <2> QED  BY <2>1, ValuationTypes, SumInt DEF PosIds, TypeOK
<1>2. ASSUME NEW qty \in Qtys, NEW slip \in BuySlips, OpenLong(i, qty, price, slip)
      PROVE  Equity' <= Equity
  <2>1. positions[i].qty = 0
    BY <1>2 DEF OpenLong, Fresh, FreshIsBlank, NoPosition
  <2> DEFINE fill == price + slip
  <2>2. PICK b \in Nat : BuyChanges(i, b, fill)
    BY <1>1, <1>2, BuyEffect
  <2>8. /\ cash' = cash - (b * fill * Scale + b * fill * FeeRate)
        /\ mv' = mv + b * price * Scale - positions[i].qty * price * Scale
    BY <2>2 DEF BuyChanges
  <2>3. positions[i].qty * price * Scale = 0
    BY <1>1, <2>1
  <2>4. slip \in Nat
    OBVIOUS
  <2>5. b * fill * Scale = b * price * Scale + b * slip * Scale
    BY <1>1, <2>2, <2>4
  <2>6. /\ b * fill * FeeRate \in Nat /\ b * slip * Scale \in Nat /\ b * price * Scale \in Nat
    BY <1>1, <2>2, <2>4
  <2> HIDE DEF mv
  <2>7. cash' + mv' <= cash + mv
    BY <1>1, <2>8, <2>3, <2>5, <2>6
  <2> QED  BY <2>7 DEF Equity, mv
<1>3. ASSUME NEW q \in 0..positions[i].qty, CloseLong(i, q, price)
      PROVE  Equity' <= Equity
  <2> DEFINE f == SellFill(price)
  <2>1. q \in Nat /\ f \in Nat
    BY <1>1, <1>3, SellEffect
  <2>2. /\ cash' = cash + q * f * (Scale - FeeRate)
        /\ mv' = mv - q * price * Scale
    BY <1>1, <1>3, SellEffect
  <2>3. price = f + SellSlip
    BY <1>1 DEF SellFill
  <2> HIDE DEF f
  <2>4. q * f * (Scale - FeeRate) = q * price * Scale - q * SellSlip * Scale - q * f * FeeRate
    BY <2>1, <2>3
  <2>5. /\ q * SellSlip * Scale \in Nat /\ q * f * FeeRate \in Nat /\ q * price * Scale \in Nat
    BY <1>1, <2>1
  <2> HIDE DEF mv
  <2>6. cash' + mv' <= cash + mv
    BY <1>1, <2>2, <2>4, <2>5
  <2> QED  BY <2>6 DEF Equity, mv
<1> QED  BY <1>2, <1>3

\* No trade at the cached price makes the account richer.
THEOREM TradingMakesNoMoney == BrokerSpec => NoMoneyFromTrading
<1>1. BooksInv /\ [BrokerNext]_brokerVars => BooksInv'
  BY TypeStep, BlankStep, BooksStep DEF BooksInv
<1>2. BooksInv /\ [BrokerNext]_brokerVars =>
        [ \/ \E i \in PosIds, qty \in Qtys, slip \in BuySlips : OpenLong(i, qty, price, slip)
          \/ \E i \in PosIds : \E q \in 0..positions[i].qty : CloseLong(i, q, price)
          => Equity' <= Equity ]_brokerVars
  BY TradeLosesNothing DEF BooksInv
<1> QED  BY <1>1, <1>2, BooksInit, PTL DEF BrokerSpec, NoMoneyFromTrading

-----------------------------------------------------------------------------
(* The paper account implements the abstract account *)

\* The units owned, as a number and as a sum whose one term a trade moves.
LEMMA UnitsType == TypeOK => Units \in Nat /\ Holdings \in [PosIds -> Int]
<1> SUFFICES ASSUME TypeOK PROVE Units \in Nat /\ Holdings \in [PosIds -> Int]
  OBVIOUS
<1>1. Holdings \in [1..NPos -> Nat] /\ NPos \in 0..NPos
  BY DEF TypeOK, Position, Holdings, PosIds
<1> QED  BY <1>1, SumNat DEF Units, PosIds

\* A trade moves the units by what it does to the position traded.
LEMMA TradeMovesUnits ==
  ASSUME TypeOK, TypeOK', NEW i \in PosIds,
         \A j \in PosIds : j # i => positions'[j] = positions[j]
  PROVE  Units' = Units + (positions'[i].qty - positions[i].qty)
<1>1. Holdings \in [PosIds -> Int] /\ Holdings' \in [PosIds -> Int]
  <2>1. (Holdings \in [PosIds -> Int])'
    BY UnitsType, PTL
  <2> QED  BY <2>1, UnitsType
<1>2. \A j \in PosIds : j # i => Holdings'[j] = Holdings[j]
  BY DEF Holdings
<1>3. SumTo(Holdings', NPos) = SumTo(Holdings, NPos) + (Holdings'[i] - Holdings[i])
  BY <1>1, <1>2, SumOverPositions
<1> QED  BY <1>3 DEF Units, Holdings

\* A buy of the paper account is a buy of the abstract one, or no change.
LEMMA BuyRefines ==
  ASSUME TypeOK, FreshIsBlank, CashNonNegative,
         NEW i \in PosIds, NEW qty \in Qtys, NEW at \in Prices, NEW slip \in BuySlips,
         OpenLong(i, qty, at, slip)
  PROVE  Acc!Buy
<1> DEFINE fill == at + slip
           b == OrderQty(qty, fill)
<1>1. fill \in Nat \ {0} /\ qty \in Nat /\ at \in Nat /\ fill >= at
  OBVIOUS
<1>2. TypeOK'
  BY TypeStep DEF BrokerNext, Buy
<1>3. b > 0 /\ cash' = cash - b * UnitCost(fill) /\ positions'[i].qty = b
  BY DEF OpenLong, Accepted, TypeOK
<1> HIDE DEF fill
<1>4. b \in Nat /\ b * UnitCost(fill) \in Nat /\ b * UnitCost(fill) <= Available
  BY <1>1, OrderFitsBalance
<1> HIDE DEF b
<1>5. positions[i].qty = 0
  BY DEF OpenLong, Fresh, FreshIsBlank, NoPosition
<1>6. Units' = Units + (positions'[i].qty - positions[i].qty)
  <2>1. \A j \in PosIds : j # i => positions'[j] = positions[j]
    BY DEF OpenLong, TypeOK
  <2> QED  BY <1>2, <2>1, TradeMovesUnits
<1>7. Units \in Nat /\ Units' = Units + b
  BY <1>3, <1>4, <1>5, <1>6, UnitsType
<1>8. Acc!Free = Available
  BY DEF Acc!Free, Available
<1>9. cash - cash' = b * UnitCost(fill)
  BY <1>3, <1>4 DEF TypeOK
<1>10. b * UnitCost(fill) >= b * at * Scale
  <2>1. fill = at + (fill - at) /\ fill - at \in Nat
    BY <1>1
  <2>2. b * UnitCost(fill) = b * at * Scale + b * (fill - at) * Scale + b * fill * FeeRate
    BY <1>1, <1>4, <2>1 DEF UnitCost
  <2>3. /\ b * at * Scale \in Nat /\ b * (fill - at) * Scale \in Nat
        /\ b * fill * FeeRate \in Nat
    BY <1>1, <1>4, <2>1
  <2> QED  BY <2>2, <2>3
<1>11. ReservedTotal' = ReservedTotal
  BY DEF OpenLong, ReservedTotal
<1>12. Units' > Units /\ (Units' - Units) * at * Scale = b * at * Scale
  BY <1>3, <1>4, <1>7
<1> QED  BY <1>4, <1>8, <1>9, <1>10, <1>11, <1>12 DEF Acc!Buy

\* A sell of the paper account is a sell of the abstract one.
LEMMA SellRefines ==
  ASSUME TypeOK, NEW i \in PosIds, NEW at \in Prices, NEW q \in 0..positions[i].qty,
         CloseLong(i, q, at)
  PROVE  Acc!Sell
<1> DEFINE f == SellFill(at)
<1>1. positions[i] \in Position /\ positions[i].qty \in Nat
  BY DEF TypeOK, Position
<1>2. q \in Nat /\ f \in Nat /\ at \in Nat /\ at = f + SellSlip
  <2>1. q \in Nat
    BY <1>1
  <2>2. at \in Nat /\ SellSlip \in Nat /\ SellSlip < at
    OBVIOUS
  <2>3. f = at - SellSlip
    BY DEF SellFill
  <2> HIDE DEF f
  <2> QED  BY ONLY <2>1, <2>2, <2>3
<1>3. TypeOK'
  BY TypeStep DEF BrokerNext, Sell
<1>4. cash' = cash + q * f * (Scale - FeeRate) /\ cash \in Int
  BY DEF CloseLong, TypeOK
<1>5. positions'[i].qty = positions[i].qty - q
  BY <1>1 DEF CloseLong, TypeOK, Position
<1>6. Units' = Units + (positions'[i].qty - positions[i].qty)
  <2>1. \A j \in PosIds : j # i => positions'[j] = positions[j]
    BY DEF CloseLong, TypeOK
  <2> QED  BY <1>3, <2>1, TradeMovesUnits
<1> HIDE DEF f
<1>7. Units' = Units - q /\ Units \in Nat /\ Units' \in Nat
  <2>1. (Units \in Nat)'
    BY <1>3, UnitsType, PTL
  <2> QED  BY <1>1, <1>2, <1>5, <1>6, <2>1, UnitsType
<1>8. q * f * (Scale - FeeRate) = q * at * Scale - (q * SellSlip * Scale + q * f * FeeRate)
  BY <1>2
<1>9. /\ q * f * (Scale - FeeRate) \in Nat /\ q * at * Scale \in Nat
      /\ q * SellSlip * Scale \in Nat /\ q * f * FeeRate \in Nat
  <2>1. Scale - FeeRate \in Nat
    OBVIOUS
  <2> QED  BY <1>2, <2>1
<1>10. cash' >= cash /\ cash' - cash <= q * at * Scale
  BY <1>4, <1>8, <1>9
<1>11. Units' \in 0..Units /\ Units - Units' = q
  BY <1>2, <1>7
<1>12. ReservedTotal' = ReservedTotal
  BY DEF CloseLong, ReservedTotal
<1> QED  BY <1>10, <1>11, <1>12 DEF Acc!Sell

\* Every step of the paper account is a step of the abstract account.
LEMMA AccountStep ==
  TypeOK /\ FreshIsBlank /\ CashNonNegative /\ [BrokerNext]_brokerVars => [Acc!Next]_(Acc!vars)
<1> SUFFICES ASSUME TypeOK, FreshIsBlank, CashNonNegative, [BrokerNext]_brokerVars
             PROVE  Acc!Next \/ UNCHANGED <<cash, Units, ReservedTotal>>
  BY DEF Acc!vars
<1>0. cash \in Nat /\ ReservedTotal \in Nat
  BY ReservedTotalType DEF TypeOK, CashNonNegative
<1>1. ASSUME NEW i \in PosIds, NEW qty \in Qtys, NEW at \in Prices, NEW slip \in BuySlips,
             OpenLong(i, qty, at, slip)
      PROVE  Acc!Next
  BY <1>1, BuyRefines DEF Acc!Next
<1>2. ASSUME NEW i \in PosIds, NEW at \in Prices, NEW q \in 0..positions[i].qty,
             CloseLong(i, q, at)
      PROVE  Acc!Next
  BY <1>2, SellRefines DEF Acc!Next
<1>3. CASE MoveFunds
  <2>1. cash' \in Nat
    BY <1>0, <1>3 DEF MoveFunds, Deposit, Withdraw
  <2>2. Units' = Units /\ ReservedTotal' = ReservedTotal
    BY <1>3 DEF MoveFunds, Deposit, Withdraw, Units, Holdings, ReservedTotal
  <2> QED  BY <2>1, <2>2 DEF Acc!Next, Acc!Fund
<1>4. ASSUME NEW k \in Keys, NEW amount \in Amounts, Reserve(k, amount)
      PROVE  Acc!Next
  <2>1. ReservedTotal' = ReservedTotal + amount /\ amount <= cash - ReservedTotal /\ cash' = cash
    BY <1>4, ReservationMoves DEF Reserve
  <2>2. Units' = Units
    BY <1>4 DEF Reserve, Units, Holdings
  <2>3. ReservedTotal' > ReservedTotal /\ ReservedTotal' <= cash
    BY <1>0, <2>1
  <2> QED  BY <2>1, <2>2, <2>3 DEF Acc!Next, Acc!Hold
<1>5. ASSUME NEW k \in Keys, Release(k)
      PROVE  Acc!Next
  <2>1. ReservedTotal' <= ReservedTotal /\ cash' = cash /\ Units' = Units
    BY <1>5, ReservationMoves DEF Release, Units, Holdings
  <2>2. (ReservedTotal \in Nat)'
    <3>1. TypeOK'
      BY <1>5, TypeStep DEF BrokerNext, MoveReservations
    <3> QED  BY <3>1, ReservedTotalType, PTL
  <2>3. ReservedTotal' \in 0..ReservedTotal
    BY <1>0, <2>1, <2>2
  <2> QED  BY <2>1, <2>3 DEF Acc!Next, Acc!Let
<1>6. CASE Tick \/ UNCHANGED brokerVars
  BY <1>6 DEF Tick, SetPrice, brokerVars, Units, Holdings, ReservedTotal
<1> QED
  BY <1>1, <1>2, <1>3, <1>4, <1>5, <1>6 DEF BrokerNext, Buy, Sell, MoveReservations

\* An account that starts with its capital starts as the abstract one does.
LEMMA AccountInit == BrokerInit => Acc!Init
<1> SUFFICES ASSUME BrokerInit PROVE Acc!Init
  OBVIOUS
<1>1. \A i \in 1..NPos : Holdings[i] = 0
  BY DEF BrokerInit, Holdings, NoPosition, PosIds
<1>2. \A k \in 1..NKeys : reserved[k] = 0
  BY DEF BrokerInit, Keys
<1>3. Units = 0 /\ ReservedTotal = 0
  BY <1>1, <1>2, SumZero DEF Units, ReservedTotal
<1> QED  BY <1>3 DEF BrokerInit, Acc!Init

\* The simulated account, with its positions, fees, slippage, order rules
\* and reservations, implements the account the strategies rely on.
THEOREM PaperAccountImplementsAccount == BrokerSpec => ImplementsAccount
<1>1. BooksInv /\ [BrokerNext]_brokerVars => BooksInv'
  BY TypeStep, BlankStep, BooksStep DEF BooksInv
<1>2. BooksInv /\ CashNonNegative /\ [BrokerNext]_brokerVars => [Acc!Next]_(Acc!vars)
  BY AccountStep DEF BooksInv
<1> QED
  BY <1>1, <1>2, AccountInit, BooksInit, NeverOverdrawn, PTL
     DEF BrokerSpec, ImplementsAccount, Acc!Spec

-----------------------------------------------------------------------------
(* The manual orders *)

\* Candles and checks.
CandleRecords == [number : Nat, low : Nat, high : Nat, close : Nat]
Checks == [pc : {"idle", "orders", "positions"}, queue : SUBSET Orders,
           list : SUBSET PosIds, left : SUBSET PosIds, seen : CandleRecords]

\* Types; a candle that has come closed at a price.
OrdersTypes ==
    /\ ManualTypeOK
    /\ executions \in [Orders -> Nat]
    /\ candle \in CandleRecords /\ check \in Checks
    /\ candle.number > 0 => candle.close \in Prices

\* What an order asks for is a price; a market order is never pending.
RowInv == \A o \in Orders :
    /\ row[o].status # "none" /\ row[o].kind # "market" => row[o].at \in Prices
    /\ row[o].status = "pending" => row[o].kind # "market"
    /\ \A x \in {row[o].tp, row[o].sl} : x = 0 \/ SellSlip < x

\* Market orders are filled by the HTTP threads and the others by the engine,
\* in the first part of its check; what a task has yet to trade has not been
\* traded, and what it has yet to enter has been.
TaskInv ==
    /\ \A a \in Actors :
         /\ Idle(a) => task[a].order = 0
         /\ ~Idle(a) => /\ task[a].order \in Orders /\ task[a].at \in Prices
                        /\ row[task[a].order].status # "none"
                        /\ (a = "http") <=> (row[task[a].order].kind = "market")
         /\ task[a].step \in {"begin", "close"} => executions[task[a].order] = 0
         /\ task[a].step = "reduce" => executions[task[a].order] = 1
    /\ ~Idle("engine") => check.pc = "orders"

\* What a check has yet to fill, and what is about to be cancelled.
QueueInv ==
    /\ \A o \in check.queue :
         /\ row[o].status \in {"pending", "cancelled"} /\ row[o].kind # "market"
         /\ executions[o] = 0 /\ task["engine"].order # o
    /\ cancelling # 0 => row[cancelling].status # "none" /\ row[cancelling].kind # "market"

\* The order that opened a position was executed.
OpenerInv == \A i \in PosIds :
    opener[i] # 0 => executions[opener[i]] = 1 /\ positions[i].state # "none"

\* What a check has seen of the brackets and left open is not to be closed.
BracketInv ==
    /\ check.left \subseteq check.list
    /\ \A i \in check.list : opener[i] # 0
    /\ check.pc = "positions" =>
         \A i \in check.list \ check.left : IsOpen(i) => ExitPrice(i, check.seen) = 0

\* The inductive invariant of the orders.
OrdersInv ==
    OrdersTypes /\ RowInv /\ TaskInv /\ QueueInv /\ RowsMatchTrades /\ OpenerInv /\ BracketInv

USE OrderAssumption, BracketAssumption

\* What the types say of an order, a task, a check and a position.
LEMMA OrdersTyped ==
  ASSUME OrdersTypes
  PROVE  /\ TypeOK /\ price \in Prices
         /\ positions \in [PosIds -> Position]
         /\ row \in [Orders -> Order] /\ task \in [Actors -> Task]
         /\ \A a \in Actors : /\ task[a] \in Task
                              /\ task[a].order \in Orders \cup {0}
                              /\ task[a].target \in PosIds \cup {0}
                              /\ ~Idle(a) => task[a].order \in Orders
         /\ \A o \in Orders : row[o] \in Order /\ row[o].qty \in Nat /\ row[o].at \in Nat
                              /\ row[o].tp \in Nat /\ row[o].sl \in Nat
         /\ opener \in [PosIds -> Orders \cup {0}]
         /\ executions \in [Orders -> Nat] /\ sold \in [PosIds -> Nat]
         /\ cancelling \in Orders \cup {0}
         /\ check.queue \subseteq Orders
         /\ check.list \subseteq PosIds /\ check.left \subseteq PosIds
BY DEF OrdersTypes, ManualTypeOK, TypeOK, Task, Order, Checks

\* The row of order o gets status s.
StatusSet(o, s) == row' = [row EXCEPT ![o].status = s]

\* Giving an order another status changes nothing else in its row.
LEMMA StatusChange ==
  ASSUME row \in [Orders -> Order], NEW o \in Orders,
         NEW s \in {"filled", "position", "closed", "cancelled", "rejected"}, StatusSet(o, s)
  PROVE  /\ row' \in [Orders -> Order]
         /\ \A p \in Orders :
              /\ row'[p].side = row[p].side /\ row'[p].kind = row[p].kind
              /\ row'[p].qty = row[p].qty /\ row'[p].at = row[p].at
              /\ row'[p].tp = row[p].tp /\ row'[p].sl = row[p].sl
              /\ row'[p].status = IF p = o THEN s ELSE row[p].status
<1> DEFINE r == row[o]
           new == [status |-> s, side |-> r.side, kind |-> r.kind, qty |-> r.qty,
                   at |-> r.at, tp |-> r.tp, sl |-> r.sl]
<1>1. r \in Order
  OBVIOUS
<1>2. [r EXCEPT !.status = s] = new
  <2> HIDE DEF r
  <2> QED  BY <1>1 DEF Order
<1>3. new \in Order
  <2> HIDE DEF r
  <2> QED  BY <1>1 DEF Order
<1>4. row' = [row EXCEPT ![o] = [r EXCEPT !.status = s]]
  BY DEF StatusSet
<1>5. row' = [row EXCEPT ![o] = new]
  BY <1>2, <1>4
<1>6. /\ new.side = r.side /\ new.kind = r.kind /\ new.qty = r.qty /\ new.at = r.at
      /\ new.tp = r.tp /\ new.sl = r.sl /\ new.status = s
  OBVIOUS
<1> HIDE DEF new
<1>7. row' \in [Orders -> Order]
  BY <1>3, <1>5
<1>8. row'[o] = new /\ \A p \in Orders : p # o => row'[p] = row[p]
  BY <1>5
<1> QED  BY <1>6, <1>7, <1>8

\* Initially nothing has been asked for and the invariant holds.
LEMMA OrdersStart == OrdersInit => OrdersInv
<1> SUFFICES ASSUME OrdersInit PROVE OrdersInv
  OBVIOUS
<1>1. TypeOK
  BY TypeInit DEF OrdersInit
<1>2. NoOrder \in Order /\ NoTask \in Task /\ NoCandle \in CandleRecords
  BY DEF NoOrder, Order, NoTask, Task, NoCandle, CandleRecords
<1>3. NoCheck \in Checks
  BY <1>2 DEF NoCheck, Checks
<1>4. OrdersTypes
  BY <1>1, <1>2, <1>3 DEF OrdersInit, OrdersTypes, ManualTypeOK, Idle, NoTask, NoCandle
<1>5. RowInv
  BY DEF OrdersInit, RowInv, NoOrder
<1>6. TaskInv /\ QueueInv
  <2>1. \A a \in Actors : task[a].step = "idle" /\ task[a].order = 0
    BY DEF OrdersInit, NoTask
  <2>2. Idle("engine")
    BY <2>1 DEF Actors, Idle
  <2>3. check.queue = {} /\ cancelling = 0
    BY DEF OrdersInit, NoCheck
  <2> QED  BY <2>1, <2>2, <2>3 DEF TaskInv, QueueInv, Idle
<1>7. RowsMatchTrades
  BY DEF OrdersInit, RowsMatchTrades, NoOrder
<1>8. OpenerInv /\ BracketInv
  BY DEF OrdersInit, OpenerInv, BracketInv, NoCheck
<1> QED  BY <1>4, <1>5, <1>6, <1>7, <1>8 DEF OrdersInv

\* A new candle changes nothing but the candle.
LEMMA NewCandleKeeps == ASSUME OrdersInv, NewCandle PROVE OrdersInv'
<1> USE DEF NewCandle, brokerVars
<1>1. candle' \in CandleRecords /\ (candle'.number > 0 => candle'.close \in Prices)
  BY DEF CandleRecords, OrdersInv, OrdersTypes
<1>2. OrdersTypes'
  BY <1>1 DEF OrdersInv, OrdersTypes, ManualTypeOK, TypeOK, Idle
<1>3. RowInv' /\ TaskInv' /\ QueueInv'
  BY DEF OrdersInv, RowInv, TaskInv, QueueInv, Idle
<1>4. RowsMatchTrades' /\ OpenerInv' /\ BracketInv'
  BY DEF OrdersInv, RowsMatchTrades, OpenerInv, BracketInv, InProgress, ExitPrice, IsOpen
<1> QED  BY <1>2, <1>3, <1>4 DEF OrdersInv

\* Reading an order to cancel it changes nothing else; the order is pending
\* and so is not a market order.
LEMMA CancelReadKeeps == ASSUME OrdersInv, NEW o \in Orders, CancelRead(o) PROVE OrdersInv'
<1> USE DEF CancelRead, brokerVars
<1>1. row[o].kind # "market"
  BY DEF OrdersInv, RowInv
<1>2. OrdersTypes'
  BY DEF OrdersInv, OrdersTypes, ManualTypeOK, TypeOK, Idle
<1>3. RowInv' /\ TaskInv'
  BY DEF OrdersInv, RowInv, TaskInv, Idle
<1>4. QueueInv'
  BY <1>1 DEF OrdersInv, QueueInv
<1>5. RowsMatchTrades' /\ OpenerInv' /\ BracketInv'
  BY DEF OrdersInv, RowsMatchTrades, OpenerInv, BracketInv, InProgress, ExitPrice, IsOpen
<1> QED  BY <1>2, <1>3, <1>4, <1>5 DEF OrdersInv

\* Cancelling touches no market order, and an order that has been executed in
\* the meantime is still one that was executed once.
LEMMA CancelWriteKeeps == ASSUME OrdersInv, CancelWrite PROVE OrdersInv'
<1> USE DEF CancelWrite, brokerVars
<1>0. cancelling \in Orders /\ row \in [Orders -> Order]
  BY OrdersTyped DEF OrdersInv
<1>1. row[cancelling].kind # "market" /\ row[cancelling].status # "none"
  BY DEF OrdersInv, QueueInv
<1> DEFINE o == cancelling
<1>2. /\ row' \in [Orders -> Order]
      /\ \A p \in Orders :
           /\ row'[p].side = row[p].side /\ row'[p].kind = row[p].kind
           /\ row'[p].qty = row[p].qty /\ row'[p].at = row[p].at
           /\ row'[p].tp = row[p].tp /\ row'[p].sl = row[p].sl
           /\ row'[p].status = IF p = o THEN "cancelled" ELSE row[p].status
  <2>1. StatusSet(o, "cancelled")
    BY DEF StatusSet
  <2> QED  BY <1>0, <2>1, StatusChange
<1>3. OrdersTypes'
  BY <1>2 DEF OrdersInv, OrdersTypes, ManualTypeOK, TypeOK, Idle
<1>4. RowInv'
  BY <1>0, <1>1, <1>2 DEF OrdersInv, RowInv
<1>5. TaskInv'
  BY <1>2, OrdersTyped DEF OrdersInv, TaskInv, Idle
<1>6. QueueInv'
  BY <1>2, OrdersTyped DEF OrdersInv, QueueInv
<1>7. RowsMatchTrades'
  BY <1>2 DEF OrdersInv, RowsMatchTrades, InProgress
<1>8. OpenerInv' /\ BracketInv'
  BY <1>2, OrdersTyped DEF OrdersInv, OpenerInv, BracketInv, ExitPrice, IsOpen
<1> QED  BY <1>3, <1>4, <1>5, <1>6, <1>7, <1>8 DEF OrdersInv

\* A placed order has been executed by nobody: it was no order before.
LEMMA PlacedIsNew ==
  ASSUME OrdersInv, NEW o \in Orders, row[o].status = "none"
  PROVE  /\ executions[o] = 0
         /\ \A a \in Actors : task[a].order # o
         /\ o \notin check.queue /\ o # cancelling
         /\ \A i \in PosIds : opener[i] # o
<1>0. o # 0
  BY DEF Orders
<1>1. \A a \in Actors : task[a].order # o
  BY <1>0 DEF OrdersInv, TaskInv
<1>2. executions[o] = 0
  BY <1>1 DEF OrdersInv, RowsMatchTrades, InProgress
<1>3. o \notin check.queue /\ o # cancelling
  BY <1>0 DEF OrdersInv, QueueInv
<1>4. \A i \in PosIds : opener[i] # o
  BY <1>0, <1>2 DEF OrdersInv, OpenerInv
<1> QED  BY <1>1, <1>2, <1>3, <1>4

\* A placed order disturbs no other; a market order starts its execution.
LEMMA PlaceKeeps ==
  ASSUME OrdersInv, NEW o \in Orders, NEW side \in {"buy", "sell"}, NEW kind \in Kinds,
         NEW qty \in Qtys, NEW b \in Brackets, NEW at \in IF kind = "market" THEN {0} ELSE Prices,
         Place(o, side, kind, qty, at, b)
  PROVE  OrdersInv'
<1> DEFINE st == IF kind = "market" THEN "filled" ELSE "pending"
           new == [status |-> st, side |-> side, kind |-> kind, qty |-> qty,
                   at |-> at, tp |-> b[1], sl |-> b[2]]
           t == [step |-> "begin", order |-> o, at |-> price, target |-> 0]
<1>0. /\ row \in [Orders -> Order] /\ task \in [Actors -> Task] /\ price \in Prices
      /\ "http" \in Actors /\ Prices \subseteq Nat
  BY OrdersTyped DEF OrdersInv, Actors
<1>1. /\ row[o].status = "none" /\ Idle("http")
      /\ row' = [row EXCEPT ![o] = new]
      /\ kind = "market" => task' = [task EXCEPT !["http"] = t]
      /\ kind # "market" => task' = task
      /\ UNCHANGED <<brokerVars, opener, check, cancelling, candle, sold, executions>>
  BY DEF Place, HttpFree
<1>2. /\ b[1] \in Nat /\ b[2] \in Nat
      /\ b[1] = 0 \/ SellSlip < b[1]
      /\ b[2] = 0 \/ SellSlip < b[2]
  <2>1. b[1] \in {b[1], b[2]} /\ b[2] \in {b[1], b[2]}
    OBVIOUS
  <2> QED  BY <2>1
<1>3. st \in {"filled", "pending"} /\ kind \in {"market", "limit", "stop"} /\ qty \in Nat /\ at \in Nat
  BY <1>0
<1>4. new \in Order
  <2> HIDE DEF st
  <2> QED  BY <1>2, <1>3 DEF Order
<1>5. /\ new.status = st /\ new.side = side /\ new.kind = kind /\ new.at = at
      /\ new.tp = b[1] /\ new.sl = b[2]
  OBVIOUS
<1>6. t \in Task /\ t.step = "begin" /\ t.order = o /\ t.at = price
  BY <1>0 DEF Task
<1> HIDE DEF new, t
<1>7. row' \in [Orders -> Order] /\ row'[o] = new /\ \A p \in Orders : p # o => row'[p] = row[p]
  BY <1>0, <1>1, <1>4
<1>8. /\ task' \in [Actors -> Task]
      /\ \A a \in Actors : task'[a] = IF a = "http" /\ kind = "market" THEN t ELSE task[a]
  BY <1>0, <1>1, <1>6
<1>9. /\ executions[o] = 0 /\ o \notin check.queue /\ o # cancelling
      /\ \A a \in Actors : task[a].order # o
      /\ \A i \in PosIds : opener[i] # o
  BY <1>1, PlacedIsNew
<1> USE DEF brokerVars
<1>10. OrdersTypes'
  <2>1. TypeOK'
    BY <1>1, OrdersTyped DEF OrdersInv, TypeOK
  <2>2. \A a \in Actors : /\ task'[a].step # "idle" => task'[a].order # 0
                          /\ task'[a].step \in {"close", "reduce"} => task'[a].target # 0
    <3> SUFFICES ASSUME NEW a \in Actors
                 PROVE  /\ task'[a].step # "idle" => task'[a].order # 0
                        /\ task'[a].step \in {"close", "reduce"} => task'[a].target # 0
      OBVIOUS
    <3>1. CASE task'[a] = t
      BY <1>6, <3>1 DEF Orders
    <3>2. CASE task'[a] = task[a]
      BY <3>2 DEF OrdersInv, OrdersTypes, ManualTypeOK, Idle
    <3> QED  BY <1>8, <3>1, <3>2
  <2> QED
    BY <1>1, <1>7, <1>8, <2>1, <2>2 DEF OrdersInv, OrdersTypes, ManualTypeOK, Idle
<1>11. RowInv'
  BY <1>2, <1>3, <1>5, <1>7 DEF OrdersInv, RowInv
<1>12. TaskInv'
  <2>1. ASSUME NEW a \in Actors, ~(a = "http" /\ kind = "market")
        PROVE  /\ task'[a] = task[a]
               /\ row'[task[a].order] = row[task[a].order] \/ task[a].order = 0
    BY <1>7, <1>8, <1>9, <2>1, OrdersTyped DEF OrdersInv
  <2>2. ASSUME kind = "market"
        PROVE  /\ task'["http"] = t /\ row'[t.order] = new /\ executions'[t.order] = 0
    BY <1>1, <1>6, <1>7, <1>8, <1>9, <2>2, <1>0
  <2>3. ASSUME NEW a \in Actors
        PROVE  /\ Idle(a)' => task'[a].order = 0
               /\ ~Idle(a)' => /\ task'[a].order \in Orders /\ task'[a].at \in Prices
                               /\ row'[task'[a].order].status # "none"
                               /\ (a = "http") <=> (row'[task'[a].order].kind = "market")
               /\ task'[a].step \in {"begin", "close"} => executions'[task'[a].order] = 0
               /\ task'[a].step = "reduce" => executions'[task'[a].order] = 1
    <3>1. CASE a = "http" /\ kind = "market"
      BY <1>0, <1>3, <1>5, <1>6, <2>2, <3>1 DEF Idle
    <3>2. CASE ~(a = "http" /\ kind = "market")
      BY <1>1, <2>1, <3>2, OrdersTyped DEF OrdersInv, TaskInv, Idle
    <3> QED  BY <3>1, <3>2
  <2>4. ~Idle("engine")' => check'.pc = "orders"
    <3>1. task'["engine"] = task["engine"]
      BY <1>8 DEF Actors
    <3> QED  BY <1>1, <3>1 DEF OrdersInv, TaskInv, Idle
  <2> QED  BY <2>3, <2>4 DEF TaskInv
<1>13. QueueInv'
  <2>1. task'["engine"] = task["engine"]
    BY <1>8 DEF Actors
  <2> QED  BY <1>1, <1>7, <1>9, <2>1, OrdersTyped DEF OrdersInv, QueueInv
<1>14. RowsMatchTrades'
  <2>1. executions' = executions
    BY <1>1
  <2>2. ASSUME NEW p \in Orders, p # o PROVE row'[p] = row[p] /\ (InProgress(p) => InProgress(p)')
    <3>1. ASSUME NEW a \in Actors, task[a].order = p PROVE task'[a].order = p
      <4>1. task["http"].order = 0 /\ p # 0
        BY <1>0, <1>1 DEF OrdersInv, TaskInv, Orders
      <4>2. a # "http"
        BY <3>1, <4>1
      <4> QED  BY <1>8, <3>1, <4>2
    <3> QED  BY <1>7, <2>2, <3>1 DEF InProgress
  <2> QED  BY <1>3, <1>5, <1>7, <1>9, <2>1, <2>2 DEF OrdersInv, RowsMatchTrades
<1>15. OpenerInv' /\ BracketInv'
  <2>1. \A i \in PosIds : opener[i] # 0 => row'[opener[i]] = row[opener[i]]
    BY <1>7, <1>9, OrdersTyped DEF OrdersInv
  <2> QED
    BY <1>1, <2>1, OrdersTyped DEF OrdersInv, OpenerInv, BracketInv, ExitPrice, IsOpen
<1> QED  BY <1>10, <1>11, <1>12, <1>13, <1>14, <1>15 DEF OrdersInv

\* An order in execution: placed, priced, waited for by no check, and nobody
\* else's.
LEMMA FillFacts ==
  ASSUME OrdersInv, NEW a \in Actors, ~Idle(a)
  PROVE  /\ task[a].order \in Orders /\ task[a].at \in Prices
         /\ row[task[a].order].status # "none" /\ row[task[a].order].qty \in Nat
         /\ task[a].order \notin check.queue
         /\ \A b \in Actors : b # a => task[b].order # task[a].order
<1>1. /\ task[a].order \in Orders /\ task[a].at \in Prices
      /\ row[task[a].order].status # "none"
      /\ (a = "http") <=> (row[task[a].order].kind = "market")
  BY DEF OrdersInv, TaskInv
<1>2. task[a].order \notin check.queue
  BY <1>1 DEF OrdersInv, QueueInv, Actors
<1>3. ASSUME NEW b \in Actors, b # a, task[b].order = task[a].order PROVE FALSE
  <2>1. ~Idle(b)
    BY <1>1, <1>3 DEF OrdersInv, TaskInv, Orders
  <2>2. (b = "http") <=> (row[task[b].order].kind = "market")
    BY <2>1 DEF OrdersInv, TaskInv
  <2> QED  BY <1>1, <1>3, <2>2 DEF Actors
<1> QED  BY <1>1, <1>2, <1>3, OrdersTyped DEF OrdersInv

\* An execution that ends with its order's row saying what was traded keeps
\* the rows, the tasks and the queues right.
LEMMA SettledKeeps ==
  ASSUME OrdersInv, NEW a \in Actors, ~Idle(a),
         NEW s \in {"position", "rejected", "closed"}, Settled(a, s),
         executions' \in [Orders -> Nat],
         \A p \in Orders : p # task[a].order => executions'[p] = executions[p],
         executions'[task[a].order] = IF s = "rejected" THEN 0 ELSE 1,
         UNCHANGED <<check, cancelling, candle>>,
         TypeOK', opener' \in [PosIds -> Orders \cup {0}], sold' \in [PosIds -> Nat]
  PROVE  /\ OrdersTypes' /\ RowInv' /\ TaskInv' /\ QueueInv' /\ RowsMatchTrades'
         /\ \A p \in Orders : row'[p].tp = row[p].tp /\ row'[p].sl = row[p].sl
<1> DEFINE o == task[a].order
<1>0. row \in [Orders -> Order] /\ task \in [Actors -> Task]
  BY OrdersTyped DEF OrdersInv
<1>1. /\ o \in Orders /\ row[o].status # "none" /\ o \notin check.queue
      /\ \A b \in Actors : b # a => task[b].order # o
  BY FillFacts
<1>2. row' = [row EXCEPT ![o].status = s] /\ task' = [task EXCEPT ![a] = NoTask]
  BY DEF Settled
<1>3. /\ row' \in [Orders -> Order]
      /\ \A p \in Orders :
           /\ row'[p].side = row[p].side /\ row'[p].kind = row[p].kind
           /\ row'[p].qty = row[p].qty /\ row'[p].at = row[p].at
           /\ row'[p].tp = row[p].tp /\ row'[p].sl = row[p].sl
           /\ row'[p].status = IF p = o THEN s ELSE row[p].status
  <2>1. StatusSet(o, s)
    BY <1>2 DEF StatusSet
  <2> QED  BY <1>0, <1>1, <2>1, StatusChange
<1> HIDE DEF o
<1>4. NoTask \in Task /\ NoTask.step = "idle" /\ NoTask.order = 0
  BY DEF NoTask, Task
<1>5. /\ task' \in [Actors -> Task] /\ task'[a] = NoTask
      /\ \A b \in Actors : b # a => task'[b] = task[b]
  BY <1>0, <1>2, <1>4
<1>6. \A p \in Orders : p # o => executions'[p] = executions[p]
  BY DEF o
<1>7. executions'[o] = IF s = "rejected" THEN 0 ELSE 1
  BY DEF o
<1>8. OrdersTypes'
  <2>1. \A b \in Actors : /\ task'[b].step # "idle" => task'[b].order # 0
                          /\ task'[b].step \in {"close", "reduce"} => task'[b].target # 0
    BY <1>4, <1>5 DEF OrdersInv, OrdersTypes, ManualTypeOK, Idle
  <2> QED
    BY <1>3, <1>5, <2>1 DEF OrdersInv, OrdersTypes, ManualTypeOK, Idle
<1>9. RowInv'
  <2>1. \A p \in Orders : row'[p].status = "pending" => row[p].status = "pending"
    BY <1>3
  <2>2. \A p \in Orders : row'[p].status # "none" => row[p].status # "none"
    BY <1>1, <1>3
  <2> QED  BY <1>3, <2>1, <2>2 DEF OrdersInv, RowInv
<1>10. TaskInv'
  <2>1. ASSUME NEW b \in Actors
        PROVE  /\ Idle(b)' => task'[b].order = 0
               /\ ~Idle(b)' => /\ task'[b].order \in Orders /\ task'[b].at \in Prices
                               /\ row'[task'[b].order].status # "none"
                               /\ (b = "http") <=> (row'[task'[b].order].kind = "market")
               /\ task'[b].step \in {"begin", "close"} => executions'[task'[b].order] = 0
               /\ task'[b].step = "reduce" => executions'[task'[b].order] = 1
    <3>1. CASE b = a
      BY <1>4, <1>5, <3>1 DEF Idle
    <3>2. CASE b # a
      <4>1. task'[b] = task[b] /\ task[b].order # o
        BY <1>1, <1>5, <3>2
      <4>2. CASE Idle(b)
        BY <4>1, <4>2 DEF OrdersInv, TaskInv, Idle
      <4>3. CASE ~Idle(b)
        <5>1. task[b].order \in Orders
          BY <4>3 DEF OrdersInv, TaskInv
        <5>2. /\ executions'[task[b].order] = executions[task[b].order]
              /\ row'[task[b].order].status = row[task[b].order].status
              /\ row'[task[b].order].kind = row[task[b].order].kind
          BY <1>3, <1>6, <4>1, <5>1
        <5> QED  BY <4>1, <4>3, <5>1, <5>2 DEF OrdersInv, TaskInv, Idle
      <4> QED  BY <4>2, <4>3
    <3> QED  BY <3>1, <3>2
  <2>2. ~Idle("engine")' => check'.pc = "orders"
    <3>1. "engine" \in Actors
      BY DEF Actors
    <3>2. ~Idle("engine")' => ~Idle("engine")
      BY <1>4, <1>5, <3>1 DEF Idle
    <3> QED  BY <3>2 DEF OrdersInv, TaskInv
  <2> QED  BY <2>1, <2>2 DEF TaskInv
<1>11. QueueInv'
  <2>1. ASSUME NEW p \in check.queue
        PROVE  /\ row'[p].status \in {"pending", "cancelled"} /\ row'[p].kind # "market"
               /\ executions'[p] = 0 /\ task'["engine"].order # p
    <3>1. p \in Orders /\ p # o /\ p # 0
      BY <1>1, OrdersTyped DEF OrdersInv, Orders
    <3>2. task'["engine"].order # p
      BY <1>4, <1>5, <3>1 DEF OrdersInv, QueueInv, Actors
    <3> QED  BY <1>3, <1>6, <3>1, <3>2 DEF OrdersInv, QueueInv
  <2>2. cancelling # 0 => row'[cancelling].status # "none" /\ row'[cancelling].kind # "market"
    BY <1>1, <1>3, OrdersTyped DEF OrdersInv, QueueInv
  <2> QED  BY <2>1, <2>2 DEF QueueInv
<1>12. RowsMatchTrades'
  <2>1. ASSUME NEW p \in Orders, p # o
        PROVE  (InProgress(p) => InProgress(p)') /\ row'[p].status = row[p].status
    <3>1. ASSUME NEW b \in Actors, task[b].order = p PROVE task'[b].order = p
      <4>1. b # a
        BY <2>1, <3>1 DEF o
      <4> QED  BY <1>5, <3>1, <4>1
    <3> QED  BY <1>3, <2>1, <3>1 DEF InProgress
  <2>2. row'[o].status = s
    BY <1>1, <1>3
  <2> QED  BY <1>6, <1>7, <2>1, <2>2 DEF OrdersInv, RowsMatchTrades
<1> QED  BY <1>3, <1>8, <1>9, <1>10, <1>11, <1>12

\* A rejected execution leaves no trade and a row that says so.
LEMMA FillRejectedKeeps ==
  ASSUME OrdersInv, NEW a \in Actors, FillBuyRejected(a) \/ FillSellRejected(a)
  PROVE  OrdersInv'
<1> DEFINE o == task[a].order
<1>1. /\ task[a].step = "begin" /\ Settled(a, "rejected")
      /\ UNCHANGED <<brokerVars, opener, check, cancelling, candle, sold, executions>>
  BY DEF FillBuyRejected, FillSellRejected, Filling
<1>2. ~Idle(a) /\ o \in Orders /\ executions[o] = 0
  BY <1>1, FillFacts DEF OrdersInv, TaskInv, Idle
<1>3. /\ OrdersTypes' /\ RowInv' /\ TaskInv' /\ QueueInv' /\ RowsMatchTrades'
      /\ \A p \in Orders : row'[p].tp = row[p].tp /\ row'[p].sl = row[p].sl
  <2>1. executions' \in [Orders -> Nat] /\ opener' \in [PosIds -> Orders \cup {0}]
        /\ sold' \in [PosIds -> Nat]
    BY <1>1, OrdersTyped DEF OrdersInv
  <2>2. TypeOK'
    BY <1>1, OrdersTyped DEF OrdersInv, TypeOK, brokerVars
  <2>3. executions' = executions /\ UNCHANGED <<check, cancelling, candle>>
    BY <1>1
  <2>4. executions'[o] = 0
    BY <1>2, <2>3
  <2> QED  BY <1>1, <1>2, <2>1, <2>2, <2>3, <2>4, SettledKeeps
<1>4. OpenerInv' /\ BracketInv'
  <2>1. \A i \in PosIds : opener[i] # 0 => /\ row'[opener[i]].tp = row[opener[i]].tp
                                          /\ row'[opener[i]].sl = row[opener[i]].sl
    BY <1>3, OrdersTyped DEF OrdersInv
  <2> QED
    BY <1>1, <2>1, OrdersTyped
       DEF OrdersInv, OpenerInv, BracketInv, ExitPrice, IsOpen, brokerVars
<1> QED  BY <1>3, <1>4 DEF OrdersInv

\* A filled buy opens a position no check has in its list.
LEMMA FillBuyKeeps ==
  ASSUME OrdersInv, NEW a \in Actors, FillBuy(a)
  PROVE  OrdersInv'
<1> DEFINE o == task[a].order
<1>1. /\ task[a].step = "begin" /\ Settled(a, "position")
      /\ executions' = [executions EXCEPT ![o] = @ + 1]
      /\ UNCHANGED <<check, cancelling, candle, sold>>
  BY DEF FillBuy, Filling, Executed
<1>2. ~Idle(a) /\ o \in Orders /\ executions[o] = 0 /\ task[a].at \in Prices /\ row[o].qty \in Nat
  BY <1>1, FillFacts DEF OrdersInv, TaskInv, Idle
<1>3. PICK i \in PosIds, slip \in BuySlips : /\ OpenLong(i, row[o].qty, task[a].at, slip)
                                             /\ opener' = [opener EXCEPT ![i] = o]
  BY DEF FillBuy
<1>4. TypeOK'
  <2>1. TypeOK /\ task[a].at \in Nat \ {0}
    BY <1>2, OrdersTyped DEF OrdersInv
  <2> QED  BY <1>2, <1>3, <2>1, BuyTypes
<1>5. /\ executions' \in [Orders -> Nat] /\ executions'[o] = 1
      /\ \A p \in Orders : p # o => executions'[p] = executions[p]
  BY <1>1, <1>2, OrdersTyped DEF OrdersInv
<1>6. /\ opener' \in [PosIds -> Orders \cup {0}] /\ opener'[i] = o
      /\ \A j \in PosIds : j # i => opener'[j] = opener[j]
  BY <1>2, <1>3, OrdersTyped DEF OrdersInv
<1>7. /\ OrdersTypes' /\ RowInv' /\ TaskInv' /\ QueueInv' /\ RowsMatchTrades'
      /\ \A p \in Orders : row'[p].tp = row[p].tp /\ row'[p].sl = row[p].sl
  <2>1. sold' \in [PosIds -> Nat]
    BY <1>1, OrdersTyped DEF OrdersInv
  <2> QED  BY <1>1, <1>2, <1>4, <1>5, <1>6, <2>1, SettledKeeps
<1>8. /\ positions[i].state = "none" /\ positions'[i].state = "open"
      /\ \A j \in PosIds : j # i => positions'[j] = positions[j]
  BY <1>3, OrdersTyped DEF OrdersInv, OpenLong, Fresh
<1>9. OpenerInv'
  <2> SUFFICES ASSUME NEW j \in PosIds, opener'[j] # 0
               PROVE  executions'[opener'[j]] = 1 /\ positions'[j].state # "none"
    BY DEF OpenerInv
  <2>1. CASE j = i
    BY <1>5, <1>6, <1>8, <2>1
  <2>2. CASE j # i
    <3>1. opener'[j] = opener[j] /\ opener[j] \in Orders /\ executions[opener[j]] = 1
          /\ positions[j].state # "none"
      BY <1>6, <2>2, OrdersTyped DEF OrdersInv, OpenerInv
    <3> QED  BY <1>2, <1>5, <1>8, <2>2, <3>1
  <2> QED  BY <2>1, <2>2
<1>10. BracketInv'
  <2>1. i \notin check.list
    BY <1>8 DEF OrdersInv, BracketInv, OpenerInv
  <2>2. ASSUME NEW j \in check.list
        PROVE  /\ opener'[j] = opener[j] /\ positions'[j] = positions[j]
               /\ row'[opener[j]].tp = row[opener[j]].tp /\ row'[opener[j]].sl = row[opener[j]].sl
    BY <1>6, <1>7, <1>8, <2>1, OrdersTyped DEF OrdersInv, BracketInv
  <2> QED  BY <1>1, <2>2 DEF OrdersInv, BracketInv, ExitPrice, IsOpen
<1> QED  BY <1>7, <1>9, <1>10 DEF OrdersInv

\* The task of actor a gets to step s, with position i.
Advanced(a, s, i) ==
    task' = [task EXCEPT ![a] = [step |-> s, order |-> task[a].order, at |-> task[a].at,
                                 target |-> i]]

\* A step inside an execution that keeps count of the trade keeps the rows,
\* the tasks and the queues right.
LEMMA AdvanceKeeps ==
  ASSUME OrdersInv, NEW a \in Actors, ~Idle(a), task[a].step # "reduce", NEW i \in PosIds,
         NEW s \in {"close", "reduce"}, Advanced(a, s, i),
         executions' \in [Orders -> Nat],
         \A p \in Orders : p # task[a].order => executions'[p] = executions[p],
         executions'[task[a].order] = IF s = "close" THEN 0 ELSE 1,
         UNCHANGED <<row, opener, check, cancelling, candle>>,
         TypeOK', sold' \in [PosIds -> Nat]
  PROVE  OrdersTypes' /\ RowInv' /\ TaskInv' /\ QueueInv' /\ RowsMatchTrades'
<1> DEFINE o == task[a].order
           t == [step |-> s, order |-> o, at |-> task[a].at, target |-> i]
<1>0. task \in [Actors -> Task] /\ task[a] \in Task /\ task[a].at \in Nat
  BY OrdersTyped DEF OrdersInv, Task
<1>1. /\ o \in Orders /\ row[o].status # "none" /\ o \notin check.queue
      /\ task[a].at \in Prices
      /\ \A b \in Actors : b # a => task[b].order # o
  BY FillFacts
<1>2. t \in Task
  BY <1>0, <1>1 DEF Task
<1>3. t.step = s /\ t.order = o /\ t.at = task[a].at /\ t.target = i
  OBVIOUS
<1>4. /\ task' \in [Actors -> Task] /\ task'[a] = t
      /\ \A b \in Actors : b # a => task'[b] = task[b]
  BY <1>0, <1>2 DEF Advanced
<1>5. /\ \A p \in Orders : p # o => executions'[p] = executions[p]
      /\ executions'[o] = IF s = "close" THEN 0 ELSE 1
  OBVIOUS
<1> HIDE DEF t, o
<1>6. OrdersTypes'
  <2>1. ASSUME NEW b \in Actors
        PROVE  /\ task'[b].step # "idle" => task'[b].order # 0
               /\ task'[b].step \in {"close", "reduce"} => task'[b].target # 0
    <3>1. CASE b = a
      BY <1>1, <1>3, <1>4, <3>1 DEF PosIds, Orders
    <3>2. CASE b # a
      BY <1>4, <3>2 DEF OrdersInv, OrdersTypes, ManualTypeOK, Idle
    <3> QED  BY <3>1, <3>2
  <2> QED
    BY <1>4, <2>1 DEF OrdersInv, OrdersTypes, ManualTypeOK, Idle
<1>7. RowInv'
  BY DEF OrdersInv, RowInv
<1>8. TaskInv'
  <2>1. ASSUME NEW b \in Actors
        PROVE  /\ Idle(b)' => task'[b].order = 0
               /\ ~Idle(b)' => /\ task'[b].order \in Orders /\ task'[b].at \in Prices
                               /\ row'[task'[b].order].status # "none"
                               /\ (b = "http") <=> (row'[task'[b].order].kind = "market")
               /\ task'[b].step \in {"begin", "close"} => executions'[task'[b].order] = 0
               /\ task'[b].step = "reduce" => executions'[task'[b].order] = 1
    <3>1. CASE b = a
      <4>1. (a = "http") <=> (row[o].kind = "market")
        BY DEF OrdersInv, TaskInv, o
      <4> QED  BY <1>1, <1>3, <1>4, <1>5, <3>1, <4>1 DEF Idle
    <3>2. CASE b # a
      <4>1. task'[b] = task[b] /\ task[b].order # o
        BY <1>1, <1>4, <3>2
      <4>2. CASE Idle(b)
        BY <4>1, <4>2 DEF OrdersInv, TaskInv, Idle
      <4>3. CASE ~Idle(b)
        <5>1. task[b].order \in Orders
          BY <4>3 DEF OrdersInv, TaskInv
        <5>2. executions'[task[b].order] = executions[task[b].order]
          BY <1>5, <4>1, <5>1
        <5> QED  BY <4>1, <4>3, <5>1, <5>2 DEF OrdersInv, TaskInv, Idle
      <4> QED  BY <4>2, <4>3
    <3> QED  BY <3>1, <3>2
  <2>2. ~Idle("engine")' => check'.pc = "orders"
    <3>1. ~Idle("engine")' => ~Idle("engine")
      BY <1>4 DEF Idle, Actors
    <3> QED  BY <3>1 DEF OrdersInv, TaskInv
  <2> QED  BY <2>1, <2>2 DEF TaskInv
<1>9. QueueInv'
  <2>1. ASSUME NEW p \in check.queue
        PROVE  executions'[p] = 0 /\ task'["engine"].order # p
    <3>1. p \in Orders /\ p # o
      BY <1>1, OrdersTyped DEF OrdersInv
    <3>2. task'["engine"].order # p
      BY <1>3, <1>4, <3>1 DEF OrdersInv, QueueInv, Actors
    <3> QED  BY <1>5, <3>1, <3>2 DEF OrdersInv, QueueInv
  <2> QED  BY <2>1 DEF OrdersInv, QueueInv
<1>10. RowsMatchTrades'
  <2>1. ASSUME NEW p \in Orders, p = o PROVE InProgress(p)'
    BY <1>3, <1>4, <2>1 DEF InProgress
  <2>2. ASSUME NEW p \in Orders, p # o PROVE InProgress(p) => InProgress(p)'
    <3>1. ASSUME NEW b \in Actors, task[b].order = p PROVE task'[b].order = p
      <4>1. b # a
        BY <2>2, <3>1 DEF o
      <4> QED  BY <1>4, <3>1, <4>1
    <3> QED  BY <3>1 DEF InProgress
  <2>3. row[o].status \notin {"position", "closed"}
    <3>1. task[a].step \in {"begin", "close"}
      BY <1>0 DEF Task, Idle
    <3>2. executions[o] = 0
      BY <3>1 DEF OrdersInv, TaskInv, o
    <3> QED  BY <1>1, <3>2 DEF OrdersInv, RowsMatchTrades
  <2> QED  BY <1>5, <2>1, <2>2, <2>3 DEF OrdersInv, RowsMatchTrades
<1> QED  BY <1>6, <1>7, <1>8, <1>9, <1>10

\* Finding a position to sell from changes nothing but the task.
LEMMA FillSellFoundKeeps ==
  ASSUME OrdersInv, NEW a \in Actors, FillSellFound(a)
  PROVE  OrdersInv'
<1>1. PICK i \in PosIds : task' = [task EXCEPT ![a].step = "close", ![a].target = i]
  BY DEF FillSellFound, Inventory
<1>2. /\ task[a].step = "begin"
      /\ UNCHANGED <<brokerVars, row, opener, check, cancelling, candle, sold, executions>>
  BY DEF FillSellFound, Filling
<1>3. task \in [Actors -> Task] /\ task[a] \in Task /\ ~Idle(a)
  BY <1>2, OrdersTyped DEF OrdersInv, Idle
<1>4. Advanced(a, "close", i)
  <2>1. [task[a] EXCEPT !.step = "close", !.target = i]
          = [step |-> "close", order |-> task[a].order, at |-> task[a].at, target |-> i]
    <3>1. ASSUME NEW r \in Task
          PROVE  [r EXCEPT !.step = "close", !.target = i]
                   = [step |-> "close", order |-> r.order, at |-> r.at, target |-> i]
      <4> DEFINE x == [r EXCEPT !.step = "close", !.target = i]
                 y == [step |-> "close", order |-> r.order, at |-> r.at, target |-> i]
      <4>1. DOMAIN x = DOMAIN y
        BY DEF Task
      <4>2. x.step = y.step /\ x.order = y.order /\ x.at = y.at /\ x.target = y.target
        BY DEF Task
      <4>3. x = [f \in DOMAIN y |-> x[f]] /\ y = [f \in DOMAIN y |-> y[f]]
        BY <4>1 DEF Task
      <4> QED  BY <4>1, <4>2, <4>3
    <3> QED  BY <1>3, <3>1
  <2> QED  BY <1>1, <1>3, <2>1 DEF Advanced
<1>5. executions[task[a].order] = 0 /\ executions' = executions
  BY <1>2 DEF OrdersInv, TaskInv
<1>6. OrdersTypes' /\ RowInv' /\ TaskInv' /\ QueueInv' /\ RowsMatchTrades'
  <2>1. TypeOK'
    BY <1>2, OrdersTyped DEF OrdersInv, TypeOK, brokerVars
  <2>2. executions' \in [Orders -> Nat] /\ sold' \in [PosIds -> Nat]
    BY <1>2, OrdersTyped DEF OrdersInv
  <2> QED  BY <1>2, <1>3, <1>4, <1>5, <2>1, <2>2, AdvanceKeeps
<1>7. OpenerInv' /\ BracketInv'
  BY <1>2 DEF OrdersInv, OpenerInv, BracketInv, ExitPrice, IsOpen, brokerVars
<1> QED  BY <1>6, <1>7 DEF OrdersInv

\* Closing more than the position holds keeps the account well-typed too.
LEMMA UncoveredTypes ==
  ASSUME TypeOK, NEW i \in PosIds, NEW q \in Nat, NEW at \in Nat, SellSlip <= at,
         CloseUncovered(i, q, at)
  PROVE  TypeOK'
<1> DEFINE pnl == positions[i].pnl + ClosePnl(i, q, at)
<1>1. /\ positions[i] \in Position
      /\ positions[i].entry \in Nat /\ positions[i].pnl \in Int
      /\ positions[i].notional \in Nat
  BY DEF TypeOK, Position
<1>2. SellFill(at) \in Nat
  BY DEF SellFill
<1>3. ClosePnl(i, q, at) \in Int
  BY <1>1, <1>2 DEF ClosePnl
<1>4. pnl \in Int
  BY <1>1, <1>3
<1>5. positions' = [positions EXCEPT ![i] = [@ EXCEPT !.qty = 0, !.state = "closed", !.pnl = pnl]]
  BY <1>1 DEF CloseUncovered, TypeOK
<1> HIDE DEF pnl
<1>6. [positions[i] EXCEPT !.qty = 0, !.state = "closed", !.pnl = pnl] \in Position
  BY <1>1, <1>4 DEF Position
<1>7. positions' \in [PosIds -> Position]
  BY <1>5, <1>6 DEF TypeOK
<1>8. q * SellFill(at) * (Scale - FeeRate) \in Int
  BY <1>2
<1>9. cash' \in Int
  BY <1>8 DEF CloseUncovered, TypeOK
<1> QED  BY <1>7, <1>9 DEF CloseUncovered, TypeOK

\* A sell opens no position.
LEMMA SellOpensNothing ==
  ASSUME TypeOK, NEW i \in PosIds, NEW q, NEW at, CloseLong(i, q, at) \/ CloseUncovered(i, q, at)
  PROVE  /\ \A j \in PosIds : positions'[j].state = "open" => positions[j].state = "open"
         /\ \A j \in PosIds : positions[j].state # "none" => positions'[j].state # "none"
<1>1. positions \in [PosIds -> Position]
  BY DEF TypeOK
<1>2. \A j \in PosIds : j # i => positions'[j] = positions[j]
  BY <1>1 DEF CloseLong, CloseUncovered
<1>3. CloseLong(i, q, at) => positions[i].state = "open" /\ positions'[i].state \in {"open", "closed"}
  BY <1>1 DEF CloseLong, IsOpen, Position
<1>4. CloseUncovered(i, q, at) => positions'[i].state = "closed"
  BY <1>1 DEF CloseUncovered, Position
<1> QED  BY <1>2, <1>3, <1>4

\* Selling from a position counts as the order's one trade.
LEMMA FillSellCloseKeeps ==
  ASSUME OrdersInv, NEW a \in Actors, FillSellClose(a)
  PROVE  OrdersInv'
<1> DEFINE i == task[a].target
           o == task[a].order
           q == row[o].qty
<1>1. /\ task[a].step = "close"
      /\ CloseLong(i, q, task[a].at) \/ CloseUncovered(i, q, task[a].at)
      /\ sold' = [sold EXCEPT ![i] = @ + q]
      /\ task' = [task EXCEPT ![a].step = "reduce"]
      /\ executions' = [executions EXCEPT ![o] = @ + 1]
      /\ UNCHANGED <<row, opener, check, cancelling, candle>>
  BY DEF FillSellClose, Filling, Executed
<1>2. task \in [Actors -> Task] /\ task[a] \in Task /\ ~Idle(a)
  BY <1>1, OrdersTyped DEF OrdersInv, Idle
<1>3. /\ o \in Orders /\ q \in Nat /\ task[a].at \in Prices
      /\ i \in PosIds /\ executions[o] = 0
  <2>1. i \in PosIds
    BY <1>1, <1>2 DEF OrdersInv, OrdersTypes, ManualTypeOK, Task
  <2>2. executions[o] = 0
    BY <1>1 DEF OrdersInv, TaskInv
  <2> QED  BY <1>2, <2>1, <2>2, FillFacts
<1>4. task[a].at \in Nat /\ SellSlip <= task[a].at
  <2>1. \A p \in Prices : p \in Nat /\ SellSlip <= p
    OBVIOUS
  <2> QED  BY <1>3, <2>1
<1>5. TypeOK /\ positions[i].qty \in Nat /\ executions \in [Orders -> Nat] /\ sold \in [PosIds -> Nat]
  BY <1>3, OrdersTyped DEF OrdersInv, Position
<1> HIDE DEF i, o, q
<1>6. TypeOK'
  <2>1. CASE CloseLong(i, q, task[a].at)
    <3>1. q \in 0..positions[i].qty
      BY <2>1 DEF CloseLong
    <3> QED  BY <1>3, <1>4, <1>5, <2>1, <3>1, SellTypes
  <2>2. CASE CloseUncovered(i, q, task[a].at)
    BY <1>3, <1>4, <1>5, <2>2, UncoveredTypes
  <2> QED  BY <1>1, <2>1, <2>2
<1>7. Advanced(a, "reduce", i)
  <2>1. [task[a] EXCEPT !.step = "reduce"]
          = [step |-> "reduce", order |-> task[a].order, at |-> task[a].at, target |-> i]
    BY <1>2 DEF Task, i
  <2>2. task' = [task EXCEPT ![a] = [task[a] EXCEPT !.step = "reduce"]]
    BY <1>1
  <2> QED  BY <2>1, <2>2 DEF Advanced
<1>8. /\ executions' \in [Orders -> Nat] /\ executions'[o] = 1
      /\ \A p \in Orders : p # o => executions'[p] = executions[p]
      /\ sold' \in [PosIds -> Nat]
  BY <1>1, <1>3, <1>5
<1>9. OrdersTypes' /\ RowInv' /\ TaskInv' /\ QueueInv' /\ RowsMatchTrades'
  BY <1>1, <1>2, <1>3, <1>6, <1>7, <1>8, AdvanceKeeps DEF o
<1>10. /\ \A j \in PosIds : positions'[j].state = "open" => positions[j].state = "open"
       /\ \A j \in PosIds : positions[j].state # "none" => positions'[j].state # "none"
  BY <1>1, <1>3, <1>5, SellOpensNothing
<1>11. OpenerInv'
  BY <1>1, <1>3, <1>8, <1>10, OrdersTyped DEF OrdersInv, OpenerInv
<1>12. BracketInv'
  BY <1>1, <1>10, OrdersTyped DEF OrdersInv, BracketInv, ExitPrice, IsOpen
<1> QED  BY <1>9, <1>11, <1>12 DEF OrdersInv

\* Taking the quantity off once more and saving the row as closed: the trade
\* was counted when it was made.
LEMMA FillSellReduceKeeps ==
  ASSUME OrdersInv, NEW a \in Actors, FillSellReduce(a)
  PROVE  OrdersInv'
<1> DEFINE i == task[a].target
           o == task[a].order
           q == row[o].qty
           left == IF positions[i].qty > q THEN positions[i].qty - q ELSE 0
<1>1. /\ task[a].step = "reduce" /\ Settled(a, "closed")
      /\ positions' = [positions EXCEPT ![i].qty = left]
      /\ UNCHANGED <<cash, startingCapital, reserved, price, funding, entryFees,
                     opener, check, cancelling, candle, sold, executions>>
  BY DEF FillSellReduce, Filling
<1>2. task[a] \in Task /\ ~Idle(a) /\ TypeOK /\ positions \in [PosIds -> Position]
  BY <1>1, OrdersTyped DEF OrdersInv, Idle
<1>3. o \in Orders /\ q \in Nat /\ i \in PosIds /\ executions[o] = 1
  <2>1. i \in PosIds
    BY <1>1, <1>2 DEF OrdersInv, OrdersTypes, ManualTypeOK, Task
  <2>2. executions[o] = 1
    BY <1>1 DEF OrdersInv, TaskInv
  <2> QED  BY <1>2, <2>1, <2>2, FillFacts
<1>4. left \in Nat
  <2>1. positions[i].qty \in Nat
    BY <1>2, <1>3 DEF Position
  <2> QED  BY <1>3, <2>1
<1> HIDE DEF i, o, q, left
<1>5. /\ positions' \in [PosIds -> Position]
      /\ \A j \in PosIds : positions'[j].state = positions[j].state
  <2>1. [positions[i] EXCEPT !.qty = left] \in Position
    BY <1>2, <1>3, <1>4 DEF Position
  <2>2. [positions[i] EXCEPT !.qty = left].state = positions[i].state
    BY <1>2, <1>3 DEF Position
  <2>3. positions' = [positions EXCEPT ![i] = [positions[i] EXCEPT !.qty = left]]
    BY <1>1
  <2> HIDE DEF left
  <2> QED  BY <1>2, <1>3, <2>1, <2>2, <2>3
<1>6. TypeOK'
  BY <1>1, <1>2, <1>5 DEF TypeOK
<1>7. /\ OrdersTypes' /\ RowInv' /\ TaskInv' /\ QueueInv' /\ RowsMatchTrades'
      /\ \A p \in Orders : row'[p].tp = row[p].tp /\ row'[p].sl = row[p].sl
  <2>1. executions' \in [Orders -> Nat] /\ opener' \in [PosIds -> Orders \cup {0}]
        /\ sold' \in [PosIds -> Nat]
    BY <1>1, OrdersTyped DEF OrdersInv
  <2>2. /\ executions' = executions /\ executions'[o] = 1
        /\ UNCHANGED <<check, cancelling, candle>>
    BY <1>1, <1>3
  <2> QED  BY <1>1, <1>2, <1>6, <2>1, <2>2, SettledKeeps DEF o
<1>8. OpenerInv'
  BY <1>1, <1>5 DEF OrdersInv, OpenerInv
<1>9. BracketInv'
  <2>1. \A j \in PosIds : opener[j] # 0 => /\ row'[opener[j]].tp = row[opener[j]].tp
                                          /\ row'[opener[j]].sl = row[opener[j]].sl
    BY <1>7, OrdersTyped DEF OrdersInv
  <2> QED
    BY <1>1, <1>5, <2>1, OrdersTyped DEF OrdersInv, BracketInv, ExitPrice, IsOpen
<1> QED  BY <1>7, <1>8, <1>9 DEF OrdersInv

\* The queue of a check holds pending orders, which nobody has executed.
LEMMA CheckBeginKeeps == ASSUME OrdersInv, CheckBegin PROVE OrdersInv'
<1>1. /\ Idle("engine") /\ candle.number > 0 /\ SetPrice(candle.close)
      /\ UNCHANGED <<row, opener, task, cancelling, candle, sold, executions>>
  BY DEF CheckBegin
<1>2. /\ check'.pc = "orders" /\ check'.list = {} /\ check'.left = {}
      /\ check'.queue \subseteq {o \in Orders : row[o].status = "pending"}
      /\ check' \in Checks
  <2> DEFINE q == {o \in Orders : row[o].status = "pending" /\ Touched(o, candle)}
  <2>1. check' = [NoCheck EXCEPT !.pc = "orders", !.seen = candle, !.queue = q]
    BY DEF CheckBegin
  <2>2. q \subseteq {o \in Orders : row[o].status = "pending"}
    OBVIOUS
  <2> HIDE DEF q
  <2>3. check' = [pc |-> "orders", queue |-> q, list |-> {}, left |-> {}, seen |-> candle]
    BY <2>1 DEF NoCheck
  <2> QED  BY <2>2, <2>3 DEF Checks, OrdersInv, OrdersTypes
<1>3. ASSUME NEW o \in Orders, row[o].status = "pending"
      PROVE  row[o].kind # "market" /\ executions[o] = 0 /\ task["engine"].order # o
  <2>1. row[o].kind # "market"
    BY <1>3 DEF OrdersInv, RowInv
  <2>2. task["engine"].order = 0 /\ o # 0
    BY <1>1 DEF OrdersInv, TaskInv, Actors, Orders
  <2>3. \A a \in Actors : task[a].order # o
    BY <2>1, <2>2 DEF OrdersInv, TaskInv, Actors
  <2> QED  BY <1>3, <2>1, <2>2, <2>3 DEF OrdersInv, RowsMatchTrades, InProgress
<1>4. OrdersTypes'
  <2>1. TypeOK'
    BY <1>1, OrdersTyped DEF OrdersInv, OrdersTypes, SetPrice, TypeOK
  <2> QED  BY <1>1, <1>2, <2>1 DEF OrdersInv, OrdersTypes, ManualTypeOK, Idle
<1>5. RowInv' /\ TaskInv'
  BY <1>1, <1>2 DEF OrdersInv, RowInv, TaskInv, Idle
<1>6. QueueInv'
  BY <1>1, <1>2, <1>3 DEF OrdersInv, QueueInv
<1>7. RowsMatchTrades' /\ OpenerInv' /\ BracketInv'
  BY <1>1, <1>2 DEF OrdersInv, RowsMatchTrades, InProgress, OpenerInv, BracketInv, SetPrice
<1> QED  BY <1>4, <1>5, <1>6, <1>7 DEF OrdersInv

\* An order taken off the queue goes into execution.
LEMMA CheckOrderKeeps == ASSUME OrdersInv, NEW o \in Orders, CheckOrder(o) PROVE OrdersInv'
<1> DEFINE t == [step |-> "begin", order |-> o, at |-> row[o].at, target |-> 0]
           c == [check EXCEPT !.queue = @ \ {o}]
<1>1. /\ check.pc = "orders" /\ Idle("engine") /\ o \in check.queue
      /\ check' = c /\ task' = [task EXCEPT !["engine"] = t]
      /\ UNCHANGED <<brokerVars, row, opener, cancelling, candle, sold, executions>>
  BY DEF CheckOrder
<1>2. /\ row[o].status \in {"pending", "cancelled"} /\ row[o].kind # "market" /\ executions[o] = 0
      /\ row[o].at \in Prices /\ row[o].at \in Nat
  <2>1. row[o].status \in {"pending", "cancelled"} /\ row[o].kind # "market" /\ executions[o] = 0
    BY <1>1 DEF OrdersInv, QueueInv
  <2> QED  BY <2>1 DEF OrdersInv, RowInv
<1>3. t \in Task /\ t.step = "begin" /\ t.order = o /\ t.at = row[o].at
  BY <1>2 DEF Task
<1>4. /\ c.pc = "orders" /\ c.queue = check.queue \ {o} /\ c.list = check.list
      /\ c.left = check.left /\ c.seen = check.seen /\ c \in Checks
  BY <1>1 DEF OrdersInv, OrdersTypes, Checks
<1>5. task \in [Actors -> Task] /\ "engine" \in Actors
  BY OrdersTyped DEF OrdersInv, Actors
<1> HIDE DEF t, c
<1>6. /\ task' \in [Actors -> Task] /\ task'["engine"] = t
      /\ \A b \in Actors : b # "engine" => task'[b] = task[b]
  BY <1>1, <1>3, <1>5
<1>7. OrdersTypes'
  <2>1. ASSUME NEW b \in Actors
        PROVE  /\ task'[b].step # "idle" => task'[b].order # 0
               /\ task'[b].step \in {"close", "reduce"} => task'[b].target # 0
    <3>1. CASE b = "engine"
      BY <1>3, <1>6, <3>1 DEF Orders
    <3>2. CASE b # "engine"
      BY <1>6, <3>2 DEF OrdersInv, OrdersTypes, ManualTypeOK, Idle
    <3> QED  BY <3>1, <3>2
  <2>2. TypeOK'
    BY <1>1, OrdersTyped DEF OrdersInv, TypeOK, brokerVars
  <2> QED
    BY <1>1, <1>4, <1>6, <2>1, <2>2 DEF OrdersInv, OrdersTypes, ManualTypeOK, Idle
<1>8. RowInv'
  BY <1>1 DEF OrdersInv, RowInv
<1>9. TaskInv'
  <2>1. ASSUME NEW b \in Actors
        PROVE  /\ Idle(b)' => task'[b].order = 0
               /\ ~Idle(b)' => /\ task'[b].order \in Orders /\ task'[b].at \in Prices
                               /\ row'[task'[b].order].status # "none"
                               /\ (b = "http") <=> (row'[task'[b].order].kind = "market")
               /\ task'[b].step \in {"begin", "close"} => executions'[task'[b].order] = 0
               /\ task'[b].step = "reduce" => executions'[task'[b].order] = 1
    <3>1. CASE b = "engine"
      BY <1>1, <1>2, <1>3, <1>6, <3>1 DEF Idle
    <3>2. CASE b # "engine"
      BY <1>1, <1>6, <3>2 DEF OrdersInv, TaskInv, Idle
    <3> QED  BY <3>1, <3>2
  <2> QED  BY <1>1, <1>4, <2>1 DEF TaskInv
<1>10. QueueInv'
  BY <1>1, <1>3, <1>4, <1>6 DEF OrdersInv, QueueInv
<1>11. RowsMatchTrades'
  <2>1. ASSUME NEW p \in Orders, NEW b \in Actors, task[b].order = p PROVE InProgress(p)'
    <3>1. b # "engine"
      BY <1>1, <2>1 DEF OrdersInv, TaskInv, Orders
    <3> QED  BY <1>6, <2>1, <3>1 DEF InProgress
  <2>2. \A p \in Orders : InProgress(p) => InProgress(p)'
    BY <2>1 DEF InProgress
  <2> QED  BY <1>1, <2>2 DEF OrdersInv, RowsMatchTrades
<1>12. OpenerInv' /\ BracketInv'
  BY <1>1, <1>4 DEF OrdersInv, OpenerInv, BracketInv, brokerVars
<1> QED  BY <1>7, <1>8, <1>9, <1>10, <1>11, <1>12 DEF OrdersInv

\* A check that only moves on through its lists keeps the rest: what it
\* stops looking at is not to be closed.
LEMMA CheckMovesKeep ==
  ASSUME OrdersInv, check' \in Checks,
         UNCHANGED <<brokerVars, row, opener, task, cancelling, candle, sold, executions>>,
         check'.queue \subseteq check.queue,
         ~Idle("engine") => check'.pc = "orders",
         BracketInv'
  PROVE  OrdersInv'
<1>1. OrdersTypes'
  BY DEF OrdersInv, OrdersTypes, ManualTypeOK, TypeOK, Idle, brokerVars
<1>2. RowInv' /\ TaskInv'
  BY DEF OrdersInv, RowInv, TaskInv, Idle
<1>3. QueueInv'
  BY DEF OrdersInv, QueueInv
<1>4. RowsMatchTrades' /\ OpenerInv'
  BY DEF OrdersInv, RowsMatchTrades, InProgress, OpenerInv, brokerVars
<1> QED  BY <1>1, <1>2, <1>3, <1>4 DEF OrdersInv

\* Once its orders are filled a check lists the positions opened by hand.
LEMMA CheckPositionsKeeps == ASSUME OrdersInv, CheckPositions PROVE OrdersInv'
<1> DEFINE l == {i \in PosIds : opener[i] # 0}
<1>1. /\ Idle("engine")
      /\ check' = [check EXCEPT !.pc = "positions", !.list = l, !.left = l]
      /\ UNCHANGED <<brokerVars, row, opener, task, cancelling, candle, sold, executions>>
  BY DEF CheckPositions
<1>2. l \subseteq PosIds /\ \A i \in l : opener[i] # 0
  OBVIOUS
<1> HIDE DEF l
<1>3. /\ check' \in Checks /\ check'.queue = check.queue
      /\ check'.list = l /\ check'.left = l
  BY <1>1, <1>2 DEF OrdersInv, OrdersTypes, Checks
<1>4. BracketInv'
  BY <1>1, <1>2, <1>3 DEF BracketInv
<1> QED  BY <1>1, <1>3, <1>4, CheckMovesKeep

\* A position the candle does not take out is one whose bracket it missed.
LEMMA CheckNoExitKeeps == ASSUME OrdersInv, NEW i \in PosIds, CheckNoExit(i) PROVE OrdersInv'
<1>1. /\ check.pc = "positions" /\ i \in check.left /\ ~Exits(i)
      /\ check' = [check EXCEPT !.left = @ \ {i}]
      /\ UNCHANGED <<brokerVars, row, opener, task, cancelling, candle, sold, executions>>
  BY DEF CheckNoExit
<1>2. /\ check' \in Checks /\ check'.pc = check.pc /\ check'.queue = check.queue
      /\ check'.list = check.list /\ check'.left = check.left \ {i} /\ check'.seen = check.seen
  BY <1>1 DEF OrdersInv, OrdersTypes, Checks
<1>3. ~Idle("engine") => check'.pc = "orders"
  BY <1>1 DEF OrdersInv, TaskInv
<1>4. BracketInv'
  BY <1>1, <1>2 DEF OrdersInv, BracketInv, Exits, ExitPrice, IsOpen, brokerVars
<1> QED  BY <1>1, <1>2, <1>3, <1>4, CheckMovesKeep

\* The check is over and holds nothing.
LEMMA CheckEndKeeps == ASSUME OrdersInv, CheckEnd PROVE OrdersInv'
<1>1. /\ check.pc = "positions" /\ check' = NoCheck
      /\ UNCHANGED <<brokerVars, row, opener, task, cancelling, candle, sold, executions>>
  BY DEF CheckEnd
<1>2. NoCheck \in Checks /\ NoCheck.queue = {} /\ NoCheck.list = {} /\ NoCheck.left = {}
      /\ NoCheck.pc = "idle"
  BY DEF NoCheck, NoCandle, Checks, CandleRecords
<1>3. ~Idle("engine") => check'.pc = "orders"
  BY <1>1 DEF OrdersInv, TaskInv
<1>4. BracketInv'
  BY <1>1, <1>2 DEF BracketInv
<1> QED  BY <1>1, <1>2, <1>3, <1>4, CheckMovesKeep

\* A bracket that takes a position out closes all of it, and the row of the
\* order that opened it says so.
LEMMA CheckExitKeeps == ASSUME OrdersInv, NEW i \in PosIds, CheckExit(i) PROVE OrdersInv'
<1> DEFINE o == opener[i]
           at == ExitPrice(i, check.seen)
           q == positions[i].qty
<1>1. /\ check.pc = "positions" /\ i \in check.left /\ Exits(i)
      /\ CloseLong(i, q, at)
      /\ sold' = [sold EXCEPT ![i] = @ + q]
      /\ row' = [row EXCEPT ![o].status = "closed"]
      /\ check' = [check EXCEPT !.left = @ \ {i}]
      /\ UNCHANGED <<opener, task, cancelling, candle, executions>>
  BY DEF CheckExit
<1>2. /\ check' \in Checks /\ check'.pc = check.pc /\ check'.queue = check.queue
      /\ check'.list = check.list /\ check'.left = check.left \ {i} /\ check'.seen = check.seen
  BY <1>1 DEF OrdersInv, OrdersTypes, Checks
<1>3. o \in Orders /\ executions[o] = 1 /\ row[o].status # "none"
  <2>1. o \in Orders
    BY <1>1, OrdersTyped DEF OrdersInv, BracketInv
  <2>2. executions[o] = 1
    BY <1>1, <2>1 DEF OrdersInv, OpenerInv, Orders
  <2>3. row[o].status # "none"
    <3> SUFFICES ASSUME row[o].status = "none" PROVE FALSE
      OBVIOUS
    <3>1. executions[o] = 0
      BY <2>1, PlacedIsNew
    <3> QED  BY <2>2, <3>1
  <2> QED  BY <2>1, <2>2, <2>3
<1>4. /\ TypeOK /\ positions \in [PosIds -> Position] /\ q \in Nat /\ sold \in [PosIds -> Nat]
      /\ row \in [Orders -> Order]
  BY OrdersTyped DEF OrdersInv, Position
<1>5. at \in Nat /\ SellSlip <= at
  <2>1. at # 0 /\ at \in {row[o].tp, row[o].sl, 0}
    BY <1>1 DEF Exits, ExitPrice
  <2>2. /\ row[o].tp \in Nat /\ row[o].sl \in Nat
        /\ row[o].tp = 0 \/ SellSlip < row[o].tp
        /\ row[o].sl = 0 \/ SellSlip < row[o].sl
    BY <1>3, OrdersTyped DEF OrdersInv, RowInv
  <2> HIDE DEF at
  <2> QED  BY <2>1, <2>2
<1> HIDE DEF o, at
<1>6. TypeOK' /\ sold' \in [PosIds -> Nat]
  <2>1. q \in 0..positions[i].qty
    BY <1>4
  <2>2. TypeOK'
    BY <1>1, <1>4, <1>5, <2>1, SellTypes
  <2>3. sold[i] + q \in Nat
    BY <1>4
  <2> HIDE DEF q
  <2> QED  BY <1>1, <1>4, <2>2, <2>3
<1>7. /\ row' \in [Orders -> Order]
      /\ \A p \in Orders :
           /\ row'[p].side = row[p].side /\ row'[p].kind = row[p].kind
           /\ row'[p].qty = row[p].qty /\ row'[p].at = row[p].at
           /\ row'[p].tp = row[p].tp /\ row'[p].sl = row[p].sl
           /\ row'[p].status = IF p = o THEN "closed" ELSE row[p].status
  <2>1. StatusSet(o, "closed")
    BY <1>1 DEF StatusSet
  <2> QED  BY <1>3, <1>4, <2>1, StatusChange
<1>8. OrdersTypes'
  BY <1>1, <1>2, <1>6, <1>7 DEF OrdersInv, OrdersTypes, ManualTypeOK, Idle
<1>9. RowInv'
  BY <1>3, <1>7 DEF OrdersInv, RowInv
<1>10. TaskInv'
  BY <1>1, <1>2, <1>3, <1>7, OrdersTyped DEF OrdersInv, TaskInv, Idle
<1>11. QueueInv'
  <2>1. o \notin check.queue
    BY <1>3 DEF OrdersInv, QueueInv
  <2> QED  BY <1>1, <1>2, <1>3, <1>7, <2>1, OrdersTyped DEF OrdersInv, QueueInv
<1>12. RowsMatchTrades'
  BY <1>1, <1>3, <1>7 DEF OrdersInv, RowsMatchTrades, InProgress
<1>13. /\ \A j \in PosIds : positions'[j].state = "open" => positions[j].state = "open"
       /\ \A j \in PosIds : positions[j].state # "none" => positions'[j].state # "none"
  BY <1>1, <1>4, SellOpensNothing
<1>14. OpenerInv'
  BY <1>1, <1>13 DEF OrdersInv, OpenerInv
<1>15. BracketInv'
  <2>1. positions'[i].state = "closed"
    <3>1. q - q = 0
      BY <1>4
    <3> QED  BY <1>1, <1>4, <3>1 DEF CloseLong, Position
  <2>2. \A j \in PosIds : opener[j] # 0 => /\ row'[opener[j]].tp = row[opener[j]].tp
                                          /\ row'[opener[j]].sl = row[opener[j]].sl
    BY <1>7, OrdersTyped DEF OrdersInv
  <2> QED
    BY <1>1, <1>2, <1>13, <2>1, <2>2, OrdersTyped
       DEF OrdersInv, BracketInv, ExitPrice, IsOpen
<1> QED  BY <1>8, <1>9, <1>10, <1>11, <1>12, <1>14, <1>15 DEF OrdersInv

\* Every step of the users, the engine and the market keeps the invariant.
LEMMA OrdersStep == OrdersInv /\ [OrdersNext]_orderVars => OrdersInv'
<1> SUFFICES ASSUME OrdersInv, [OrdersNext]_orderVars PROVE OrdersInv'
  OBVIOUS
<1>1. CASE PlaceAny
  BY <1>1, PlaceKeeps DEF PlaceAny
<1>2. CASE (\E o \in Orders : CancelRead(o)) \/ CancelWrite
  BY <1>2, CancelReadKeeps, CancelWriteKeeps
<1>3. ASSUME NEW a \in Actors, FillStep(a) PROVE OrdersInv'
  BY <1>3, FillBuyKeeps, FillRejectedKeeps, FillSellFoundKeeps, FillSellCloseKeeps,
     FillSellReduceKeeps DEF FillStep
<1>4. CASE CheckBegin \/ CheckPositions \/ CheckEnd \/ \E o \in Orders : CheckOrder(o)
  BY <1>4, CheckBeginKeeps, CheckPositionsKeeps, CheckEndKeeps, CheckOrderKeeps
<1>5. CASE \E i \in PosIds : CheckExit(i) \/ CheckNoExit(i)
  BY <1>5, CheckExitKeeps, CheckNoExitKeeps
<1>6. CASE NewCandle
  BY <1>6, NewCandleKeeps
<1>7. CASE UNCHANGED orderVars
  <2>1. UNCHANGED <<brokerVars, row, opener, task, check, cancelling, candle, sold, executions>>
    BY <1>7 DEF orderVars, manualVars
  <2>2. check' \in Checks /\ (~Idle("engine") => check'.pc = "orders")
    BY <2>1 DEF OrdersInv, OrdersTypes, TaskInv
  <2>3. BracketInv'
    BY <2>1 DEF OrdersInv, BracketInv, ExitPrice, IsOpen, brokerVars
  <2> QED  BY <2>1, <2>2, <2>3, CheckMovesKeep
<1>8. "http" \in Actors /\ "engine" \in Actors
  BY DEF Actors
<1> QED
  BY <1>1, <1>2, <1>3, <1>4, <1>5, <1>6, <1>7, <1>8 DEF OrdersNext, HttpStep, EngineStep

\* The rows of the order table tell what was traded, whatever a user places,
\* cancels and the engine fills meanwhile.
THEOREM OrderRowsTellTheTrades == OrdersSpec => []RowsMatchTrades
<1>1. OrdersInv => RowsMatchTrades
  BY DEF OrdersInv
<1> QED  BY <1>1, OrdersStart, OrdersStep, PTL DEF OrdersSpec

\* No position outlives a check whose candle reached its stop or its target.
THEOREM BracketsAreEnforced == OrdersSpec => []BracketsEnforced
<1>1. OrdersInv => BracketsEnforced
  <2> SUFFICES ASSUME OrdersInv, check.pc = "positions", check.left = {},
                      NEW i \in check.list, IsOpen(i)
               PROVE  LET r == row[opener[i]]
                      IN  /\ r.sl = 0 \/ check.seen.low > r.sl
                          /\ r.tp = 0 \/ check.seen.high < r.tp
    BY DEF BracketsEnforced
  <2> DEFINE r == row[opener[i]]
  <2>1. ExitPrice(i, check.seen) = 0
    BY DEF OrdersInv, BracketInv
  <2>2. opener[i] \in Orders
    BY OrdersTyped DEF OrdersInv, BracketInv
  <2>3. /\ r.sl \in Nat /\ r.tp \in Nat
        /\ check.seen.low \in Nat /\ check.seen.high \in Nat
    BY <2>2, OrdersTyped DEF OrdersInv, OrdersTypes, Checks, CandleRecords
  <2>4. /\ r.sl # 0 => ~(check.seen.low <= r.sl)
        /\ r.tp # 0 /\ ~(r.sl # 0 /\ check.seen.low <= r.sl) => ~(check.seen.high >= r.tp)
    BY <2>1 DEF ExitPrice
  <2> HIDE DEF r
  <2>5. (r.sl = 0 \/ check.seen.low > r.sl) /\ (r.tp = 0 \/ check.seen.high < r.tp)
    BY <2>3, <2>4
  <2> QED  BY <2>5 DEF r
<1> QED  BY <1>1, OrdersStart, OrdersStep, PTL DEF OrdersSpec

-----------------------------------------------------------------------------
(* The grids *)

USE LadderAssumption, ProfileAssumption

\* What the price thread keeps between two of its steps.
ThreadType ==
    [pc : {"idle", "lock", "grids", "levels", "retry"}, lock : SUBSET Grids,
     pending : SUBSET Grids, at : Grids \cup {0}, px : Nat, next : 0..NLevels,
     view : [LevelIds -> Level], queue : Seq(LevelIds), kept : Seq(LevelIds), grew : BOOLEAN,
     legChanged : BOOLEAN, changed : BOOLEAN, detached : SUBSET Grids,
     orphan : BOOLEAN, own : [LevelIds -> Level]]

\* A grid in memory, and one in grids.json.
Runner == {r \in GridType : Len(r.missed) <= MissedCap}
SavedRunner == {r \in Runner : Len(r.missed) <= SavedMissedCap}

\* The thread works on a grid at a market price.
ThreadTypes ==
    /\ thread \in ThreadType
    /\ thread.pc \in {"grids", "levels", "retry"} => thread.px \in Prices
    /\ IF thread.pc \in {"levels", "retry"} THEN thread.at \in Grids ELSE thread.at = 0

\* Types.
GridTypes ==
    /\ TypeOK
    /\ grid \in [Grids -> Runner] /\ saved \in [Grids -> SavedRunner]
    /\ ThreadTypes
    /\ savedCash \in Nat /\ restarts \in Nat
    /\ owner \in [PosIds -> Grids \cup {0}]

\* An unused position is blank and nobody's; one of an earlier process is
\* closed.
PositionInv ==
    /\ FreshIsBlank
    /\ \A i \in PosIds : positions[i].state = "none" => owner[i] = 0
    /\ \A i \in PosIds : i \in lost => positions[i].state = "closed"

\* The levels of the grids G: an idle one is blank; a held one has a position
\* of its grid, which no other level has.
LevelsOK(G) ==
    \A g \in Grids : \A l \in LevelIds :
        LET lv == G[g].level[l]
        IN  IF lv.held
            THEN /\ lv.pos \in PosIds /\ owner[lv.pos] = g /\ positions[lv.pos].state # "none"
                 /\ \A k \in LevelIds :
                        G[g].level[k].held /\ G[g].level[k].pos = lv.pos => k = l
            ELSE lv.pos = 0

\* What a held level is going to sell is there.
BackingInv ==
    \A g \in Grids : \A l \in LevelIds :
        LET lv == grid[g].level[l]
        IN  lv.held => lv.pos \in lost \/ (IsOpen(lv.pos) /\ positions[lv.pos].qty = lv.qty)

\* The held levels of a list.
HeldIn(lv) == {l \in LevelIds : lv[l].held}

\* The counters of the grids G agree with their levels.
CountersOK(G) ==
    \A g \in Grids :
        ~G[g].torn => G[g].buys = G[g].sells + Cardinality(HeldIn(G[g].level))
                                  + G[g].gone

\* A level the thread has yet to visit has not been bought since it read the
\* lists; a runner cut off from its lists works on positions that have been
\* dropped, and its successor holds nothing.
ThreadInv ==
    /\ thread.pc = "levels" =>
         \A l \in LevelIds :
             l <= thread.next /\ grid[thread.at].level[l].held => thread.view[l].held
    /\ thread.orphan =>
         /\ thread.at \in Grids /\ thread.at \in thread.detached
         /\ \A l \in LevelIds : ~grid[thread.at].level[l].held
         /\ \A l \in LevelIds :
              IF thread.own[l].held
              THEN /\ thread.own[l].pos \in PosIds /\ thread.own[l].pos \in dropped
                   /\ owner[thread.own[l].pos] = thread.at
              ELSE thread.own[l].pos = 0

\* The inductive invariant of the grids.
GridInv ==
    /\ GridTypes /\ PositionInv /\ ReservationsFunded
    /\ LevelsOK(grid) /\ LevelsOK(saved) /\ BackingInv
    /\ CountersOK(grid) /\ CountersOK(saved)
    /\ ThreadInv /\ NoForgottenPosition /\ ProfitIsReported

-----------------------------------------------------------------------------
(* Operators *)

\* Cutting a list keeps its members and bounds its length.
LEMMA LastOfType ==
  ASSUME NEW S, NEW s \in Seq(S), NEW n \in Nat
  PROVE  LastOf(s, n) \in Seq(S) /\ Len(LastOf(s, n)) <= n /\ Len(LastOf(s, n)) <= Len(s)
<1>1. Len(s) \in Nat
  OBVIOUS
<1>2. CASE Len(s) <= n
  BY <1>1, <1>2 DEF LastOf
<1>3. CASE ~(Len(s) <= n)
  <2> DEFINE m == Len(s) - n + 1
  <2>1. m \in 1..(Len(s) + 1) /\ Len(s) \in (m - 1)..Len(s)
    BY <1>1, <1>3
  <2>2. LastOf(s, n) = SubSeq(s, m, Len(s))
    BY <1>3 DEF LastOf
  <2>3. SubSeq(s, m, Len(s)) \in Seq(S)
    <3>1. \A i \in m..Len(s) : s[i] \in S
      BY <1>1, <2>1
    <3> QED  BY <1>1, <2>1, <3>1
  <2>4. Len(SubSeq(s, m, Len(s))) = n
    BY <1>1, <1>3, <2>1
  <2> QED  BY <1>1, <1>3, <2>2, <2>3, <2>4
<1> QED  BY <1>2, <1>3

\* The ladder rises, so its span is a natural number.
LEMMA SpanType == Span \in Nat /\ Levels \in [LevelIds -> Nat \ {0}] /\ 1 \in LevelIds /\ NLevels \in LevelIds
<1> DEFINE S == {n \in Nat : n + 1 <= NLevels => Levels[1] <= Levels[n + 1]}
<1>1. 0 \in S
  OBVIOUS
<1>2. ASSUME NEW n \in Nat, n \in S PROVE n + 1 \in S
  <2> SUFFICES ASSUME (n + 1) + 1 <= NLevels PROVE Levels[1] <= Levels[(n + 1) + 1]
    OBVIOUS
  <2>1. Levels[1] <= Levels[n + 1]
    BY <1>2
  <2>2. n + 1 \in 1..(NLevels - 1) /\ n + 1 \in 1..NLevels /\ (n + 1) + 1 \in 1..NLevels
        /\ 1 \in 1..NLevels
    OBVIOUS
  <2>3. Levels[n + 1] < Levels[(n + 1) + 1]
    BY <2>2
  <2>4. Levels[1] \in Nat /\ Levels[n + 1] \in Nat /\ Levels[(n + 1) + 1] \in Nat
    BY <2>2
  <2> QED  BY <2>1, <2>3, <2>4
<1> HIDE DEF S
<1>3. \A n \in Nat : n \in S
  BY <1>1, <1>2, SetInduction
<1>4. NLevels - 1 \in Nat /\ (NLevels - 1) + 1 = NLevels /\ 1 \in 1..NLevels /\ NLevels \in 1..NLevels
  OBVIOUS
<1>5. Levels[1] <= Levels[NLevels]
  <2>1. NLevels - 1 \in S
    BY <1>3, <1>4
  <2>2. (NLevels - 1) + 1 <= NLevels => Levels[1] <= Levels[(NLevels - 1) + 1]
    BY <2>1 DEF S
  <2> QED  BY <1>4, <2>2
<1>6. Levels[1] \in Nat /\ Levels[NLevels] \in Nat
  BY <1>4
<1> QED  BY <1>4, <1>5, <1>6 DEF Span, LevelIds

\* What the types say of a grid.
LEMMA RunnerFields ==
  ASSUME NEW r \in Runner
  PROVE  /\ r.exists \in BOOLEAN /\ r.running \in BOOLEAN /\ r.activated \in BOOLEAN
         /\ r.shift \in 0..MaxShift /\ r.shift \in Nat
         /\ r.level \in [LevelIds -> Level]
         /\ r.cum \in Int /\ r.pair \in [LevelIds -> Nat] /\ r.past \in Int
         /\ r.fills \in Nat /\ r.buys \in Nat /\ r.sells \in Nat /\ r.gone \in Nat
         /\ r.missed \in Seq(LevelIds) /\ Len(r.missed) <= MissedCap
         /\ r.torn \in BOOLEAN
BY DEF Runner, GridType

\* The prices of a grid's levels and their targets are natural numbers.
LEMMA LevelPriceType ==
  ASSUME GridTypes, NEW g \in Grids, NEW l \in LevelIds
  PROVE  LevelPrice(g, l) \in Nat /\ Target(g, l) \in Nat
<1>1. ASSUME NEW k \in LevelIds PROVE LevelPrice(g, k) \in Nat
  <2>1. grid[g] \in Runner
    BY DEF GridTypes
  <2>2. grid[g].shift \in Nat
    BY <2>1, RunnerFields
  <2>3. Span \in Nat /\ Levels[k] \in Nat
    BY SpanType
  <2>4. grid[g].shift * Span \in Nat
    BY <2>2, <2>3
  <2> QED  BY <2>3, <2>4 DEF LevelPrice
<1>2. (IF l < NLevels THEN l + 1 ELSE l) \in LevelIds
  BY DEF LevelIds
<1> QED  BY <1>1, <1>2 DEF Target

\* What a grid asks to buy is a natural number.
LEMMA QtyForType ==
  ASSUME GridTypes, NEW g \in Grids, NEW l \in LevelIds, NEW px \in Nat \ {0}
  PROVE  QtyFor(g, l, px) \in Nat
<1> DEFINE b == BaseValue
           p == grid[g].pair[l]
           c == grid[g].cum
<1>1. b \in Nat /\ b \div 2 \in Nat /\ 4 * b \in Nat
  <2>1. b \in Nat
    <3>1. TotalQuote \in Nat /\ NLevels \in Nat \ {0}
      OBVIOUS
    <3> QED  BY <3>1, DivNat DEF BaseValue
  <2>2. 2 \in Nat \ {0}
    OBVIOUS
  <2> HIDE DEF b
  <2> QED  BY <2>1, <2>2, DivNat
<1>2. p \in Nat /\ c \in Int
  <2>1. grid[g] \in Runner
    BY DEF GridTypes
  <2> QED  BY <2>1, RunnerFields
<1>3. Allocated \in Nat \ {0}
  BY DEF Allocated
<1>4. b + (p \div Scale) \in Int
  <2> HIDE DEF b, p
  <2> QED  BY <1>1, <1>2
<1>5. \A x \in Int : Clamp(x, b \div 2, 4 * b) \in Nat
  <2> HIDE DEF b
  <2> QED  BY <1>1 DEF Clamp
<1>6. ASSUME NEW gain \in Nat PROVE (b * (Allocated + gain)) \div Allocated \in Int
  <2> HIDE DEF b
  <2>1. b * (Allocated + gain) \in Int
    BY <1>1, <1>3
  <2> QED  BY <1>3, <2>1
<1>7. OrderValue(g, l) \in Nat
  <2>1. CASE Reinvest = "none"
    BY <1>1, <2>1 DEF OrderValue
  <2>2. CASE Reinvest = "per_grid"
    <3>1. OrderValue(g, l) = Clamp(b + (p \div Scale), b \div 2, 4 * b)
      BY <2>2 DEF OrderValue
    <3> QED  BY <1>4, <1>5, <3>1
  <2>3. CASE Reinvest = "all_grids"
    <3> DEFINE gain == IF c > 0 THEN c ELSE 0
    <3>1. OrderValue(g, l) = Clamp((b * (Allocated + gain)) \div Allocated, b \div 2, 4 * b)
      BY <2>3 DEF OrderValue
    <3>2. gain \in Nat
      BY <1>2
    <3> HIDE DEF gain, b
    <3> QED  BY <1>5, <1>6, <3>1, <3>2
  <2> QED  BY <2>1, <2>2, <2>3
<1> QED  BY <1>7, DivNat DEF QtyFor

-----------------------------------------------------------------------------
(* Steps that trade nothing *)

\* The grid s has the levels and the statistics of r, its targets aside.
Alike(r, s) ==
    /\ \A l \in LevelIds : /\ s.level[l].held = r.level[l].held
                           /\ s.level[l].pos = r.level[l].pos
                           /\ s.level[l].qty = r.level[l].qty
    /\ s.buys = r.buys /\ s.sells = r.sells /\ s.gone = r.gone
    /\ s.cum = r.cum /\ s.past = r.past
    /\ r.torn => s.torn
    /\ s.exists => r.exists

\* The profit the grids report, and the one their positions had.
Reported == [g \in Grids |-> grid[g].cum + grid[g].past]
Earned == [i \in PosIds |-> IF owner[i] # 0 THEN positions[i].pnl ELSE 0]

\* A step that trades nothing and leaves the levels and the statistics of the
\* grids alone keeps all that is said of them.
LEMMA QuietGrids ==
  ASSUME GridInv, UNCHANGED <<positions, owner, lost, restarts>>,
         \A g \in Grids : Alike(grid[g], grid'[g]),
         \A i \in PosIds : i \in dropped => i \in dropped'
  PROVE  /\ PositionInv' /\ LevelsOK(grid)' /\ BackingInv' /\ CountersOK(grid)'
         /\ NoForgottenPosition' /\ ProfitIsReported'
<1> USE DEF GridInv
<1>1. PositionInv'
  BY DEF PositionInv, FreshIsBlank, IsOpen
<1>2. \A g \in Grids, l \in LevelIds :
        /\ grid'[g].level[l].held = grid[g].level[l].held
        /\ grid'[g].level[l].pos = grid[g].level[l].pos
        /\ grid'[g].level[l].qty = grid[g].level[l].qty
  BY DEF Alike
<1>3. LevelsOK(grid)'
  <2> SUFFICES ASSUME NEW g \in Grids, NEW l \in LevelIds
               PROVE  LET lv == grid'[g].level[l]
                      IN  IF lv.held
                          THEN /\ lv.pos \in PosIds /\ owner'[lv.pos] = g
                               /\ positions'[lv.pos].state # "none"
                               /\ \A k \in LevelIds :
                                    grid'[g].level[k].held /\ grid'[g].level[k].pos = lv.pos
                                    => k = l
                          ELSE lv.pos = 0
    BY DEF LevelsOK
  <2>1. CASE grid[g].level[l].held
    <3>1. /\ grid[g].level[l].pos \in PosIds /\ owner[grid[g].level[l].pos] = g
          /\ positions[grid[g].level[l].pos].state # "none"
      BY <2>1 DEF LevelsOK
    <3>2. \A k \in LevelIds : grid[g].level[k].held /\ grid[g].level[k].pos = grid[g].level[l].pos
                              => k = l
      BY <2>1 DEF LevelsOK
    <3> QED  BY <1>2, <2>1, <3>1, <3>2
  <2>2. CASE ~grid[g].level[l].held
    <3>1. grid[g].level[l].pos = 0
      BY <2>2 DEF LevelsOK
    <3> QED  BY <1>2, <2>2, <3>1
  <2> QED  BY <2>1, <2>2
<1>4. BackingInv'
  <2> SUFFICES ASSUME NEW g \in Grids, NEW l \in LevelIds, grid'[g].level[l].held
               PROVE  \/ grid'[g].level[l].pos \in lost'
                      \/ /\ positions'[grid'[g].level[l].pos].state = "open"
                         /\ positions'[grid'[g].level[l].pos].qty = grid'[g].level[l].qty
    BY DEF BackingInv, IsOpen
  <2>1. \/ grid[g].level[l].pos \in lost
        \/ /\ positions[grid[g].level[l].pos].state = "open"
           /\ positions[grid[g].level[l].pos].qty = grid[g].level[l].qty
    BY <1>2 DEF BackingInv, IsOpen
  <2> QED  BY <1>2, <2>1
<1>5. CountersOK(grid)'
  <2> SUFFICES ASSUME NEW g \in Grids, ~grid'[g].torn
               PROVE  grid'[g].buys = grid'[g].sells
                        + Cardinality(HeldIn(grid'[g].level)) + grid'[g].gone
    BY DEF CountersOK
  <2>1. HeldIn(grid'[g].level) = HeldIn(grid[g].level)
    BY <1>2 DEF HeldIn
  <2>2. /\ ~grid[g].torn /\ grid'[g].buys = grid[g].buys /\ grid'[g].sells = grid[g].sells
        /\ grid'[g].gone = grid[g].gone
    BY DEF Alike
  <2> QED  BY <2>1, <2>2 DEF CountersOK
<1>6. NoForgottenPosition'
  <2> SUFFICES ASSUME NEW i \in PosIds, i \notin dropped', positions'[i].state = "open",
                      owner'[i] # 0, grid'[owner'[i]].exists
               PROVE  \E l \in LevelIds : /\ grid'[owner'[i]].level[l].held
                                          /\ grid'[owner'[i]].level[l].pos = i
    BY DEF NoForgottenPosition, HeldLevels, IsOpen
  <2>1. owner[i] \in Grids
    BY DEF GridTypes
  <2>2. grid[owner[i]].exists
    BY <2>1 DEF Alike
  <2>3. PICK l \in LevelIds : grid[owner[i]].level[l].held /\ grid[owner[i]].level[l].pos = i
    BY <2>1, <2>2 DEF NoForgottenPosition, HeldLevels, IsOpen
  <2> QED  BY <1>2, <2>1, <2>3
<1>7. ProfitIsReported'
  <2>1. Reported' = Reported /\ Earned' = Earned
    BY DEF Reported, Earned, Alike
  <2>2. (\A g \in Grids : ~grid'[g].torn) => \A g \in Grids : ~grid[g].torn
    BY DEF Alike
  <2> QED  BY <2>1, <2>2 DEF ProfitIsReported, Reported, Earned
<1> QED  BY <1>1, <1>3, <1>4, <1>5, <1>6, <1>7

\* The step has written the grids to grids.json.
SavedNow == saved' = [g \in Grids |-> Persisted(grid'[g])]

\* What goes to grids.json is as right as what is in memory.
LEMMA SavedAsWell ==
  ASSUME SavedNow, grid' \in [Grids -> Runner], LevelsOK(grid)', CountersOK(grid)'
  PROVE  saved' \in [Grids -> SavedRunner] /\ LevelsOK(saved)' /\ CountersOK(saved)'
<1>1. saved' = [g \in Grids |-> Persisted(grid'[g])]
  BY DEF SavedNow
<1>2. ASSUME NEW r \in Runner
      PROVE  /\ Persisted(r) \in SavedRunner
             /\ Persisted(r).level = r.level /\ Persisted(r).buys = r.buys
             /\ Persisted(r).sells = r.sells /\ Persisted(r).gone = r.gone
             /\ Persisted(r).torn = r.torn
  <2> DEFINE m == LastOf(r.missed, SavedMissedCap)
  <2>1. m \in Seq(LevelIds) /\ Len(m) <= SavedMissedCap /\ Len(m) <= Len(r.missed)
    BY RunnerFields, LastOfType
  <2>2. r \in GridType /\ Len(r.missed) <= MissedCap /\ Len(r.missed) \in Nat
    BY RunnerFields DEF Runner
  <2>3. Persisted(r) = [r EXCEPT !.missed = m]
    BY DEF Persisted
  <2> HIDE DEF m
  <2>4. PICK p : p = [r EXCEPT !.missed = m]
    OBVIOUS
  <2>5. p \in GridType /\ p.missed = m
    BY <2>1, <2>2, <2>4 DEF GridType
  <2>6. Len(m) \in Nat /\ Len(m) <= MissedCap
    BY <2>1, <2>2
  <2>7. p \in SavedRunner
    BY <2>1, <2>5, <2>6 DEF SavedRunner, Runner
  <2>8. /\ p.level = r.level /\ p.buys = r.buys
        /\ p.sells = r.sells /\ p.gone = r.gone /\ p.torn = r.torn
    BY <2>2, <2>4 DEF GridType
  <2> QED  BY <2>3, <2>4, <2>7, <2>8
<1>3. \A g \in Grids :
        /\ saved'[g] \in SavedRunner /\ saved'[g].level = grid'[g].level
        /\ saved'[g].buys = grid'[g].buys /\ saved'[g].sells = grid'[g].sells
        /\ saved'[g].gone = grid'[g].gone /\ saved'[g].torn = grid'[g].torn
  BY <1>1, <1>2
<1>4. LevelsOK(saved)'
  BY <1>3 DEF LevelsOK
<1>5. CountersOK(saved)'
  BY <1>3 DEF CountersOK
<1> QED  BY <1>1, <1>3, <1>4, <1>5

\* A file that is not written stays right: its levels have the positions
\* they had, and a position in use stays in use and keeps its owner.
LEMMA FileStays ==
  ASSUME GridInv, UNCHANGED saved,
         \A i \in PosIds : positions[i].state # "none" =>
                              positions'[i].state # "none" /\ owner'[i] = owner[i]
  PROVE  saved' \in [Grids -> SavedRunner] /\ LevelsOK(saved)' /\ CountersOK(saved)'
<1>1. saved' \in [Grids -> SavedRunner] /\ CountersOK(saved)'
  BY DEF GridInv, GridTypes, CountersOK
<1>2. LevelsOK(saved)'
  <2> SUFFICES ASSUME NEW g \in Grids, NEW l \in LevelIds
               PROVE  LET lv == saved[g].level[l]
                      IN  IF lv.held
                          THEN /\ lv.pos \in PosIds /\ owner'[lv.pos] = g
                               /\ positions'[lv.pos].state # "none"
                               /\ \A k \in LevelIds :
                                    saved[g].level[k].held /\ saved[g].level[k].pos = lv.pos
                                    => k = l
                          ELSE lv.pos = 0
    BY DEF LevelsOK
  <2>1. CASE saved[g].level[l].held
    <3>1. /\ saved[g].level[l].pos \in PosIds /\ owner[saved[g].level[l].pos] = g
          /\ positions[saved[g].level[l].pos].state # "none"
      BY <2>1 DEF GridInv, LevelsOK
    <3>2. \A k \in LevelIds : saved[g].level[k].held /\ saved[g].level[k].pos = saved[g].level[l].pos
                              => k = l
      BY <2>1 DEF GridInv, LevelsOK
    <3> QED  BY <2>1, <3>1, <3>2
  <2>2. CASE ~saved[g].level[l].held
    BY <2>2 DEF GridInv, LevelsOK
  <2> QED  BY <2>1, <2>2
<1> QED  BY <1>1, <1>2

\* What is left to show of a step that trades nothing.
LEMMA QuietKeeps ==
  ASSUME GridInv, UNCHANGED <<positions, owner, lost, restarts>>,
         \A g \in Grids : Alike(grid[g], grid'[g]),
         \A i \in PosIds : i \in dropped => i \in dropped',
         UNCHANGED saved \/ SavedNow,
         TypeOK', ReservationsFunded', grid' \in [Grids -> Runner], savedCash' \in Nat,
         ThreadTypes', ThreadInv'
  PROVE  GridInv'
<1>1. /\ PositionInv' /\ LevelsOK(grid)' /\ BackingInv' /\ CountersOK(grid)'
      /\ NoForgottenPosition' /\ ProfitIsReported'
  BY QuietGrids
<1>2. saved' \in [Grids -> SavedRunner] /\ LevelsOK(saved)' /\ CountersOK(saved)'
  BY <1>1, FileStays, SavedAsWell
<1>3. GridTypes'
  BY <1>2 DEF GridInv, GridTypes
<1> QED  BY <1>1, <1>2, <1>3 DEF GridInv

\* A step that leaves the account alone.
LEMMA SameAccount ==
  ASSUME GridInv, UNCHANGED brokerVars
  PROVE  TypeOK' /\ ReservationsFunded'
BY DEF GridInv, GridTypes, TypeOK, brokerVars, ReservationsFunded, ReservedTotal

\* The thread's view stays right while it works on, on the same grid, if no
\* level it has yet to visit is bought.
LEMMA TickAdvances ==
  ASSUME GridInv, thread' \in ThreadType,
         thread'.pc = thread.pc \/ (thread.pc = "levels" /\ thread'.pc = "retry"),
         thread'.at = thread.at, thread'.px = thread.px,
         thread'.next <= thread.next, thread'.view = thread.view,
         thread'.orphan = thread.orphan, thread'.own = thread.own,
         \A g \in Grids : g \in thread.detached => g \in thread'.detached,
         thread'.pc = "levels" =>
           \A l \in LevelIds : l <= thread'.next /\ grid'[thread.at].level[l].held
                               => grid[thread.at].level[l].held,
         thread.orphan => \A l \in LevelIds : ~grid'[thread.at].level[l].held,
         \A i \in PosIds : i \in dropped => i \in dropped',
         \A i \in PosIds : owner[i] # 0 => owner'[i] = owner[i]
  PROVE  ThreadTypes' /\ ThreadInv'
<1>0. thread.next \in Int /\ thread'.next \in Int
  BY DEF GridInv, GridTypes, ThreadTypes, ThreadType
<1>1. ThreadTypes'
  BY DEF GridInv, GridTypes, ThreadTypes
<1>2. thread.pc = "levels" => thread.at \in Grids
  BY DEF GridInv, GridTypes, ThreadTypes
<1>3. ThreadInv'
  <2>1. thread'.pc = "levels" =>
          \A l \in LevelIds :
             l <= thread'.next /\ grid'[thread'.at].level[l].held => thread'.view[l].held
    <3> SUFFICES ASSUME thread'.pc = "levels", NEW l \in LevelIds, l <= thread'.next,
                        grid'[thread'.at].level[l].held
                 PROVE  thread'.view[l].held
      OBVIOUS
    <3>1. thread.pc = "levels"
      OBVIOUS
    <3>2. l \in Int /\ l <= thread.next
      BY <1>0 DEF LevelIds
    <3>3. grid[thread.at].level[l].held
      OBVIOUS
    <3> QED  BY <3>1, <3>2, <3>3 DEF GridInv, ThreadInv
  <2>2. ASSUME thread'.orphan
        PROVE  /\ thread'.at \in Grids /\ thread'.at \in thread'.detached
               /\ \A l \in LevelIds : ~grid'[thread'.at].level[l].held
    BY <2>2 DEF GridInv, ThreadInv
  <2>3. ASSUME thread'.orphan, NEW l \in LevelIds
        PROVE  IF thread'.own[l].held
               THEN /\ thread'.own[l].pos \in PosIds /\ thread'.own[l].pos \in dropped'
                    /\ owner'[thread'.own[l].pos] = thread'.at
               ELSE thread'.own[l].pos = 0
    <3>1. IF thread.own[l].held
          THEN /\ thread.own[l].pos \in PosIds /\ thread.own[l].pos \in dropped
               /\ owner[thread.own[l].pos] = thread.at
          ELSE thread.own[l].pos = 0
      BY <2>3 DEF GridInv, ThreadInv
    <3>2. thread.at \in Grids /\ 0 \notin Grids
      BY <2>3 DEF GridInv, ThreadInv, Grids, Keys
    <3> QED  BY <3>1, <3>2
  <2> QED  BY <2>1, <2>2, <2>3 DEF ThreadInv
<1> QED  BY <1>1, <1>3

\* So it does when no idle level is bought at all.
LEMMA TickFollows ==
  ASSUME GridInv, thread' \in ThreadType,
         thread'.pc = thread.pc \/ (thread.pc = "levels" /\ thread'.pc = "retry"),
         thread'.at = thread.at, thread'.px = thread.px,
         thread'.next <= thread.next, thread'.view = thread.view,
         thread'.orphan = thread.orphan, thread'.own = thread.own,
         \A g \in Grids : g \in thread.detached => g \in thread'.detached,
         \A g \in Grids, l \in LevelIds : grid'[g].level[l].held => grid[g].level[l].held,
         \A i \in PosIds : i \in dropped => i \in dropped',
         \A i \in PosIds : owner[i] # 0 => owner'[i] = owner[i]
  PROVE  ThreadTypes' /\ ThreadInv'
<1>1. thread'.pc = "levels" =>
        \A l \in LevelIds : l <= thread'.next /\ grid'[thread.at].level[l].held
                            => grid[thread.at].level[l].held
  <2>1. thread'.pc = "levels" => thread.at \in Grids
    BY DEF GridInv, GridTypes, ThreadTypes
  <2> QED  BY <2>1
<1>2. thread.orphan => \A l \in LevelIds : ~grid'[thread.at].level[l].held
  BY DEF GridInv, ThreadInv
<1> QED  BY <1>1, <1>2, TickAdvances

\* The visits of the thread go on after a step of somebody else that buys
\* nothing for a grid.
LEMMA TickGoesOn ==
  ASSUME GridInv, thread' \in ThreadType,
         thread'.pc = thread.pc, thread'.at = thread.at, thread'.px = thread.px,
         thread'.next = thread.next, thread'.view = thread.view,
         thread'.orphan = thread.orphan, thread'.own = thread.own,
         \A g \in Grids : g \in thread.detached => g \in thread'.detached,
         \A g \in Grids, l \in LevelIds : grid'[g].level[l].held => grid[g].level[l].held,
         \A i \in PosIds : i \in dropped => i \in dropped',
         \A i \in PosIds : owner[i] # 0 => owner'[i] = owner[i]
  PROVE  ThreadTypes' /\ ThreadInv'
<1>1. thread'.next <= thread.next
  BY DEF ThreadType
<1> QED  BY <1>1, TickFollows

-----------------------------------------------------------------------------
(* Capital reservations *)

\* Locking the capital of a grid takes no more than is free, and a lock that
\* fails takes nothing.
LEMMA LockKeeps ==
  ASSUME GridInv, NEW g \in Grids, reserved' = Locked(g),
         UNCHANGED <<cash, startingCapital, positions, price, funding, entryFees>>
  PROVE  TypeOK' /\ ReservationsFunded'
<1>0. /\ TypeOK /\ reserved \in [1..NKeys -> Nat] /\ g \in 1..NKeys /\ reserved[g] \in Nat
      /\ ReservedTotal <= cash /\ ReservedTotal \in Nat /\ cash \in Int
  BY ReservedTotalType DEF GridInv, GridTypes, TypeOK, Keys, Grids, ReservationsFunded
<1>1. Allocated \in Nat
  BY DEF Allocated
<1>2. PICK a \in Nat : /\ reserved' = [reserved EXCEPT ![g] = a]
                       /\ ReservedTotal + (a - reserved[g]) <= cash
  <2>1. CASE reserved[g] >= Allocated
    <3>1. reserved' = [reserved EXCEPT ![g] = reserved[g]]
      BY <2>1 DEF Locked
    <3>2. ReservedTotal + (reserved[g] - reserved[g]) <= cash
      BY <1>0
    <3> QED  BY <1>0, <3>1, <3>2
  <2>2. CASE ~(reserved[g] >= Allocated) /\ CanLock(g)
    <3>1. reserved' = [reserved EXCEPT ![g] = Allocated]
      BY <2>2 DEF Locked
    <3>2. ReservedTotal + (Allocated - reserved[g]) <= cash
      BY <1>0, <1>1, <2>2 DEF CanLock
    <3> QED  BY <1>1, <3>1, <3>2
  <2>3. CASE ~(reserved[g] >= Allocated) /\ ~CanLock(g)
    <3>1. reserved' = [reserved EXCEPT ![g] = 0]
      BY <2>3 DEF Locked
    <3>2. ReservedTotal + (0 - reserved[g]) <= cash
      BY <1>0
    <3> QED  BY <3>1, <3>2
  <2> QED  BY <2>1, <2>2, <2>3
<1>3. reserved' \in [1..NKeys -> Nat]
  BY <1>0, <1>2
<1>4. ReservedTotal' = ReservedTotal + (a - reserved[g])
  <2>1. SumTo([reserved EXCEPT ![g] = a], NKeys) = ReservedTotal + (a - reserved[g])
    <3>1. TypeOK /\ g \in Keys /\ a \in Int
      BY <1>0 DEF Keys
    <3> QED  BY <3>1, ReservationChange
  <2> QED  BY <1>2, <2>1 DEF ReservedTotal
<1> QED  BY <1>0, <1>2, <1>3, <1>4 DEF TypeOK, ReservationsFunded, Keys

\* Releasing it leaves more free.
LEMMA ReleaseKeeps ==
  ASSUME GridInv, NEW g \in Grids, Release(g)
  PROVE  TypeOK' /\ ReservationsFunded'
<1>1. TypeOK /\ ReservedTotal \in Nat /\ cash \in Int /\ g \in Keys
  BY ReservedTotalType DEF GridInv, GridTypes, TypeOK, Grids
<1>2. ReservedTotal' <= ReservedTotal
  BY <1>1, ReservationMoves
<1>3. TypeOK'
  BY <1>1 DEF Release, TypeOK
<1>4. (ReservedTotal \in Nat)'
  BY <1>3, ReservedTotalType, PTL
<1> QED  BY <1>1, <1>2, <1>3, <1>4 DEF GridInv, ReservationsFunded, Release

-----------------------------------------------------------------------------
(* The handlers *)

\* The grids after a change of g alone.
Only(g, r) == grid' = [grid EXCEPT ![g] = r]

\* Changing one grid into another keeps the family well-typed.
LEMMA OnlyTypes ==
  ASSUME GridInv, NEW g \in Grids, NEW r \in Runner, Only(g, r)
  PROVE  /\ grid' \in [Grids -> Runner] /\ grid'[g] = r
         /\ \A h \in Grids : h # g => grid'[h] = grid[h]
BY DEF GridInv, GridTypes, Only

\* A grid is as good as itself.
LEMMA AlikeItself == \A r : Alike(r, r)
BY DEF Alike

\* Setting a flag of a grid, or trimming its missed queue, keeps its type
\* and leaves its levels and statistics alone.
LEMMA FlagTypes ==
  ASSUME NEW r \in Runner, NEW e \in BOOLEAN, NEW b \in BOOLEAN, NEW a \in BOOLEAN,
         NEW m \in Seq(LevelIds), Len(m) <= MissedCap, e => r.exists,
         NEW s, s = [r EXCEPT !.exists = e, !.running = b, !.activated = a, !.missed = m]
  PROVE  s \in Runner /\ Alike(r, s)
<1>1. r \in GridType
  BY DEF Runner
<1>2. s \in GridType
  BY <1>1 DEF GridType
<1>3. s.missed = m
  BY <1>1 DEF GridType
<1>4. s \in Runner
  BY <1>2, <1>3 DEF Runner
<1>5. /\ s.level = r.level /\ s.buys = r.buys /\ s.sells = r.sells /\ s.gone = r.gone
      /\ s.cum = r.cum /\ s.past = r.past /\ s.torn = r.torn /\ s.exists = e
  BY <1>1 DEF GridType
<1> QED  BY <1>4, <1>5 DEF Alike

\* A handler that sets the flags of a grid, or trims its missed queue, and
\* moves no position.
LEMMA HandlerKeeps ==
  ASSUME GridInv, NEW g \in Grids, NEW r, Alike(grid[g], r), r \in Runner, SaveAs([grid EXCEPT ![g] = r]),
         UNCHANGED <<positions, owner, lost, restarts, savedCash>>,
         TypeOK', ReservationsFunded',
         \A i \in PosIds : i \in dropped => i \in dropped',
         thread' = thread
         \/ \E d \in SUBSET Grids : thread' = [thread EXCEPT !.detached = @ \cup d]
  PROVE  GridInv'
<1>1. Only(g, r) /\ SavedNow
  BY DEF SaveAs, SavedNow, Only
<1>2. grid' \in [Grids -> Runner] /\ grid'[g] = r /\ \A h \in Grids : h # g => grid'[h] = grid[h]
  BY <1>1, OnlyTypes
<1>3. \A h \in Grids : Alike(grid[h], grid'[h])
  BY <1>2, AlikeItself
<1>4. thread \in ThreadType /\ savedCash' \in Nat
  BY DEF GridInv, GridTypes, ThreadTypes
<1>5. PICK d \in SUBSET Grids : thread' = [thread EXCEPT !.detached = @ \cup d]
  <2>1. ASSUME thread' = thread PROVE thread' = [thread EXCEPT !.detached = @ \cup {}]
    BY <1>4, <2>1 DEF ThreadType
  <2> QED  BY <2>1
<1>6. /\ thread' \in ThreadType
      /\ thread'.pc = thread.pc /\ thread'.at = thread.at /\ thread'.px = thread.px
      /\ thread'.next = thread.next /\ thread'.view = thread.view
      /\ thread'.orphan = thread.orphan /\ thread'.own = thread.own
      /\ thread'.detached = thread.detached \cup d
  BY <1>4, <1>5 DEF ThreadType
<1>7. ThreadTypes' /\ ThreadInv'
  <2>1. \A h \in Grids, l \in LevelIds : grid'[h].level[l].held => grid[h].level[l].held
    BY <1>3 DEF Alike
  <2> QED  BY <1>6, <2>1, TickGoesOn
<1> QED  BY <1>1, <1>2, <1>3, <1>4, <1>7, QuietKeeps

\* Starting, stopping and deleting a grid, and updating one that keeps its
\* number of levels, keep the invariant.
LEMMA StartKeeps ==
  ASSUME GridInv, NEW g \in Grids, Start(g)
  PROVE  GridInv'
<1>0. grid \in [Grids -> Runner] /\ grid[g] \in Runner /\ grid[g].activated \in BOOLEAN
  BY RunnerFields DEF GridInv, GridTypes
<1>1. PICK a \in BOOLEAN :
        SaveAs([grid EXCEPT ![g] = [grid[g] EXCEPT !.running = TRUE, !.activated = a]])
  <2> DEFINE a == (ActivationPrice = 0) \/ grid[g].activated
  <2>1. a \in BOOLEAN
    BY <1>0
  <2>2. [grid EXCEPT ![g].running = TRUE, ![g].activated = (ActivationPrice = 0) \/ @]
        = [grid EXCEPT ![g] = [grid[g] EXCEPT !.running = TRUE, !.activated = a]]
    BY <1>0 DEF Runner, GridType
  <2> QED  BY <2>1, <2>2 DEF Start
<1>2. PICK r : r = [grid[g] EXCEPT !.running = TRUE, !.activated = a]
  OBVIOUS
<1>3. r \in Runner /\ Alike(grid[g], r)
  <2>1. r = [grid[g] EXCEPT !.exists = grid[g].exists, !.running = TRUE, !.activated = a,
                            !.missed = grid[g].missed]
    BY <1>0, <1>2 DEF Runner, GridType
  <2> QED  BY <1>0, <2>1, RunnerFields, FlagTypes
<1>4. TypeOK' /\ ReservationsFunded'
  BY LockKeeps DEF Start
<1>5. SaveAs([grid EXCEPT ![g] = r])
  BY <1>1, <1>2
<1> QED  BY <1>3, <1>4, <1>5, HandlerKeeps DEF Start

\* Stopping it.
LEMMA StopKeeps ==
  ASSUME GridInv, NEW g \in Grids, Stop(g)
  PROVE  GridInv'
<1>0. grid \in [Grids -> Runner] /\ grid[g] \in Runner
  BY DEF GridInv, GridTypes
<1>1. [grid EXCEPT ![g].running = FALSE] = [grid EXCEPT ![g] = [grid[g] EXCEPT !.running = FALSE]]
  BY <1>0 DEF Runner, GridType
<1>2. PICK r : r = [grid[g] EXCEPT !.running = FALSE]
  OBVIOUS
<1>3. r \in Runner /\ Alike(grid[g], r)
  <2>1. r = [grid[g] EXCEPT !.exists = grid[g].exists, !.running = FALSE,
                            !.activated = grid[g].activated, !.missed = grid[g].missed]
    BY <1>0, <1>2 DEF Runner, GridType
  <2> QED  BY <1>0, <2>1, RunnerFields, FlagTypes
<1>4. TypeOK' /\ ReservationsFunded'
  BY ReleaseKeeps DEF Stop
<1>5. SaveAs([grid EXCEPT ![g] = r])
  BY <1>1, <1>2 DEF Stop
<1> QED  BY <1>3, <1>4, <1>5, HandlerKeeps DEF Stop, Release

\* Deleting it.
LEMMA DeleteKeeps ==
  ASSUME GridInv, NEW g \in Grids, Delete(g)
  PROVE  GridInv'
<1>0. grid \in [Grids -> Runner] /\ grid[g] \in Runner
  BY DEF GridInv, GridTypes
<1>1. [grid EXCEPT ![g].exists = FALSE] = [grid EXCEPT ![g] = [grid[g] EXCEPT !.exists = FALSE]]
  BY <1>0 DEF Runner, GridType
<1>2. PICK r : r = [grid[g] EXCEPT !.exists = FALSE]
  OBVIOUS
<1>3. r \in Runner /\ Alike(grid[g], r)
  <2>1. r = [grid[g] EXCEPT !.exists = FALSE, !.running = grid[g].running,
                            !.activated = grid[g].activated, !.missed = grid[g].missed]
    BY <1>0, <1>2 DEF Runner, GridType
  <2> QED  BY <1>0, <2>1, RunnerFields, FlagTypes
<1>4. TypeOK' /\ ReservationsFunded'
  BY ReleaseKeeps DEF Delete
<1>5. SaveAs([grid EXCEPT ![g] = r])
  BY <1>1, <1>2 DEF Delete
<1>6. \A i \in PosIds : i \in dropped => i \in dropped'
  BY DEF Delete
<1> QED  BY <1>3, <1>4, <1>5, <1>6, HandlerKeeps DEF Delete, Release

\* Updating it without changing the number of levels.
LEMMA UpdateKeeps ==
  ASSUME GridInv, NEW g \in Grids, Update(g, FALSE)
  PROVE  GridInv'
<1>0. grid \in [Grids -> Runner] /\ grid[g] \in Runner
  BY DEF GridInv, GridTypes
<1> DEFINE m == LastOf(grid[g].missed, SavedMissedCap)
<1>1. m \in Seq(LevelIds) /\ Len(m) <= MissedCap
  <2>1. /\ grid[g].missed \in Seq(LevelIds) /\ Len(grid[g].missed) <= MissedCap
        /\ SavedMissedCap \in Nat /\ MissedCap \in Nat
    BY <1>0, RunnerFields
  <2>2. m \in Seq(LevelIds) /\ Len(m) <= Len(grid[g].missed)
    BY <2>1, LastOfType
  <2>3. Len(m) \in Nat /\ Len(grid[g].missed) \in Nat
    BY <2>1, <2>2
  <2> HIDE DEF m
  <2> QED  BY <2>1, <2>2, <2>3
<1>2. [grid EXCEPT ![g].activated = FALSE,
                   ![g].missed = LastOf(@, SavedMissedCap),
                   ![g].level = IF FALSE THEN IdleLevels ELSE @,
                   ![g].gone = IF FALSE THEN @ + Cardinality(HeldLevels(g)) ELSE @]
      = [grid EXCEPT ![g] = [grid[g] EXCEPT !.activated = FALSE, !.missed = m]]
  <2>1. DOMAIN grid = Grids /\ g \in Grids
    BY <1>0
  <2>2. [grid[g] EXCEPT !.activated = FALSE, !.missed = m,
                        !.level = grid[g].level, !.gone = grid[g].gone]
        = [grid[g] EXCEPT !.activated = FALSE, !.missed = m]
    <3> HIDE DEF m
    <3> QED  BY <1>0 DEF Runner, GridType
  <2> QED  BY <1>0, <2>1, <2>2 DEF Runner, GridType
<1> HIDE DEF m
<1>3. PICK r : r = [grid[g] EXCEPT !.activated = FALSE, !.missed = m]
  OBVIOUS
<1>4. r \in Runner /\ Alike(grid[g], r)
  <2>1. r = [grid[g] EXCEPT !.exists = grid[g].exists, !.running = grid[g].running,
                            !.activated = FALSE, !.missed = m]
    BY <1>0, <1>3 DEF Runner, GridType
  <2> QED  BY <1>0, <1>1, <2>1, RunnerFields, FlagTypes
<1>5. TypeOK' /\ ReservationsFunded'
  BY SameAccount DEF Update
<1>6. SaveAs([grid EXCEPT ![g] = r])
  BY <1>2, <1>3 DEF Update
<1>7. \E d \in SUBSET Grids : thread' = [thread EXCEPT !.detached = @ \cup d]
  <2>1. CASE g \in thread.pending
    <3>1. thread' = [thread EXCEPT !.detached = @ \cup {g}]
      BY <2>1 DEF Update
    <3> QED  BY <3>1
  <2>2. CASE g \notin thread.pending
    <3>1. thread' = [thread EXCEPT !.detached = @ \cup {}]
      BY <2>2 DEF Update
    <3> QED  BY <3>1
  <2> QED  BY <2>1, <2>2
<1> QED  BY <1>4, <1>5, <1>6, <1>7, HandlerKeeps DEF Update, brokerVars

\* A step that only touches the account and the saved balance, and no
\* position.
LEMMA GridsUntouched ==
  ASSUME GridInv, UNCHANGED <<grid, thread, saved, positions, owner, dropped, lost, restarts>>,
         TypeOK', ReservationsFunded', savedCash' \in Nat
  PROVE  GridInv'
<1>1. ThreadTypes' /\ ThreadInv'
  <2>1. thread \in ThreadType
    BY DEF GridInv, GridTypes, ThreadTypes
  <2> QED  BY <2>1, TickGoesOn
<1>2. grid' \in [Grids -> Runner] /\ \A g \in Grids : Alike(grid[g], grid'[g])
  BY AlikeItself DEF GridInv, GridTypes
<1> QED  BY <1>1, <1>2, QuietKeeps

\* A start that is refused, a price change and the engine's save.
LEMMA MinorSteps ==
  ASSUME GridInv, (\E g \in Grids : StartRefused(g)) \/ MarketMoves \/ PersistBalance
  PROVE  GridInv'
<1>0. savedCash \in Nat
  BY DEF GridInv, GridTypes
<1>1. ASSUME NEW g \in Grids, StartRefused(g) PROVE GridInv'
  <2>1. TypeOK' /\ ReservationsFunded'
    BY <1>1, LockKeeps DEF StartRefused
  <2> QED  BY <1>0, <1>1, <2>1, GridsUntouched DEF StartRefused
<1>2. ASSUME NEW p \in Prices, SetPrice(p), UNCHANGED gridVars PROVE GridInv'
  <2>1. TypeOK' /\ ReservationsFunded'
    BY <1>2 DEF GridInv, GridTypes, TypeOK, SetPrice, ReservationsFunded, ReservedTotal
  <2> QED  BY <1>0, <1>2, <2>1, GridsUntouched DEF SetPrice, gridVars
<1>3. ASSUME PersistBalance PROVE GridInv'
  <2>1. TypeOK' /\ ReservationsFunded'
    BY <1>3, SameAccount DEF PersistBalance
  <2>2. cash \in Nat
    BY ReservedTotalType DEF GridInv, GridTypes, TypeOK, ReservationsFunded
  <2> QED  BY <1>3, <2>1, <2>2, GridsUntouched DEF PersistBalance, brokerVars
<1> QED  BY <1>1, <1>2, <1>3 DEF MarketMoves

-----------------------------------------------------------------------------
(* Handlers that wipe the levels of a grid *)

\* The held levels of a list can be counted; the empty list holds none.
LEMMA HeldCount ==
  /\ \A lv : /\ IsFiniteSet(HeldIn(lv))
             /\ Cardinality(HeldIn(lv)) \in Nat
  /\ IdleLevels \in [LevelIds -> Level]
  /\ \A l \in LevelIds : ~IdleLevels[l].held /\ IdleLevels[l].pos = 0
  /\ Cardinality(HeldIn(IdleLevels)) = 0
<1>1. IsFiniteSet(LevelIds)
  <2>1. 1 \in Int /\ NLevels \in Int
    OBVIOUS
  <2> QED  BY <2>1, FS_Interval DEF LevelIds
<1>2. ASSUME NEW lv
      PROVE  /\ IsFiniteSet(HeldIn(lv))
             /\ Cardinality(HeldIn(lv)) \in Nat
  <2>1. HeldIn(lv) \subseteq LevelIds
    BY DEF HeldIn
  <2> QED  BY <1>1, <2>1, FS_Subset, FS_CardinalityType
<1>3. IdleLevel \in Level
  BY DEF IdleLevel, Level
<1>4. \A l \in LevelIds : ~IdleLevels[l].held /\ IdleLevels[l].pos = 0
  BY DEF IdleLevels, IdleLevel
<1>5. HeldIn(IdleLevels) = {}
  BY <1>4 DEF HeldIn
<1> QED  BY <1>2, <1>3, <1>4, <1>5, FS_EmptySet DEF IdleLevels

\* The grid s is r with its levels wiped: held ones are written off, and the
\* reported profit moves into the past.
WipedOf(r, s) ==
    /\ s.level = IdleLevels
    /\ s.buys = r.buys /\ s.sells = r.sells
    /\ s.gone = r.gone + Cardinality(HeldIn(r.level))
    /\ s.cum + s.past = r.cum + r.past
    /\ s.torn = r.torn /\ s.exists = r.exists

\* A wipe keeps what is said of the grids, if the wiped positions are dropped.
LEMMA WipeGrids ==
  ASSUME GridInv, UNCHANGED <<positions, owner, lost, restarts>>,
         NEW g \in Grids, WipedOf(grid[g], grid'[g]),
         \A h \in Grids : h # g => grid'[h] = grid[h],
         dropped' = dropped \cup PositionsHeld(g)
  PROVE  /\ PositionInv' /\ LevelsOK(grid)' /\ BackingInv' /\ CountersOK(grid)'
         /\ NoForgottenPosition' /\ ProfitIsReported'
<1> USE DEF GridInv
<1>1. PositionInv'
  BY DEF PositionInv, FreshIsBlank, IsOpen
<1>2. \A l \in LevelIds : ~grid'[g].level[l].held /\ grid'[g].level[l].pos = 0
  BY HeldCount DEF WipedOf
<1>3. LevelsOK(grid)'
  <2> SUFFICES ASSUME NEW h \in Grids, NEW l \in LevelIds
               PROVE  LET lv == grid'[h].level[l]
                      IN  IF lv.held
                          THEN /\ lv.pos \in PosIds /\ owner'[lv.pos] = h
                               /\ positions'[lv.pos].state # "none"
                               /\ \A k \in LevelIds :
                                    grid'[h].level[k].held /\ grid'[h].level[k].pos = lv.pos
                                    => k = l
                          ELSE lv.pos = 0
    BY DEF LevelsOK
  <2>1. CASE h = g
    BY <1>2, <2>1
  <2>2. CASE h # g
    <3>1. LET lv == grid[h].level[l]
          IN  IF lv.held
              THEN /\ lv.pos \in PosIds /\ owner[lv.pos] = h
                   /\ positions[lv.pos].state # "none"
                   /\ \A k \in LevelIds :
                        grid[h].level[k].held /\ grid[h].level[k].pos = lv.pos => k = l
              ELSE lv.pos = 0
      BY DEF LevelsOK
    <3>2. grid'[h] = grid[h]
      BY <2>2
    <3> QED  BY <3>1, <3>2
  <2> QED  BY <2>1, <2>2
<1>4. BackingInv'
  <2> SUFFICES ASSUME NEW h \in Grids, NEW l \in LevelIds, grid'[h].level[l].held
               PROVE  \/ grid'[h].level[l].pos \in lost'
                      \/ /\ positions'[grid'[h].level[l].pos].state = "open"
                         /\ positions'[grid'[h].level[l].pos].qty = grid'[h].level[l].qty
    BY DEF BackingInv, IsOpen
  <2>1. h # g /\ grid'[h] = grid[h]
    BY <1>2
  <2> QED  BY <2>1 DEF BackingInv, IsOpen
<1>5. CountersOK(grid)'
  <2> SUFFICES ASSUME NEW h \in Grids, ~grid'[h].torn
               PROVE  grid'[h].buys = grid'[h].sells
                        + Cardinality(HeldIn(grid'[h].level)) + grid'[h].gone
    BY DEF CountersOK
  <2>1. CASE h # g
    BY <2>1 DEF CountersOK
  <2>2. CASE h = g
    <3> DEFINE n == Cardinality(HeldIn(grid[g].level))
    <3>1. /\ grid'[g].level = IdleLevels /\ grid'[g].buys = grid[g].buys
          /\ grid'[g].sells = grid[g].sells /\ grid'[g].gone = grid[g].gone + n
          /\ ~grid[g].torn
      BY <2>2 DEF WipedOf
    <3>2. grid[g].buys = grid[g].sells + n + grid[g].gone
      BY <3>1 DEF CountersOK
    <3>3. n \in Nat
      BY HeldCount
    <3>4. grid[g].buys \in Nat /\ grid[g].sells \in Nat /\ grid[g].gone \in Nat
      BY RunnerFields DEF GridTypes
    <3>5. Cardinality(HeldIn(grid'[g].level)) = 0
      <4>1. HeldIn(grid'[g].level) = HeldIn(IdleLevels)
        BY <3>1
      <4> QED  BY <4>1, HeldCount
    <3> HIDE DEF n
    <3> QED  BY <2>2, <3>1, <3>2, <3>3, <3>4, <3>5
  <2> QED  BY <2>1, <2>2
<1>6. NoForgottenPosition'
  <2> SUFFICES ASSUME NEW i \in PosIds, i \notin dropped', positions'[i].state = "open",
                      owner'[i] # 0, grid'[owner'[i]].exists
               PROVE  \E l \in LevelIds : /\ grid'[owner'[i]].level[l].held
                                          /\ grid'[owner'[i]].level[l].pos = i
    BY DEF NoForgottenPosition, HeldLevels, IsOpen
  <2>1. PICK h \in Grids : h = owner[i]
    BY DEF GridTypes
  <2>2. grid[h].exists
    BY <2>1 DEF WipedOf
  <2>3. PICK l \in LevelIds : grid[h].level[l].held /\ grid[h].level[l].pos = i
    BY <2>1, <2>2 DEF NoForgottenPosition, HeldLevels, IsOpen
  <2>4. h # g
    BY <2>3 DEF PositionsHeld, HeldLevels
  <2> QED  BY <2>1, <2>3, <2>4
<1>7. ProfitIsReported'
  <2>1. \A h \in Grids : grid'[h].cum + grid'[h].past = grid[h].cum + grid[h].past
    BY DEF WipedOf
  <2>2. Reported' = Reported /\ Earned' = Earned
    BY <2>1 DEF Reported, Earned
  <2>3. (\A h \in Grids : ~grid'[h].torn) => \A h \in Grids : ~grid[h].torn
    BY DEF WipedOf
  <2> QED  BY <2>2, <2>3 DEF ProfitIsReported, Reported, Earned
<1> QED  BY <1>1, <1>3, <1>4, <1>5, <1>6, <1>7

\* What is left to show of a handler that wipes the levels of a grid and
\* saves.
LEMMA WipeKeeps ==
  ASSUME GridInv, NEW g \in Grids, NEW r \in Runner, WipedOf(grid[g], r),
         SaveAs([grid EXCEPT ![g] = r]),
         dropped' = dropped \cup PositionsHeld(g),
         UNCHANGED brokerVars, UNCHANGED <<owner, lost, restarts, savedCash>>,
         ThreadTypes', ThreadInv'
  PROVE  GridInv'
<1>1. Only(g, r) /\ SavedNow
  BY DEF SaveAs, SavedNow, Only
<1>2. grid' \in [Grids -> Runner] /\ grid'[g] = r /\ \A h \in Grids : h # g => grid'[h] = grid[h]
  BY <1>1, OnlyTypes
<1>3. /\ PositionInv' /\ LevelsOK(grid)' /\ BackingInv' /\ CountersOK(grid)'
      /\ NoForgottenPosition' /\ ProfitIsReported'
  BY <1>2, WipeGrids DEF brokerVars
<1>4. saved' \in [Grids -> SavedRunner] /\ LevelsOK(saved)' /\ CountersOK(saved)'
  BY <1>1, <1>2, <1>3, SavedAsWell
<1>5. TypeOK' /\ ReservationsFunded'
  BY SameAccount
<1>6. GridTypes'
  BY <1>2, <1>4, <1>5 DEF GridInv, GridTypes
<1> QED  BY <1>3, <1>4, <1>5, <1>6 DEF GridInv

\* The tick that runs meanwhile finds every level of the wiped grid idle.
LEMMA WipedTick ==
  ASSUME GridInv, NEW g \in Grids, NEW r \in Runner, WipedOf(grid[g], r),
         SaveAs([grid EXCEPT ![g] = r]),
         dropped' = dropped \cup PositionsHeld(g)
  PROVE  /\ \A h \in Grids, l \in LevelIds : grid'[h].level[l].held => grid[h].level[l].held
         /\ \A l \in LevelIds : ~grid'[g].level[l].held
         /\ \A i \in PosIds : i \in dropped => i \in dropped'
         /\ \A l \in LevelIds : grid[g].level[l].held => grid[g].level[l].pos \in dropped'
<1>1. grid'[g] = r /\ \A h \in Grids : h # g => grid'[h] = grid[h]
  BY OnlyTypes DEF Only, SaveAs
<1>2. \A l \in LevelIds : ~grid'[g].level[l].held
  BY <1>1, HeldCount DEF WipedOf
<1> QED  BY <1>1, <1>2 DEF PositionsHeld, HeldLevels

\* An update that changes the number of levels keeps the invariant.
LEMMA RebuildKeeps ==
  ASSUME GridInv, NEW g \in Grids, Update(g, TRUE)
  PROVE  GridInv'
<1>0. grid \in [Grids -> Runner] /\ grid[g] \in Runner /\ thread \in ThreadType
  BY DEF GridInv, GridTypes, ThreadTypes
<1> DEFINE m == LastOf(grid[g].missed, SavedMissedCap)
           n == Cardinality(HeldIn(grid[g].level))
<1>1. m \in Seq(LevelIds) /\ Len(m) <= MissedCap
  <2>1. /\ grid[g].missed \in Seq(LevelIds) /\ Len(grid[g].missed) <= MissedCap
        /\ SavedMissedCap \in Nat /\ MissedCap \in Nat
    BY <1>0, RunnerFields
  <2>2. m \in Seq(LevelIds) /\ Len(m) <= Len(grid[g].missed)
    BY <2>1, LastOfType
  <2>3. Len(m) \in Nat /\ Len(grid[g].missed) \in Nat
    BY <2>1, <2>2
  <2> HIDE DEF m
  <2> QED  BY <2>1, <2>2, <2>3
<1>2. n \in Nat
  BY HeldCount
<1>3. Cardinality(HeldLevels(g)) = n
  BY DEF HeldLevels, HeldIn
<1> HIDE DEF m, n
<1>4. PICK r : r = [grid[g] EXCEPT !.activated = FALSE, !.missed = m, !.level = IdleLevels,
                                   !.gone = grid[g].gone + n]
  OBVIOUS
<1>5. SaveAs([grid EXCEPT ![g] = r])
  <2>1. [grid EXCEPT ![g].activated = FALSE,
                     ![g].missed = LastOf(@, SavedMissedCap),
                     ![g].level = IF TRUE THEN IdleLevels ELSE @,
                     ![g].gone = IF TRUE THEN @ + Cardinality(HeldLevels(g)) ELSE @]
        = [grid EXCEPT ![g] = r]
    BY <1>0, <1>3, <1>4 DEF Runner, GridType, m
  <2> QED  BY <2>1 DEF Update
<1>6. r \in Runner /\ WipedOf(grid[g], r)
  <2>1. grid[g] \in GridType /\ grid[g].gone \in Nat
    BY <1>0, RunnerFields DEF Runner
  <2>2. r \in GridType
    <3>1. IdleLevels \in [LevelIds -> Level] /\ grid[g].gone + n \in Nat /\ FALSE \in BOOLEAN
      BY <1>2, <2>1, HeldCount
    <3> QED  BY <1>1, <1>4, <2>1, <3>1 DEF GridType
  <2>3. r.missed = m
    BY <1>4, <2>1 DEF GridType
  <2>4. /\ r.level = IdleLevels /\ r.buys = grid[g].buys /\ r.sells = grid[g].sells
        /\ r.gone = grid[g].gone + n /\ r.cum = grid[g].cum /\ r.past = grid[g].past
        /\ r.torn = grid[g].torn /\ r.exists = grid[g].exists
    BY <1>4, <2>1 DEF GridType
  <2> QED  BY <1>1, <2>2, <2>3, <2>4 DEF Runner, WipedOf, n
<1>7. thread' = [thread EXCEPT !.detached = IF g \in thread.pending THEN @ \cup {g} ELSE @]
      /\ dropped' = dropped \cup PositionsHeld(g) /\ owner' = owner
  BY DEF Update
<1>8. ThreadTypes' /\ ThreadInv'
  <2>1. /\ thread' \in ThreadType
        /\ thread'.pc = thread.pc /\ thread'.at = thread.at /\ thread'.px = thread.px
        /\ thread'.next = thread.next /\ thread'.view = thread.view
        /\ thread'.orphan = thread.orphan /\ thread'.own = thread.own
        /\ \A h \in Grids : h \in thread.detached => h \in thread'.detached
    BY <1>0, <1>7 DEF ThreadType
  <2> QED  BY <1>5, <1>6, <1>7, <2>1, WipedTick, TickGoesOn
<1> QED  BY <1>5, <1>6, <1>7, <1>8, WipeKeeps DEF Update

\* So does a reset; if the tick works on the runner an update replaced, that
\* runner keeps the lists with the dropped positions.
LEMMA ResetKeeps ==
  ASSUME GridInv, NEW g \in Grids, ResetState(g)
  PROVE  GridInv'
<1>0. grid \in [Grids -> Runner] /\ grid[g] \in Runner /\ thread \in ThreadType /\ ThreadTypes
  BY DEF GridInv, GridTypes, ThreadTypes
<1> DEFINE n == Cardinality(HeldIn(grid[g].level))
<1>2. n \in Nat
  BY HeldCount
<1>3. Cardinality(HeldLevels(g)) = n
  BY DEF HeldLevels, HeldIn
<1> HIDE DEF n
<1>4. PICK r : r = [grid[g] EXCEPT !.level = IdleLevels, !.cum = 0,
                           !.pair = [l \in LevelIds |-> 0], !.fills = 0,
                           !.missed = <<>>, !.activated = (ActivationPrice = 0),
                           !.gone = grid[g].gone + n,
                           !.past = grid[g].past + grid[g].cum]
  OBVIOUS
<1>5. SaveAs([grid EXCEPT ![g] = r])
  <2>1. [grid EXCEPT ![g].level = IdleLevels, ![g].cum = 0,
                           ![g].pair = [l \in LevelIds |-> 0], ![g].fills = 0,
                           ![g].missed = <<>>, ![g].activated = ActivationPrice = 0,
                           ![g].gone = @ + Cardinality(HeldLevels(g)),
                           ![g].past = @ + grid[g].cum]
        = [grid EXCEPT ![g] = r]
    BY <1>0, <1>3, <1>4 DEF Runner, GridType
  <2> QED  BY <2>1 DEF ResetState
<1>6. r \in Runner /\ WipedOf(grid[g], r)
  <2>1. grid[g] \in GridType /\ grid[g].gone \in Nat /\ grid[g].past \in Int /\ grid[g].cum \in Int
    BY <1>0, RunnerFields DEF Runner
  <2>2. /\ <<>> \in Seq(LevelIds) /\ Len(<<>>) = 0 /\ [l \in LevelIds |-> 0] \in [LevelIds -> Nat]
        /\ (ActivationPrice = 0) \in BOOLEAN /\ MissedCap \in Nat
    OBVIOUS
  <2>3. r \in GridType
    <3>1. /\ IdleLevels \in [LevelIds -> Level] /\ grid[g].gone + n \in Nat
          /\ grid[g].past + grid[g].cum \in Int /\ 0 \in Int /\ 0 \in Nat
      BY <1>2, <2>1, HeldCount
    <3> QED  BY <1>4, <2>1, <2>2, <3>1 DEF GridType
  <2>4. r.missed = <<>>
    BY <1>4, <2>1 DEF GridType
  <2>5. /\ r.level = IdleLevels /\ r.buys = grid[g].buys /\ r.sells = grid[g].sells
        /\ r.gone = grid[g].gone + n /\ r.cum = 0 /\ r.past = grid[g].past + grid[g].cum
        /\ r.torn = grid[g].torn /\ r.exists = grid[g].exists
    BY <1>4, <2>1 DEF GridType
  <2>6. r \in Runner
    BY <2>2, <2>3, <2>4 DEF Runner
  <2>7. WipedOf(grid[g], r)
    BY <2>1, <2>5 DEF WipedOf, n
  <2> QED  BY <2>6, <2>7
<1>7. dropped' = dropped \cup PositionsHeld(g) /\ owner' = owner
  BY DEF ResetState
<1>8. ThreadTypes' /\ ThreadInv'
  <2>1. CASE ~(g = thread.at /\ g \in thread.detached /\ ~thread.orphan)
    <3>1. thread' = thread
      BY <2>1 DEF ResetState
    <3> QED  BY <1>0, <1>5, <1>6, <1>7, <3>1, WipedTick, TickGoesOn
  <2>2. CASE g = thread.at /\ g \in thread.detached /\ ~thread.orphan
    <3>1. thread' = [thread EXCEPT !.orphan = TRUE, !.own = grid[g].level]
      BY <2>2 DEF ResetState
    <3>2. /\ thread' \in ThreadType
          /\ thread'.pc = thread.pc /\ thread'.at = thread.at /\ thread'.px = thread.px
          /\ thread'.next = thread.next /\ thread'.view = thread.view
          /\ thread'.detached = thread.detached /\ thread'.own = grid[g].level
      BY <1>0, <3>1, RunnerFields DEF ThreadType
    <3>3. ThreadTypes'
      BY <1>0, <3>2 DEF ThreadTypes
    <3>4. \A l \in LevelIds : ~grid'[g].level[l].held
      BY <1>5, <1>6, <1>7, WipedTick
    <3>5. \A l \in LevelIds :
            IF thread'.own[l].held
            THEN /\ thread'.own[l].pos \in PosIds /\ thread'.own[l].pos \in dropped'
                 /\ owner'[thread'.own[l].pos] = thread'.at
            ELSE thread'.own[l].pos = 0
      <4> SUFFICES ASSUME NEW l \in LevelIds
                   PROVE  IF grid[g].level[l].held
                          THEN /\ grid[g].level[l].pos \in PosIds
                               /\ grid[g].level[l].pos \in dropped'
                               /\ owner[grid[g].level[l].pos] = g
                          ELSE grid[g].level[l].pos = 0
        BY <1>7, <2>2, <3>2
      <4>1. IF grid[g].level[l].held
            THEN grid[g].level[l].pos \in PosIds /\ owner[grid[g].level[l].pos] = g
            ELSE grid[g].level[l].pos = 0
        BY DEF GridInv, LevelsOK
      <4>2. grid[g].level[l].held => grid[g].level[l].pos \in dropped'
        BY <1>5, <1>6, <1>7, WipedTick
      <4> QED  BY <4>1, <4>2
    <3> QED  BY <2>2, <3>2, <3>3, <3>4, <3>5 DEF ThreadInv
  <2> QED  BY <2>1, <2>2
<1> QED  BY <1>5, <1>6, <1>7, <1>8, WipeKeeps DEF ResetState

-----------------------------------------------------------------------------
(* Steps of the price thread that trade nothing *)

\* A thread step that moves no position and leaves the files alone.
LEMMA ThreadKeeps ==
  ASSUME GridInv, TypeOK', ReservationsFunded', UNCHANGED <<positions, saved, savedCash, owner, dropped, lost, restarts>>,
         grid' \in [Grids -> Runner], \A g \in Grids : Alike(grid[g], grid'[g]),
         ThreadTypes', ThreadInv'
  PROVE  GridInv'
<1>1. savedCash' \in Nat
  BY DEF GridInv, GridTypes
<1> QED  BY <1>1, QuietKeeps

\* What a write of the runner r to grid g leaves behind.
LEMMA WriteShape ==
  ASSUME GridInv, NEW g \in Grids, NEW r \in Runner, Write(g, r)
  PROVE  /\ grid' \in [Grids -> Runner]
         /\ \A h \in Grids : h # g => grid'[h] = grid[h]
         /\ g \notin thread.detached => grid'[g] = r
         /\ g \in thread.detached =>
              /\ grid'[g].torn
              /\ grid'[g].level = IF thread.orphan THEN grid[g].level ELSE r.level
              /\ grid'[g].buys = grid[g].buys /\ grid'[g].sells = grid[g].sells
              /\ grid'[g].gone = grid[g].gone /\ grid'[g].cum = grid[g].cum
              /\ grid'[g].past = grid[g].past /\ grid'[g].exists = grid[g].exists
<1>0. grid \in [Grids -> Runner] /\ grid[g] \in GridType /\ Len(grid[g].missed) <= MissedCap
  BY DEF GridInv, GridTypes, Runner
<1>1. CASE g \notin thread.detached
  <2>1. Only(g, r)
    BY <1>1 DEF Write, Only
  <2> QED  BY <1>1, <2>1, OnlyTypes
<1>2. CASE g \in thread.detached
  <2>1. PICK lv : lv = IF thread.orphan THEN grid[g].level ELSE r.level
    OBVIOUS
  <2>2. PICK s : s = [grid[g] EXCEPT !.level = lv, !.torn = TRUE]
    OBVIOUS
  <2>3. lv \in [LevelIds -> Level]
    BY <1>0, <2>1, RunnerFields
  <2>4. /\ s \in GridType /\ s.missed = grid[g].missed /\ s.torn /\ s.level = lv
        /\ s.buys = grid[g].buys /\ s.sells = grid[g].sells
        /\ s.gone = grid[g].gone /\ s.cum = grid[g].cum
        /\ s.past = grid[g].past /\ s.exists = grid[g].exists
    BY <1>0, <2>2, <2>3 DEF GridType
  <2>5. s \in Runner
    BY <1>0, <2>4 DEF Runner
  <2>6. Only(g, s)
    BY <1>2, <2>1, <2>2 DEF Write, Only
  <2>7. grid' \in [Grids -> Runner] /\ grid'[g] = s /\ \A h \in Grids : h # g => grid'[h] = grid[h]
    BY <2>5, <2>6, OnlyTypes
  <2> QED  BY <1>2, <2>1, <2>4, <2>7
<1> QED  BY <1>1, <1>2

\* Writing back a grid whose levels and statistics are the same.
LEMMA WriteAlike ==
  ASSUME GridInv, NEW g \in Grids, NEW r \in Runner, Alike(grid[g], r), Write(g, r)
  PROVE  grid' \in [Grids -> Runner] /\ \A h \in Grids : Alike(grid[h], grid'[h])
<1>1. grid' \in [Grids -> Runner] /\ \A h \in Grids : h # g => Alike(grid[h], grid'[h])
  BY WriteShape, AlikeItself
<1>2. CASE g \notin thread.detached
  BY <1>1, <1>2, WriteShape
<1>3. CASE g \in thread.detached
  <2>1. /\ grid'[g].torn
        /\ grid'[g].level = grid[g].level \/ grid'[g].level = r.level
        /\ grid'[g].buys = grid[g].buys /\ grid'[g].sells = grid[g].sells
        /\ grid'[g].gone = grid[g].gone /\ grid'[g].cum = grid[g].cum
        /\ grid'[g].past = grid[g].past /\ grid'[g].exists = grid[g].exists
    BY <1>3, WriteShape
  <2>2. Alike(grid[g], grid'[g])
    BY <2>1 DEF Alike
  <2> QED  BY <1>1, <2>2
<1> QED  BY <1>2, <1>3

\* The thread moves on to the next lower level of the same grid.
LEMMA MovedOn ==
  ASSUME GridInv, NEW l \in LevelIds, Visiting(l), NEW did \in BOOLEAN, Moved(did)
  PROVE  /\ thread' \in ThreadType /\ thread.at \in Grids
         /\ thread'.pc = thread.pc /\ thread'.at = thread.at /\ thread'.px = thread.px
         /\ thread'.next = thread.next - 1 /\ thread'.next <= thread.next
         /\ thread'.view = thread.view
         /\ thread'.orphan = thread.orphan /\ thread'.own = thread.own
         /\ thread'.detached = thread.detached
         /\ thread.px \in Prices
<1>1. thread \in ThreadType /\ thread.next = l /\ thread.at \in Grids /\ thread.px \in Prices
  BY DEF GridInv, GridTypes, ThreadTypes, Visiting
<1>2. l - 1 \in 0..NLevels /\ l - 1 <= l
  BY DEF LevelIds
<1>3. (thread.legChanged \/ did) \in BOOLEAN
  OBVIOUS
<1>4. thread' = [thread EXCEPT !.next = l - 1, !.legChanged = thread.legChanged \/ did]
  BY <1>1 DEF Moved
<1> QED  BY <1>1, <1>2, <1>3, <1>4 DEF ThreadType

\* The thread leaves a grid.
LEMMA LeftGrid ==
  ASSUME GridInv, thread.pc \in {"levels", "retry"}, NEW did \in BOOLEAN, LeaveGrid(did)
  PROVE  ThreadTypes' /\ ThreadInv'
<1>1. thread \in ThreadType /\ thread.px \in Prices
  BY DEF GridInv, GridTypes, ThreadTypes
<1>2. /\ (thread.changed \/ did) \in BOOLEAN /\ IdleLevels \in [LevelIds -> Level]
      /\ <<>> \in Seq(LevelIds) /\ 0 \in 0..NLevels
  BY HeldCount
<1>3. /\ thread' \in ThreadType /\ thread'.pc = "grids" /\ thread'.px = thread.px
      /\ ~thread'.orphan /\ thread'.at = 0
  BY <1>1, <1>2 DEF LeaveGrid, ThreadType
<1> QED  BY <1>1, <1>3 DEF ThreadTypes, ThreadInv

\* The cycle begins: capital is locked, prices are fetched, grids entered.
LEMMA CycleSteps ==
  ASSUME GridInv,
         BeginCycle \/ FetchPrices \/ EndCycle \/ \E g \in Grids : Relock(g) \/ EnterGrid(g)
  PROVE  GridInv'
<1>0. /\ grid \in [Grids -> Runner] /\ thread \in ThreadType /\ ThreadTypes /\ savedCash \in Nat
      /\ price \in Prices
  BY DEF GridInv, GridTypes, ThreadTypes, TypeOK
<1>a. NoTick \in ThreadType /\ ~NoTick.orphan /\ NoTick.pc = "idle" /\ NoTick.at = 0
  <2>1. <<>> \in Seq(LevelIds) /\ IdleLevels \in [LevelIds -> Level] /\ 0 \in 0..NLevels /\ 0 \in Nat
    BY HeldCount
  <2> QED  BY <2>1 DEF NoTick, ThreadType
<1>b. \A g \in Grids : Alike(grid[g], grid[g])
  BY AlikeItself
<1>1. ASSUME BeginCycle PROVE GridInv'
  <2>1. PICK n \in SUBSET Grids : thread' = [NoTick EXCEPT !.pc = "lock", !.lock = n, !.pending = n]
    BY <1>1 DEF BeginCycle
  <2>2. thread' \in ThreadType /\ thread'.pc = "lock" /\ ~thread'.orphan /\ thread'.at = 0
    BY <1>a, <2>1 DEF ThreadType
  <2>3. ThreadTypes' /\ ThreadInv'
    BY <2>2 DEF ThreadTypes, ThreadInv
  <2>4. TypeOK' /\ ReservationsFunded'
    BY <1>1, SameAccount DEF BeginCycle, ThreadOnly
  <2> QED  BY <1>0, <1>1, <1>b, <2>3, <2>4, ThreadKeeps DEF BeginCycle, ThreadOnly, brokerVars
<1>2. ASSUME FetchPrices PROVE GridInv'
  <2>1. thread' = [thread EXCEPT !.pc = "grids", !.px = price] /\ thread.pc = "lock"
    BY <1>2 DEF FetchPrices
  <2>2. price \in Nat
    BY <1>0
  <2>3. /\ thread' \in ThreadType /\ thread'.pc = "grids" /\ thread'.px = price
        /\ thread'.orphan = thread.orphan /\ thread'.at = thread.at /\ thread'.own = thread.own
        /\ thread'.detached = thread.detached
    BY <1>0, <2>1, <2>2 DEF ThreadType
  <2>4. ThreadTypes'
    <3>1. thread.at = 0
      BY <1>0, <2>1 DEF ThreadTypes
    <3> QED  BY <1>0, <2>3, <3>1 DEF ThreadTypes
  <2>5. ThreadInv'
    <3>1. UNCHANGED <<grid, dropped, owner>>
      BY <1>2 DEF FetchPrices, ThreadOnly
    <3> QED  BY <2>3, <3>1 DEF GridInv, ThreadInv
  <2>6. TypeOK' /\ ReservationsFunded'
    BY <1>2, SameAccount DEF FetchPrices, ThreadOnly
  <2> QED  BY <1>0, <1>2, <1>b, <2>4, <2>5, <2>6, ThreadKeeps DEF FetchPrices, ThreadOnly, brokerVars
<1>3. ASSUME EndCycle PROVE GridInv'
  <2>1. thread' = NoTick
    BY <1>3 DEF EndCycle
  <2>2. ThreadTypes' /\ ThreadInv'
    BY <1>a, <2>1 DEF ThreadTypes, ThreadInv
  <2>3. grid' = grid /\ (UNCHANGED saved \/ SavedNow)
    BY <1>3 DEF EndCycle, SaveAs, SavedNow
  <2>4. TypeOK' /\ ReservationsFunded'
    BY <1>3, SameAccount DEF EndCycle
  <2> QED  BY <1>0, <1>3, <1>b, <2>2, <2>3, <2>4, QuietKeeps DEF EndCycle, brokerVars
<1>4. ASSUME NEW g \in Grids, Relock(g) PROVE GridInv'
  <2>1. thread' = [thread EXCEPT !.lock = @ \ {g}]
    BY <1>4 DEF Relock
  <2>2. /\ thread' \in ThreadType
        /\ thread'.pc = thread.pc /\ thread'.at = thread.at /\ thread'.px = thread.px
        /\ thread'.next = thread.next /\ thread'.view = thread.view
        /\ thread'.orphan = thread.orphan /\ thread'.own = thread.own
        /\ thread'.detached = thread.detached
    BY <1>0, <2>1 DEF ThreadType
  <2>3. ThreadTypes' /\ ThreadInv'
    BY <1>4, <2>2, TickGoesOn DEF Relock
  <2>4. TypeOK' /\ ReservationsFunded'
    BY <1>4, LockKeeps DEF Relock
  <2> QED  BY <1>0, <1>4, <1>b, <2>3, <2>4, ThreadKeeps DEF Relock
<1>5. ASSUME NEW g \in Grids, EnterGrid(g) PROVE GridInv'
  <2>1. TypeOK' /\ ReservationsFunded'
    BY <1>5, SameAccount DEF EnterGrid
  <2>2. CASE thread' = [thread EXCEPT !.pending = @ \ {g}] /\ grid' = grid
    <3>1. /\ thread' \in ThreadType
          /\ thread'.pc = thread.pc /\ thread'.at = thread.at /\ thread'.px = thread.px
          /\ thread'.next = thread.next /\ thread'.view = thread.view
          /\ thread'.orphan = thread.orphan /\ thread'.own = thread.own
          /\ thread'.detached = thread.detached
      BY <1>0, <2>2 DEF ThreadType
    <3>2. ThreadTypes' /\ ThreadInv'
      BY <1>5, <2>2, <3>1, TickGoesOn DEF EnterGrid
    <3> QED  BY <1>0, <1>5, <1>b, <2>1, <2>2, <3>2, ThreadKeeps DEF EnterGrid, brokerVars
  <2>3. CASE /\ grid' = [grid EXCEPT ![g].activated = TRUE]
             /\ thread' = [thread EXCEPT !.pc = "levels", !.at = g, !.next = NLevels,
                                         !.view = grid[g].level, !.legChanged = FALSE]
             /\ grid[g].running /\ g \notin thread.detached
    <3>1. PICK r : r = [grid[g] EXCEPT !.activated = TRUE]
      OBVIOUS
    <3>2. r \in Runner /\ Alike(grid[g], r)
      <4>1. r = [grid[g] EXCEPT !.exists = grid[g].exists, !.running = grid[g].running,
                                !.activated = TRUE, !.missed = grid[g].missed]
        BY <1>0, <3>1 DEF Runner, GridType
      <4>2. grid[g] \in Runner
        BY <1>0
      <4>3. /\ grid[g].exists \in BOOLEAN /\ grid[g].running \in BOOLEAN /\ TRUE \in BOOLEAN
            /\ grid[g].missed \in Seq(LevelIds) /\ Len(grid[g].missed) <= MissedCap
        BY <4>2, RunnerFields
      <4> QED  BY <4>1, <4>2, <4>3, FlagTypes
    <3>3. Only(g, r)
      BY <1>0, <2>3, <3>1 DEF Only, Runner, GridType
    <3>4. grid' \in [Grids -> Runner] /\ grid'[g] = r /\ \A h \in Grids : h # g => grid'[h] = grid[h]
      BY <3>2, <3>3, OnlyTypes
    <3>5. \A h \in Grids : Alike(grid[h], grid'[h])
      BY <3>2, <3>4, AlikeItself
    <3>6. /\ thread' \in ThreadType /\ thread'.pc = "levels" /\ thread'.at = g
          /\ thread'.px = thread.px /\ thread'.view = grid[g].level
          /\ thread'.orphan = thread.orphan /\ thread'.detached = thread.detached
          /\ thread'.own = thread.own
      <4>1. grid[g].level \in [LevelIds -> Level] /\ NLevels \in 0..NLevels
        BY <1>0, RunnerFields
      <4> QED  BY <1>0, <2>3, <4>1 DEF ThreadType
    <3>7. ThreadTypes'
      BY <1>0, <1>5, <3>6 DEF ThreadTypes, EnterGrid
    <3>8. ~thread.orphan
      <4>1. thread.at = 0
        <5>1. thread.pc = "grids"
          BY <1>5 DEF EnterGrid
        <5> QED  BY <1>0, <5>1 DEF ThreadTypes
      <4>2. 0 \notin Grids
        BY DEF Grids, Keys
      <4> QED  BY <4>1, <4>2 DEF GridInv, ThreadInv
    <3>9. ThreadInv'
      BY <3>5, <3>6, <3>8 DEF ThreadInv, Alike
    <3> QED  BY <1>5, <2>1, <3>4, <3>5, <3>7, <3>9, ThreadKeeps DEF EnterGrid, brokerVars
  <2> QED  BY <1>5, <2>2, <2>3 DEF EnterGrid
<1> QED  BY <1>1, <1>2, <1>3, <1>4, <1>5

\* A level that is refused or left alone.
LEMMA QuietVisit ==
  ASSUME GridInv, NEW g \in Grids, NEW l \in LevelIds, VisitMiss(g, l) \/ VisitNothing(g, l)
  PROVE  GridInv'
<1>0. grid \in [Grids -> Runner] /\ grid[g] \in Runner
  BY DEF GridInv, GridTypes
<1>1. TypeOK' /\ ReservationsFunded'
  BY SameAccount DEF VisitMiss, VisitNothing, ThreadOnly
<1>2. grid' \in [Grids -> Runner] /\ \A h \in Grids : Alike(grid[h], grid'[h])
  <2>1. CASE VisitMiss(g, l)
    <3> DEFINE m == LastOf(Append(grid[g].missed, l), MissedCap)
    <3>1. m \in Seq(LevelIds) /\ Len(m) <= MissedCap
      <4>1. grid[g].missed \in Seq(LevelIds)
        BY <1>0, RunnerFields
      <4>2. Append(grid[g].missed, l) \in Seq(LevelIds) /\ MissedCap \in Nat
        BY <4>1
      <4> QED  BY <4>2, LastOfType
    <3> HIDE DEF m
    <3>2. PICK r : r = [grid[g] EXCEPT !.missed = m]
      OBVIOUS
    <3>3. r = [grid[g] EXCEPT !.exists = grid[g].exists, !.running = grid[g].running,
                              !.activated = grid[g].activated, !.missed = m]
      BY <1>0, <3>2 DEF Runner, GridType
    <3>4. r \in Runner /\ Alike(grid[g], r)
      <4>1. /\ grid[g].exists \in BOOLEAN /\ grid[g].running \in BOOLEAN
            /\ grid[g].activated \in BOOLEAN
        BY <1>0, RunnerFields
      <4> QED  BY <1>0, <3>1, <3>3, <4>1, FlagTypes
    <3>5. Write(g, r)
      BY <2>1, <3>2 DEF VisitMiss, m
    <3> QED  BY <3>4, <3>5, WriteAlike
  <2>2. CASE VisitNothing(g, l)
    BY <1>0, <2>2, AlikeItself DEF VisitNothing, ThreadOnly
  <2> QED  BY <2>1, <2>2
<1>3. PICK did \in BOOLEAN : Moved(did)
  BY DEF VisitMiss, VisitNothing
<1>4. ThreadTypes' /\ ThreadInv'
  <2>1. \A h \in Grids, k \in LevelIds : grid'[h].level[k].held => grid[h].level[k].held
    BY <1>2 DEF Alike
  <2>2. Visiting(l) /\ UNCHANGED <<dropped, owner>>
    BY DEF VisitMiss, VisitNothing, ThreadOnly
  <2> QED  BY <1>3, <2>1, <2>2, MovedOn, TickFollows
<1> QED  BY <1>1, <1>2, <1>4, ThreadKeeps DEF VisitMiss, VisitNothing, ThreadOnly, brokerVars

\* A roll-up moves the targets of the held levels and nothing else.
LEMMA RolledUpAlike ==
  ASSUME GridInv, NEW g \in Grids, grid[g].shift < MaxShift
  PROVE  RolledUp(g) \in Runner /\ Alike(grid[g], RolledUp(g))
<1>0. /\ grid[g] \in Runner /\ grid[g] \in GridType /\ grid[g].shift \in 0..MaxShift
      /\ grid[g].level \in [LevelIds -> Level] /\ Len(grid[g].missed) <= MissedCap
  <2>1. grid[g] \in Runner
    BY DEF GridInv, GridTypes
  <2> QED  BY <2>1, RunnerFields DEF Runner
<1> DEFINE lv == [l \in LevelIds |-> IF grid[g].level[l].held
                                     THEN [grid[g].level[l] EXCEPT !.target = Target(g, l) + Span]
                                     ELSE grid[g].level[l]]
<1>1. \A l \in LevelIds : Target(g, l) + Span \in Nat
  <2> TAKE l \in LevelIds
  <2>1. Target(g, l) \in Nat /\ Span \in Nat
    BY LevelPriceType, SpanType DEF GridInv
  <2> QED  BY <2>1
<1>2. ASSUME NEW l \in LevelIds
      PROVE  /\ lv[l] \in Level /\ lv[l].held = grid[g].level[l].held
             /\ lv[l].pos = grid[g].level[l].pos /\ lv[l].qty = grid[g].level[l].qty
  <2>1. PICK t \in Nat : t = Target(g, l) + Span
    BY <1>1
  <2>2. grid[g].level[l] \in Level
    BY <1>0
  <2>3. lv[l] = IF grid[g].level[l].held THEN [grid[g].level[l] EXCEPT !.target = t]
                                         ELSE grid[g].level[l]
    BY <2>1
  <2> QED  BY <2>2, <2>3 DEF Level
<1>3. lv \in [LevelIds -> Level]
  BY <1>2
<1>4. RolledUp(g) = [grid[g] EXCEPT !.shift = grid[g].shift + 1, !.level = lv]
  BY <1>0 DEF RolledUp, GridType
<1> HIDE DEF lv
<1>5. grid[g].shift + 1 \in 0..MaxShift
  BY <1>0
<1>6. PICK s : s = [grid[g] EXCEPT !.shift = grid[g].shift + 1, !.level = lv]
  OBVIOUS
<1>7. s \in GridType
  BY <1>0, <1>3, <1>5, <1>6 DEF GridType
<1>8. /\ s.level = lv /\ s.missed = grid[g].missed
      /\ s.buys = grid[g].buys /\ s.sells = grid[g].sells /\ s.gone = grid[g].gone
      /\ s.cum = grid[g].cum /\ s.past = grid[g].past /\ s.torn = grid[g].torn
      /\ s.exists = grid[g].exists
  BY <1>0, <1>6 DEF GridType
<1>9. s \in Runner
  BY <1>0, <1>7, <1>8 DEF Runner
<1>10. Alike(grid[g], s)
  BY <1>2, <1>8 DEF Alike
<1> QED  BY <1>4, <1>6, <1>9, <1>10

\* The end of a grid's levels.
LEMMA AfterLevelsKeeps ==
  ASSUME GridInv, NEW g \in Grids, AfterLevels(g)
  PROVE  GridInv'
<1>0. /\ grid \in [Grids -> Runner] /\ grid[g] \in Runner /\ thread \in ThreadType
      /\ thread.pc = "levels" /\ g = thread.at
  BY DEF GridInv, GridTypes, ThreadTypes, AfterLevels
<1>1. TypeOK' /\ ReservationsFunded'
  BY SameAccount DEF AfterLevels
<1> DEFINE rolls == TrailingUp /\ thread.px > LevelPrice(g, NLevels)
           did == thread.legChanged \/ rolls
<1>2. rolls \in BOOLEAN /\ did \in BOOLEAN
  OBVIOUS
<1>3. grid' \in [Grids -> Runner] /\ \A h \in Grids : Alike(grid[h], grid'[h])
  <2>1. CASE rolls
    <3>1. Write(g, RolledUp(g)) /\ grid[g].shift < MaxShift
      BY <2>1 DEF AfterLevels
    <3> QED  BY <3>1, RolledUpAlike, WriteAlike
  <2>2. CASE ~rolls
    <3>1. grid' = grid
      BY <2>2 DEF AfterLevels
    <3> QED  BY <1>0, <3>1, AlikeItself
  <2> QED  BY <2>1, <2>2
<1> HIDE DEF rolls
<1>4. ThreadTypes' /\ ThreadInv'
  <2>1. CASE LeaveGrid(did)
    BY <1>0, <1>2, <2>1, LeftGrid
  <2>2. CASE thread' = [thread EXCEPT !.pc = "retry", !.queue = grid[g].missed, !.legChanged = did]
    <3>1. grid[g].missed \in Seq(LevelIds)
      BY <1>0, RunnerFields
    <3> HIDE DEF did
    <3>2. /\ thread' \in ThreadType /\ thread'.pc = "retry"
          /\ thread'.at = thread.at /\ thread'.px = thread.px
          /\ thread'.next = thread.next /\ thread'.view = thread.view
          /\ thread'.orphan = thread.orphan /\ thread'.own = thread.own
          /\ thread'.detached = thread.detached
      BY <1>0, <1>2, <2>2, <3>1 DEF ThreadType
    <3>3. thread'.next <= thread.next
      BY <3>2 DEF ThreadType
    <3>4. \A h \in Grids, k \in LevelIds : grid'[h].level[k].held => grid[h].level[k].held
      BY <1>3 DEF Alike
    <3>5. UNCHANGED <<dropped, owner>>
      BY DEF AfterLevels
    <3> QED  BY <1>0, <3>2, <3>3, <3>4, <3>5, TickFollows
  <2> QED  BY <2>1, <2>2 DEF AfterLevels, rolls
<1> QED  BY <1>1, <1>3, <1>4, ThreadKeeps DEF AfterLevels, brokerVars

\* A retry that is dropped, kept for later or refused again.
LEMMA QuietRetry ==
  ASSUME GridInv, NEW g \in Grids, NEW l \in LevelIds,
         RetryDrop(g, l) \/ RetryKeep(g, l) \/ RetryFail(g, l)
  PROVE  GridInv'
<1>0. /\ grid \in [Grids -> Runner] /\ thread \in ThreadType /\ thread.pc = "retry"
      /\ thread.queue \in Seq(LevelIds) /\ thread.queue # <<>> /\ thread.kept \in Seq(LevelIds)
  <2>1. grid \in [Grids -> Runner] /\ thread \in ThreadType
    BY DEF GridInv, GridTypes, ThreadTypes
  <2> QED  BY <2>1 DEF RetryDrop, RetryKeep, RetryFail, Retrying, ThreadType
<1>1. TypeOK' /\ ReservationsFunded'
  BY SameAccount DEF RetryDrop, RetryKeep, RetryFail, ThreadOnly
<1>2. Tail(thread.queue) \in Seq(LevelIds) /\ Append(thread.kept, l) \in Seq(LevelIds)
      /\ Append(Tail(thread.queue), l) \in Seq(LevelIds)
  <2>1. Tail(thread.queue) \in Seq(LevelIds)
    BY <1>0
  <2> QED  BY <1>0, <2>1
<1>3. PICK q \in Seq(LevelIds), k \in Seq(LevelIds), w \in BOOLEAN :
        thread' = [thread EXCEPT !.queue = q, !.kept = k, !.grew = w]
  <2>0. thread.grew \in BOOLEAN
    BY <1>0 DEF ThreadType
  <2>1. CASE RetryDrop(g, l)
    <3>1. thread' = [thread EXCEPT !.queue = Tail(thread.queue), !.kept = thread.kept,
                                   !.grew = thread.grew]
      BY <1>0, <2>1 DEF RetryDrop, ThreadType
    <3> QED  BY <1>0, <1>2, <2>0, <3>1
  <2>2. CASE RetryKeep(g, l)
    <3>1. thread' = [thread EXCEPT !.queue = Tail(thread.queue), !.kept = Append(thread.kept, l),
                                   !.grew = thread.grew]
      BY <1>0, <2>2 DEF RetryKeep, ThreadType
    <3> QED  BY <1>0, <1>2, <2>0, <3>1
  <2>3. CASE RetryFail(g, l)
    <3>1. PICK q : q = IF thread.grew THEN Tail(thread.queue) ELSE Append(Tail(thread.queue), l)
      OBVIOUS
    <3>2. q \in Seq(LevelIds)
      BY <1>2, <3>1
    <3>3. thread' = [thread EXCEPT !.queue = q, !.kept = Append(thread.kept, l), !.grew = TRUE]
      BY <1>0, <2>3, <3>1 DEF RetryFail, ThreadType
    <3> QED  BY <1>2, <3>2, <3>3
  <2> QED  BY <2>1, <2>2, <2>3
<1>4. /\ thread' \in ThreadType
      /\ thread'.pc = thread.pc /\ thread'.at = thread.at /\ thread'.px = thread.px
      /\ thread'.next = thread.next /\ thread'.view = thread.view
      /\ thread'.orphan = thread.orphan /\ thread'.own = thread.own
      /\ thread'.detached = thread.detached
  BY <1>0, <1>3 DEF ThreadType
<1>5. UNCHANGED <<grid, brokerVars, saved, savedCash, owner, dropped, lost, restarts>>
  BY DEF RetryDrop, RetryKeep, RetryFail, ThreadOnly
<1>6. ThreadTypes' /\ ThreadInv'
  BY <1>4, <1>5, TickGoesOn
<1>7. grid' \in [Grids -> Runner] /\ \A h \in Grids : Alike(grid[h], grid'[h])
  BY <1>0, <1>5, AlikeItself
<1> QED  BY <1>1, <1>5, <1>6, <1>7, ThreadKeeps DEF brokerVars

\* The end of the retries.
LEMMA RetryDoneKeeps ==
  ASSUME GridInv, NEW g \in Grids, RetryDone(g)
  PROVE  GridInv'
<1>0. /\ grid[g] \in Runner /\ thread \in ThreadType /\ thread.pc = "retry"
      /\ thread.kept \in Seq(LevelIds) /\ thread.legChanged \in BOOLEAN
  <2>1. grid[g] \in Runner /\ thread \in ThreadType
    BY DEF GridInv, GridTypes, ThreadTypes
  <2> QED  BY <2>1 DEF RetryDone, ThreadType
<1>1. TypeOK' /\ ReservationsFunded'
  BY SameAccount DEF RetryDone
<1> DEFINE m == LastOf(thread.kept, MissedCap)
<1>2. m \in Seq(LevelIds) /\ Len(m) <= MissedCap
  <2>1. MissedCap \in Nat
    OBVIOUS
  <2> QED  BY <1>0, <2>1, LastOfType
<1> HIDE DEF m
<1>3. PICK r : r = [grid[g] EXCEPT !.missed = m]
  OBVIOUS
<1>4. r = [grid[g] EXCEPT !.exists = grid[g].exists, !.running = grid[g].running,
                          !.activated = grid[g].activated, !.missed = m]
  BY <1>0, <1>3 DEF Runner, GridType
<1>5. r \in Runner /\ Alike(grid[g], r)
  <2>1. grid[g].exists \in BOOLEAN /\ grid[g].running \in BOOLEAN /\ grid[g].activated \in BOOLEAN
    BY <1>0, RunnerFields
  <2> QED  BY <1>0, <1>2, <1>4, <2>1, FlagTypes
<1>6. Write(g, r)
  BY <1>3 DEF RetryDone, m
<1>7. grid' \in [Grids -> Runner] /\ \A h \in Grids : Alike(grid[h], grid'[h])
  BY <1>5, <1>6, WriteAlike
<1>8. ThreadTypes' /\ ThreadInv'
  BY <1>0, LeftGrid DEF RetryDone
<1> QED  BY <1>1, <1>7, <1>8, ThreadKeeps DEF RetryDone, brokerVars

-----------------------------------------------------------------------------
(* Sales, and trades of the engine *)

\* A step that buys nothing for a grid: each level holds what it held or is
\* released, a position released is not open any more, and a position that
\* changes is of no level, and is no grid's, or dropped, or closed.
LEMMA LevelsCarry ==
  ASSUME GridInv, TypeOK', UNCHANGED <<owner, lost>>,
         \A h \in Grids, k \in LevelIds :
           \/ /\ grid'[h].level[k].held = grid[h].level[k].held
              /\ grid'[h].level[k].pos = grid[h].level[k].pos
              /\ grid'[h].level[k].qty = grid[h].level[k].qty
           \/ /\ grid'[h].level[k] = IdleLevel
              /\ grid[h].level[k].held => positions'[grid[h].level[k].pos].state # "open",
         \A h \in Grids : grid'[h].exists = grid[h].exists,
         \A i \in PosIds : i \in dropped => i \in dropped',
         \A i \in PosIds :
           \/ positions'[i] = positions[i]
           \/ /\ positions[i].state # "closed" /\ positions'[i].state # "none"
              /\ owner[i] = 0 \/ i \in dropped \/ positions'[i].state = "closed"
              /\ \A h \in Grids, k \in LevelIds :
                   grid'[h].level[k].held => grid'[h].level[k].pos # i
  PROVE  PositionInv' /\ LevelsOK(grid)' /\ BackingInv' /\ NoForgottenPosition'
<1>0. /\ ~IdleLevel.held /\ IdleLevel.pos = 0
      /\ positions \in [PosIds -> Position] /\ owner \in [PosIds -> Grids \cup {0}]
  BY DEF IdleLevel, GridInv, GridTypes, TypeOK
<1>1. PositionInv'
  <2>1. ASSUME NEW i \in PosIds, positions'[i].state = "none"
        PROVE  positions'[i] = NoPosition /\ owner'[i] = 0
    <3>1. positions'[i] = positions[i]
      BY <2>1
    <3> QED  BY <2>1, <3>1 DEF GridInv, PositionInv, FreshIsBlank
  <2>2. ASSUME NEW i \in PosIds, i \in lost' PROVE positions'[i].state = "closed"
    <3>1. positions[i].state = "closed"
      BY <2>2 DEF GridInv, PositionInv
    <3>2. positions'[i] = positions[i]
      BY <3>1
    <3> QED  BY <3>1, <3>2
  <2> QED  BY <2>1, <2>2 DEF PositionInv, FreshIsBlank
<1>2. ASSUME NEW h \in Grids, NEW k \in LevelIds, grid'[h].level[k].held
      PROVE  /\ grid[h].level[k].held /\ grid'[h].level[k].pos = grid[h].level[k].pos
             /\ grid'[h].level[k].qty = grid[h].level[k].qty
             /\ grid[h].level[k].pos \in PosIds /\ owner[grid[h].level[k].pos] = h
             /\ positions'[grid[h].level[k].pos] = positions[grid[h].level[k].pos]
  <2>1. /\ grid[h].level[k].held /\ grid'[h].level[k].pos = grid[h].level[k].pos
        /\ grid'[h].level[k].qty = grid[h].level[k].qty
    BY <1>0, <1>2
  <2>2. grid[h].level[k].pos \in PosIds /\ owner[grid[h].level[k].pos] = h
    BY <2>1 DEF GridInv, LevelsOK
  <2> QED  BY <1>2, <2>1, <2>2
<1>3. LevelsOK(grid)'
  <2> SUFFICES ASSUME NEW h \in Grids, NEW k \in LevelIds
               PROVE  LET lv == grid'[h].level[k]
                      IN  IF lv.held
                          THEN /\ lv.pos \in PosIds /\ owner'[lv.pos] = h
                               /\ positions'[lv.pos].state # "none"
                               /\ \A j \in LevelIds :
                                    grid'[h].level[j].held /\ grid'[h].level[j].pos = lv.pos
                                    => j = k
                          ELSE lv.pos = 0
    BY DEF LevelsOK
  <2>1. CASE grid'[h].level[k].held
    <3>1. /\ grid[h].level[k].held /\ grid'[h].level[k].pos = grid[h].level[k].pos
          /\ grid[h].level[k].pos \in PosIds /\ owner[grid[h].level[k].pos] = h
          /\ positions'[grid[h].level[k].pos] = positions[grid[h].level[k].pos]
      BY <1>2, <2>1
    <3>2. positions[grid[h].level[k].pos].state # "none"
      BY <3>1 DEF GridInv, LevelsOK
    <3>3. \A j \in LevelIds : grid[h].level[j].held /\ grid[h].level[j].pos = grid[h].level[k].pos
                              => j = k
      BY <3>1 DEF GridInv, LevelsOK
    <3>4. \A j \in LevelIds : grid'[h].level[j].held =>
             grid[h].level[j].held /\ grid'[h].level[j].pos = grid[h].level[j].pos
      BY <1>2
    <3> QED  BY <2>1, <3>1, <3>2, <3>3, <3>4
  <2>2. CASE ~grid'[h].level[k].held
    <3>1. ~grid[h].level[k].held => grid[h].level[k].pos = 0
      BY DEF GridInv, LevelsOK
    <3> QED  BY <1>0, <2>2, <3>1
  <2> QED  BY <2>1, <2>2
<1>4. BackingInv'
  <2> SUFFICES ASSUME NEW h \in Grids, NEW k \in LevelIds, grid'[h].level[k].held
               PROVE  \/ grid'[h].level[k].pos \in lost'
                      \/ /\ positions'[grid'[h].level[k].pos].state = "open"
                         /\ positions'[grid'[h].level[k].pos].qty = grid'[h].level[k].qty
    BY DEF BackingInv, IsOpen
  <2>1. \/ grid[h].level[k].pos \in lost
        \/ /\ positions[grid[h].level[k].pos].state = "open"
           /\ positions[grid[h].level[k].pos].qty = grid[h].level[k].qty
    BY <1>2 DEF GridInv, BackingInv, IsOpen
  <2> QED  BY <1>2, <2>1
<1>5. NoForgottenPosition'
  <2> SUFFICES ASSUME NEW i \in PosIds, i \notin dropped', positions'[i].state = "open",
                      owner'[i] # 0, grid'[owner'[i]].exists
               PROVE  \E k \in LevelIds : /\ grid'[owner'[i]].level[k].held
                                          /\ grid'[owner'[i]].level[k].pos = i
    BY DEF NoForgottenPosition, HeldLevels, IsOpen
  <2>1. PICK h \in Grids : h = owner[i]
    BY <1>0
  <2>2. positions'[i] = positions[i] /\ i \notin dropped
    OBVIOUS
  <2>3. PICK k \in LevelIds : grid[h].level[k].held /\ grid[h].level[k].pos = i
    BY <2>1, <2>2 DEF GridInv, NoForgottenPosition, HeldLevels, IsOpen
  <2>4. grid'[h].level[k].held /\ grid'[h].level[k].pos = i
    BY <2>3
  <2> QED  BY <2>1, <2>4
<1> QED  BY <1>1, <1>3, <1>4, <1>5

\* A buy spends what is free, and fills a position nobody used.
LEMMA BuyAccount ==
  ASSUME GridInv, NEW i \in PosIds, NEW qty \in Nat, NEW at \in Nat \ {0}, NEW slip \in BuySlips,
         OpenLong(i, qty, at, slip)
  PROVE  /\ TypeOK' /\ ReservationsFunded'
         /\ positions[i].state = "none" /\ positions[i].pnl = 0 /\ owner[i] = 0
         /\ positions'[i].state = "open" /\ positions'[i].pnl = 0 /\ positions'[i].qty \in Nat
         /\ \A j \in PosIds : j # i => positions'[j] = positions[j]
<1>0. TypeOK /\ positions \in [PosIds -> Position]
  BY DEF GridInv, GridTypes, TypeOK
<1>1. TypeOK'
  BY <1>0, BuyTypes
<1>2. positions[i].state = "none" /\ positions[i].pnl = 0 /\ owner[i] = 0
  <2>1. positions[i].state = "none"
    BY DEF OpenLong, Fresh
  <2> QED  BY <2>1 DEF GridInv, PositionInv, FreshIsBlank, NoPosition
<1>3. /\ positions'[i].state = "open" /\ positions'[i].pnl = 0
      /\ \A j \in PosIds : j # i => positions'[j] = positions[j]
  BY <1>0 DEF OpenLong
<1>4. positions'[i].qty \in Nat
  BY <1>1 DEF TypeOK, Position
<1>5. ReservationsFunded'
  <2>1. cash' >= cash - Available /\ cash' \in Int
    BY <1>0, BuyPays
  <2>2. ReservedTotal \in Nat /\ cash \in Int /\ ReservedTotal <= cash
    BY <1>0, ReservedTotalType DEF TypeOK, GridInv, ReservationsFunded
  <2>3. Available = cash - ReservedTotal
    BY <1>0, <2>2, AvailableType
  <2>4. ReservedTotal' = ReservedTotal
    BY DEF OpenLong, ReservedTotal
  <2> QED  BY <2>1, <2>2, <2>3, <2>4 DEF ReservationsFunded
<1> QED  BY <1>1, <1>2, <1>3, <1>4, <1>5

\* A sale pays in, and closes the position it sells in full.
LEMMA SaleAccount ==
  ASSUME GridInv, NEW i \in PosIds, NEW at \in Prices, NEW q \in 0..positions[i].qty,
         CloseLong(i, q, at)
  PROVE  /\ TypeOK' /\ ReservationsFunded'
         /\ positions[i].state = "open" /\ positions'[i].state \in {"open", "closed"}
         /\ q = positions[i].qty => positions'[i].state = "closed"
         /\ positions'[i].pnl = positions[i].pnl + ClosePnl(i, q, at)
         /\ ClosePnl(i, q, at) \in Int
         /\ \A j \in PosIds : j # i => positions'[j] = positions[j]
<1>0. /\ TypeOK /\ positions \in [PosIds -> Position] /\ positions[i] \in Position
      /\ positions[i].qty \in Nat /\ positions[i].entry \in Nat
  BY DEF GridInv, GridTypes, TypeOK, Position
<1>1. TypeOK'
  <2>1. at \in Nat /\ SellSlip <= at
    <3>1. SellSlip < at /\ SellSlip \in Nat /\ at \in Nat
      OBVIOUS
    <3> QED  BY <3>1
  <2> QED  BY <1>0, <2>1, SellTypes
<1>2. positions[i].state = "open"
  BY DEF CloseLong, IsOpen
<1>3. positions' = [positions EXCEPT
               ![i].qty = positions[i].qty - q,
               ![i].pnl = positions[i].pnl + ClosePnl(i, q, at),
               ![i].state = IF positions[i].qty - q = 0 THEN "closed" ELSE positions[i].state]
  BY <1>0 DEF CloseLong, Position
<1>4. q \in Nat
  BY <1>0
<1>5. /\ positions'[i].pnl = positions[i].pnl + ClosePnl(i, q, at)
      /\ positions'[i].state = IF positions[i].qty - q = 0 THEN "closed" ELSE positions[i].state
      /\ \A j \in PosIds : j # i => positions'[j] = positions[j]
  BY <1>0, <1>3 DEF Position
<1>6. q = positions[i].qty => positions'[i].state = "closed"
  BY <1>0, <1>5
<1>7. ClosePnl(i, q, at) \in Int
  <2>1. SellFill(at) \in Nat
    BY DEF SellFill
  <2> QED  BY <1>0, <1>4, <2>1 DEF ClosePnl
<1>8. ReservationsFunded'
  <2>1. cash' >= cash /\ cash' \in Int
    BY <1>0, SellProceeds
  <2>2. ReservedTotal \in Nat /\ cash \in Int /\ ReservedTotal <= cash
    BY <1>0, ReservedTotalType DEF TypeOK, GridInv, ReservationsFunded
  <2>3. ReservedTotal' = ReservedTotal
    BY DEF CloseLong, ReservedTotal
  <2> QED  BY <2>1, <2>2, <2>3 DEF ReservationsFunded
<1> QED  BY <1>1, <1>2, <1>5, <1>6, <1>7, <1>8

\* The parts of the invariant after a trade, put together.
LEMMA TradeKeeps ==
  ASSUME GridInv, TypeOK', ReservationsFunded', UNCHANGED <<saved, savedCash, restarts>>,
         owner' \in [PosIds -> Grids \cup {0}], grid' \in [Grids -> Runner],
         PositionInv', LevelsOK(grid)', BackingInv', CountersOK(grid)',
         NoForgottenPosition', ProfitIsReported', ThreadTypes', ThreadInv',
         \A i \in PosIds : positions[i].state # "none" =>
                              positions'[i].state # "none" /\ owner'[i] = owner[i]
  PROVE  GridInv'
<1>1. saved' \in [Grids -> SavedRunner] /\ LevelsOK(saved)' /\ CountersOK(saved)'
  BY FileStays
<1>2. GridTypes'
  BY <1>1 DEF GridInv, GridTypes
<1> QED  BY <1>1, <1>2 DEF GridInv

\* A trade of the engine's own strategies.
LEMMA OtherTradeKeeps ==
  ASSUME GridInv, OtherTrade
  PROVE  GridInv'
<1>0. /\ UNCHANGED <<grid, thread, saved, savedCash, owner, dropped, lost, restarts>>
      /\ grid \in [Grids -> Runner] /\ owner \in [PosIds -> Grids \cup {0}]
      /\ thread \in ThreadType /\ price \in Prices /\ price \in Nat \ {0}
      /\ positions \in [PosIds -> Position]
  <2>1. TypeOK /\ GridTypes /\ ThreadTypes
    BY DEF GridInv, GridTypes
  <2>2. price \in Prices /\ positions \in [PosIds -> Position]
    BY <2>1 DEF TypeOK
  <2> QED  BY <2>1, <2>2 DEF OtherTrade, gridVars, GridTypes, ThreadTypes
<1>1. PICK i \in PosIds :
        /\ TypeOK' /\ ReservationsFunded' /\ owner[i] = 0
        /\ positions[i].state # "closed" /\ positions'[i].state # "none"
        /\ \A j \in PosIds : j # i => positions'[j] = positions[j]
  <2>1. ASSUME NEW i \in PosIds, NEW qty \in OtherQtys, NEW slip \in BuySlips,
               OpenLong(i, qty, price, slip)
        PROVE  /\ TypeOK' /\ ReservationsFunded' /\ owner[i] = 0
               /\ positions[i].state # "closed" /\ positions'[i].state # "none"
               /\ \A j \in PosIds : j # i => positions'[j] = positions[j]
    <3>1. qty \in Nat
      OBVIOUS
    <3>2. /\ TypeOK' /\ ReservationsFunded' /\ positions[i].state = "none" /\ owner[i] = 0
          /\ positions'[i].state = "open"
          /\ \A j \in PosIds : j # i => positions'[j] = positions[j]
      BY <1>0, <2>1, <3>1, BuyAccount
    <3> QED  BY <3>2
  <2>2. ASSUME NEW i \in PosIds, owner[i] = 0, CloseLong(i, positions[i].qty, price)
        PROVE  /\ TypeOK' /\ ReservationsFunded' /\ owner[i] = 0
               /\ positions[i].state # "closed" /\ positions'[i].state # "none"
               /\ \A j \in PosIds : j # i => positions'[j] = positions[j]
    <3>1. PICK q : q = positions[i].qty
      OBVIOUS
    <3>2. q \in 0..positions[i].qty /\ CloseLong(i, q, price)
      BY <1>0, <2>2, <3>1 DEF Position
    <3>3. /\ TypeOK' /\ ReservationsFunded'
          /\ positions[i].state = "open" /\ positions'[i].state \in {"open", "closed"}
          /\ \A j \in PosIds : j # i => positions'[j] = positions[j]
      BY <1>0, <3>2, SaleAccount
    <3> QED  BY <2>2, <3>3
  <2> QED  BY <2>1, <2>2 DEF OtherTrade
<1>2. \A h \in Grids, k \in LevelIds : grid[h].level[k].held => grid[h].level[k].pos # i
  <2>1. 0 \notin Grids
    BY DEF Grids, Keys
  <2>2. \A h \in Grids, k \in LevelIds :
          grid[h].level[k].held => owner[grid[h].level[k].pos] = h
    BY DEF GridInv, LevelsOK
  <2> QED  BY <1>1, <2>1, <2>2
<1>3. PositionInv' /\ LevelsOK(grid)' /\ BackingInv' /\ NoForgottenPosition'
  <2>1. /\ \A h \in Grids, k \in LevelIds :
             /\ grid'[h].level[k].held = grid[h].level[k].held
             /\ grid'[h].level[k].pos = grid[h].level[k].pos
             /\ grid'[h].level[k].qty = grid[h].level[k].qty
        /\ \A h \in Grids : grid'[h].exists = grid[h].exists
        /\ \A j \in PosIds : j \in dropped => j \in dropped'
        /\ UNCHANGED <<owner, lost>>
    BY <1>0
  <2>2. \A j \in PosIds :
           \/ positions'[j] = positions[j]
           \/ /\ positions[j].state # "closed" /\ positions'[j].state # "none"
              /\ owner[j] = 0 \/ j \in dropped \/ positions'[j].state = "closed"
              /\ \A h \in Grids, k \in LevelIds :
                   grid'[h].level[k].held => grid'[h].level[k].pos # j
    BY <1>0, <1>1, <1>2
  <2> QED  BY <1>1, <2>1, <2>2, LevelsCarry
<1>4. CountersOK(grid)'
  BY <1>0 DEF GridInv, CountersOK
<1>5. ProfitIsReported'
  <2>1. Reported' = Reported
    BY <1>0 DEF Reported
  <2>2. Earned' = Earned
    BY <1>0, <1>1 DEF Earned
  <2> QED  BY <1>0, <2>1, <2>2 DEF GridInv, ProfitIsReported, Reported, Earned
<1>6. ThreadTypes' /\ ThreadInv'
  BY <1>0, TickGoesOn
<1>7. \A j \in PosIds : positions[j].state # "none" =>
                              positions'[j].state # "none" /\ owner'[j] = owner[j]
  BY <1>0, <1>1
<1> QED  BY <1>0, <1>1, <1>3, <1>4, <1>5, <1>6, <1>7, TradeKeeps

\* What one more trade earns shows in the reported profit of its grid and in
\* the result of its position alike.
LEMMA ProfitMoves ==
  ASSUME GridInv, UNCHANGED <<owner, restarts>>,
         grid' \in [Grids -> Runner], positions' \in [PosIds -> Position],
         NEW g \in Grids, NEW i \in PosIds, NEW d \in Int, owner[i] # 0,
         \A h \in Grids : h # g => grid'[h] = grid[h],
         grid'[g].cum + grid'[g].past = (grid[g].cum + grid[g].past) + d,
         grid[g].torn => grid'[g].torn,
         positions'[i].pnl = positions[i].pnl + d,
         \A j \in PosIds : j # i => positions'[j] = positions[j]
  PROVE  ProfitIsReported'
<1> SUFFICES ASSUME restarts' = 0, \A h \in Grids : ~grid'[h].torn
             PROVE  SumTo(Reported', NKeys) = SumTo(Earned', NPos)
  BY DEF ProfitIsReported, Reported, Earned
<1>1. \A h \in Grids : ~grid[h].torn
  OBVIOUS
<1>2. SumTo(Reported, NKeys) = SumTo(Earned, NPos)
  BY <1>1 DEF GridInv, ProfitIsReported, Reported, Earned
<1>3. PICK a, b : a = Reported' /\ b = Earned'
  OBVIOUS
<1>4. Reported \in [1..NKeys -> Int] /\ a \in [1..NKeys -> Int] /\ g \in 1..NKeys
  <2>1. \A h \in Grids : /\ grid[h].cum \in Int /\ grid[h].past \in Int
                         /\ grid'[h].cum \in Int /\ grid'[h].past \in Int
    BY RunnerFields DEF GridInv, GridTypes
  <2>2. Reported \in [Grids -> Int] /\ a \in [Grids -> Int]
    BY <1>3, <2>1 DEF Reported
  <2> QED  BY <2>2 DEF Grids, Keys
<1>5. Earned \in [PosIds -> Int] /\ b \in [PosIds -> Int]
  <2>1. \A j \in PosIds : positions[j].pnl \in Int /\ positions'[j].pnl \in Int
    BY DEF GridInv, GridTypes, TypeOK, Position
  <2> QED  BY <1>3, <2>1 DEF Earned
<1>6. /\ \A h \in 1..NKeys : h # g => a[h] = Reported[h]
      /\ a[g] = Reported[g] + d
  BY <1>3 DEF Reported, Grids, Keys
<1>7. /\ \A j \in PosIds : j # i => b[j] = Earned[j]
      /\ b[i] = Earned[i] + d
  BY <1>3 DEF Earned
<1>8. PICK c, e : c = Reported /\ e = Earned
  OBVIOUS
<1>9. SumTo(a, NKeys) = SumTo(c, NKeys) + (a[g] - c[g])
  <2>1. /\ NKeys \in Nat /\ c \in [1..NKeys -> Int] /\ a \in [1..NKeys -> Int] /\ g \in 1..NKeys
        /\ \A h \in 1..NKeys : h # g => a[h] = c[h]
    BY <1>4, <1>6, <1>8
  <2> QED  BY ONLY <2>1, SumChange
<1>10. SumTo(b, NPos) = SumTo(e, NPos) + (b[i] - e[i])
  <2>1. /\ e \in [PosIds -> Int] /\ b \in [PosIds -> Int]
        /\ \A j \in PosIds : j # i => b[j] = e[j]
    BY <1>5, <1>7, <1>8
  <2> QED  BY <2>1, SumOverPositions
<1>11. SumTo(c, NKeys) \in Int /\ c[g] \in Int /\ e[i] \in Int
  <2>1. NKeys \in Nat /\ c \in [1..NKeys -> Int] /\ NKeys \in 0..NKeys
    BY <1>4, <1>8
  <2>2. SumTo(c, NKeys) \in Int
    BY ONLY <2>1, SumInt
  <2> QED  BY <1>4, <1>5, <1>8, <2>2
<1>12. a[g] = c[g] + d /\ b[i] = e[i] + d
  BY <1>6, <1>7, <1>8
<1>13. SumTo(c, NKeys) = SumTo(e, NPos)
  BY <1>2, <1>8
<1>14. SumTo(a, NKeys) = SumTo(b, NPos)
  BY <1>9, <1>10, <1>11, <1>12, <1>13
<1> QED  BY <1>3, <1>14

\* The grid after a level was sold.
LEMMA SoldTypes ==
  ASSUME GridInv, NEW g \in Grids, NEW l \in LevelIds, NEW pnl \in Int,
         NEW r, r = Sold(g, l, pnl)
  PROVE  /\ r \in Runner
         /\ r.level = [grid[g].level EXCEPT ![l] = IdleLevel]
         /\ r.cum = grid[g].cum + pnl /\ r.past = grid[g].past
         /\ r.buys = grid[g].buys /\ r.sells = grid[g].sells + 1 /\ r.gone = grid[g].gone
         /\ r.torn = grid[g].torn /\ r.exists = grid[g].exists
<1>0. /\ grid[g] \in GridType /\ Len(grid[g].missed) <= MissedCap
      /\ grid[g].level \in [LevelIds -> Level] /\ grid[g].pair \in [LevelIds -> Nat]
      /\ grid[g].cum \in Int /\ grid[g].fills \in Nat /\ grid[g].sells \in Nat
  <2>1. grid[g] \in Runner
    BY DEF GridInv, GridTypes
  <2> QED  BY <2>1, RunnerFields DEF Runner
<1>1. PICK lv : lv = [grid[g].level EXCEPT ![l] = IdleLevel]
  OBVIOUS
<1>2. lv \in [LevelIds -> Level]
  <2>1. IdleLevel \in Level
    BY DEF IdleLevel, Level
  <2> QED  BY <1>0, <1>1, <2>1
<1>3. PICK p : p = [grid[g].pair EXCEPT ![l] = grid[g].pair[l] + (IF pnl > 0 THEN pnl ELSE 0)]
  OBVIOUS
<1>4. p \in [LevelIds -> Nat]
  <2>1. grid[g].pair[l] + (IF pnl > 0 THEN pnl ELSE 0) \in Nat
    BY <1>0
  <2> QED  BY <1>0, <1>3, <2>1
<1>5. r = [grid[g] EXCEPT !.level = lv, !.cum = grid[g].cum + pnl, !.pair = p,
                          !.fills = grid[g].fills + 1, !.sells = grid[g].sells + 1]
  BY <1>0, <1>1, <1>3 DEF Sold, GridType
<1>6. grid[g].cum + pnl \in Int /\ grid[g].fills + 1 \in Nat /\ grid[g].sells + 1 \in Nat
  <2>1. grid[g].cum \in Int /\ grid[g].fills \in Nat /\ grid[g].sells \in Nat
    BY <1>0
  <2>2. grid[g].cum + pnl \in Int
    BY <2>1
  <2>3. grid[g].fills + 1 \in Nat
    BY <2>1
  <2>4. grid[g].sells + 1 \in Nat
    BY <2>1
  <2> QED  BY <2>2, <2>3, <2>4
<1>7. r \in GridType
  BY <1>0, <1>2, <1>4, <1>5, <1>6 DEF GridType
<1>8. /\ r.level = lv /\ r.missed = grid[g].missed
      /\ r.cum = grid[g].cum + pnl /\ r.past = grid[g].past
      /\ r.buys = grid[g].buys /\ r.sells = grid[g].sells + 1 /\ r.gone = grid[g].gone
      /\ r.torn = grid[g].torn /\ r.exists = grid[g].exists
  BY <1>0, <1>5 DEF GridType
<1> QED  BY <1>0, <1>1, <1>7, <1>8 DEF Runner

\* One held level less is one less to count.
LEMMA OneReleased ==
  ASSUME NEW lv, NEW l \in LevelIds, lv[l].held, NEW nv,
         ~nv[l].held, \A k \in LevelIds : k # l => nv[k] = lv[k]
  PROVE  /\ Cardinality(HeldIn(nv)) \in Nat
         /\ Cardinality(HeldIn(lv))
            = Cardinality(HeldIn(nv)) + 1
<1> DEFINE A == HeldIn(lv)
           B == HeldIn(nv)
<1>1. IsFiniteSet(A) /\ IsFiniteSet(B) /\ Cardinality(A) \in Nat /\ Cardinality(B) \in Nat
  BY HeldCount
<1>2. A = B \cup {l} /\ l \notin B
  BY DEF HeldIn
<1>3. Cardinality(B \cup {l}) = Cardinality(B) + 1
  <2> HIDE DEF B
  <2> QED  BY <1>1, <1>2, FS_AddElement
<1> QED  BY <1>1, <1>2, <1>3

\* A sale keeps the invariant.  A runner cut off from its lists sells a
\* position no level has.
LEMMA VisitSellKeeps ==
  ASSUME GridInv, NEW g \in Grids, NEW l \in LevelIds, VisitSell(g, l)
  PROVE  GridInv'
<1>0. /\ grid \in [Grids -> Runner] /\ grid[g] \in Runner /\ thread \in ThreadType
      /\ grid[g].level \in [LevelIds -> Level]
      /\ g = thread.at /\ Visiting(l) /\ thread.px \in Prices
      /\ positions \in [PosIds -> Position] /\ owner \in [PosIds -> Grids \cup {0}]
      /\ 0 \notin Grids /\ 0 \notin PosIds
  <2>1. GridTypes /\ ThreadTypes /\ TypeOK
    BY DEF GridInv, GridTypes
  <2>2. g = thread.at /\ Visiting(l) /\ thread.pc = "levels"
    BY DEF VisitSell, Visiting
  <2>3. grid[g].level \in [LevelIds -> Level]
    BY <2>1, RunnerFields DEF GridTypes
  <2> QED  BY <2>1, <2>2, <2>3 DEF GridTypes, ThreadTypes, TypeOK, Grids, Keys, PosIds
<1>1. PICK lv : lv = OwnLevel(g, l)
  OBVIOUS
<1>2. PICK i \in PosIds : i = lv.pos /\ positions[i].state = "open"
  BY <1>1 DEF VisitSell, Backed, IsOpen
<1>3. PICK q : q = IF lv.qty < positions[i].qty THEN lv.qty ELSE positions[i].qty
  OBVIOUS
<1>4. CloseLong(i, q, thread.px) /\ Write(g, Sold(g, l, ClosePnl(i, q, thread.px))) /\ Moved(TRUE)
      /\ UNCHANGED <<saved, savedCash, owner, dropped, lost, restarts>>
  BY <1>1, <1>2, <1>3 DEF VisitSell
<1>5. PICK d \in Int :
        /\ TypeOK' /\ ReservationsFunded'
        /\ positions'[i].state \in {"open", "closed"}
        /\ q = positions[i].qty => positions'[i].state = "closed"
        /\ positions'[i].pnl = positions[i].pnl + d
        /\ \A j \in PosIds : j # i => positions'[j] = positions[j]
        /\ Write(g, Sold(g, l, d))
  <2>1. q \in 0..positions[i].qty
    BY <1>4 DEF CloseLong
  <2>2. PICK d : d = ClosePnl(i, q, thread.px)
    OBVIOUS
  <2>3. /\ d \in Int
        /\ TypeOK' /\ ReservationsFunded'
        /\ positions'[i].state \in {"open", "closed"}
        /\ q = positions[i].qty => positions'[i].state = "closed"
        /\ positions'[i].pnl = positions[i].pnl + d
        /\ \A j \in PosIds : j # i => positions'[j] = positions[j]
    BY <1>0, <1>4, <2>1, <2>2, SaleAccount
  <2> QED  BY <1>4, <2>2, <2>3
<1>6. PICK r \in Runner :
        /\ Write(g, r)
        /\ r.level = [grid[g].level EXCEPT ![l] = IdleLevel]
        /\ r.cum = grid[g].cum + d /\ r.past = grid[g].past
        /\ r.buys = grid[g].buys /\ r.sells = grid[g].sells + 1 /\ r.gone = grid[g].gone
        /\ r.torn = grid[g].torn /\ r.exists = grid[g].exists
  <2>1. PICK r : r = Sold(g, l, d)
    OBVIOUS
  <2>2. /\ r \in Runner
        /\ r.level = [grid[g].level EXCEPT ![l] = IdleLevel]
        /\ r.cum = grid[g].cum + d /\ r.past = grid[g].past
        /\ r.buys = grid[g].buys /\ r.sells = grid[g].sells + 1 /\ r.gone = grid[g].gone
        /\ r.torn = grid[g].torn /\ r.exists = grid[g].exists
    <3>1. g \in Grids /\ l \in LevelIds /\ d \in Int
      OBVIOUS
    <3> QED  BY ONLY GridInv, <2>1, <3>1, SoldTypes
  <2>3. Write(g, r)
    BY <1>5, <2>1
  <2> QED  BY <2>2, <2>3
<1>7. /\ grid' \in [Grids -> Runner]
      /\ \A h \in Grids : h # g => grid'[h] = grid[h]
      /\ g \notin thread.detached => grid'[g] = r
      /\ g \in thread.detached =>
           /\ grid'[g].torn
           /\ grid'[g].level = IF thread.orphan THEN grid[g].level ELSE r.level
           /\ grid'[g].exists = grid[g].exists
  BY <1>6, WriteShape
<1>8. thread.orphan => /\ g \in thread.detached /\ i \in dropped /\ owner[i] = g
                       /\ \A k \in LevelIds : ~grid[g].level[k].held
  <2> SUFFICES ASSUME thread.orphan
               PROVE  /\ g \in thread.detached /\ i \in dropped /\ owner[i] = g
                      /\ \A k \in LevelIds : ~grid[g].level[k].held
    OBVIOUS
  <2>1. lv = thread.own[l]
    BY <1>1 DEF OwnLevel
  <2>2. thread.own[l].held
    BY <1>0, <1>2, <2>1 DEF GridInv, ThreadInv
  <2> QED  BY <1>0, <1>2, <2>1, <2>2 DEF GridInv, ThreadInv
<1>9. ~thread.orphan => /\ grid[g].level[l].held /\ grid[g].level[l].pos = i /\ owner[i] = g
                        /\ positions'[i].state = "closed"
  <2> SUFFICES ASSUME ~thread.orphan
               PROVE  /\ grid[g].level[l].held /\ grid[g].level[l].pos = i /\ owner[i] = g
                      /\ positions'[i].state = "closed"
    OBVIOUS
  <2>1. lv = grid[g].level[l]
    BY <1>1 DEF OwnLevel
  <2>2. grid[g].level[l].held
    <3>1. ~grid[g].level[l].held => grid[g].level[l].pos = 0
      BY DEF GridInv, LevelsOK
    <3> QED  BY <1>0, <1>2, <2>1, <3>1
  <2>3. owner[i] = g
    BY <1>2, <2>1, <2>2 DEF GridInv, LevelsOK
  <2>4. i \notin lost
    BY <1>2 DEF GridInv, PositionInv
  <2>5. positions[i].qty = lv.qty
    BY <1>2, <2>1, <2>2, <2>4 DEF GridInv, BackingInv
  <2>6. q = positions[i].qty
    BY <1>3, <2>5
  <2> QED  BY <1>2, <1>5, <2>1, <2>2, <2>3, <2>6
<1>10. IF thread.orphan THEN grid'[g].level = grid[g].level
       ELSE grid'[g].level = [grid[g].level EXCEPT ![l] = IdleLevel]
  BY <1>6, <1>7, <1>8
<1>11. PositionInv' /\ LevelsOK(grid)' /\ BackingInv' /\ NoForgottenPosition'
  <2>1. \A h \in Grids, k \in LevelIds :
           \/ /\ grid'[h].level[k].held = grid[h].level[k].held
              /\ grid'[h].level[k].pos = grid[h].level[k].pos
              /\ grid'[h].level[k].qty = grid[h].level[k].qty
           \/ /\ grid'[h].level[k] = IdleLevel
              /\ grid[h].level[k].held => positions'[grid[h].level[k].pos].state # "open"
    <3> SUFFICES ASSUME NEW h \in Grids, NEW k \in LevelIds
                 PROVE  \/ grid'[h].level[k] = grid[h].level[k]
                        \/ /\ grid'[h].level[k] = IdleLevel
                           /\ positions'[grid[h].level[k].pos].state # "open"
      OBVIOUS
    <3>1. CASE h # g
      BY <1>7, <3>1
    <3>2. CASE h = g /\ thread.orphan
      BY <1>10, <3>2
    <3>3. CASE h = g /\ ~thread.orphan /\ k # l
      BY <1>0, <1>10, <3>3
    <3>4. CASE h = g /\ ~thread.orphan /\ k = l
      BY <1>0, <1>9, <1>10, <3>4
    <3> QED  BY <3>1, <3>2, <3>3, <3>4
  <2>2. \A h \in Grids : grid'[h].exists = grid[h].exists
    BY <1>6, <1>7
  <2>3. \A h \in Grids, k \in LevelIds : grid'[h].level[k].held => grid'[h].level[k].pos # i
    <3> SUFFICES ASSUME NEW h \in Grids, NEW k \in LevelIds, grid'[h].level[k].held,
                        grid'[h].level[k].pos = i
                 PROVE  FALSE
      OBVIOUS
    <3>1. grid[h].level[k].held /\ grid[h].level[k].pos = i
      BY <2>1 DEF IdleLevel
    <3>2. h = g
      BY <1>8, <1>9, <3>1 DEF GridInv, LevelsOK
    <3>3. CASE thread.orphan
      BY <1>8, <3>1, <3>2, <3>3
    <3>4. CASE ~thread.orphan
      <4>1. k = l
        BY <1>9, <3>1, <3>2, <3>4 DEF GridInv, LevelsOK
      <4>2. ~grid'[g].level[l].held
        BY <1>0, <1>10, <3>4 DEF IdleLevel
      <4> QED  BY <3>2, <4>1, <4>2
    <3> QED  BY <3>3, <3>4
  <2>4. \A j \in PosIds :
           \/ positions'[j] = positions[j]
           \/ /\ positions[j].state # "closed" /\ positions'[j].state # "none"
              /\ owner[j] = 0 \/ j \in dropped \/ positions'[j].state = "closed"
              /\ \A h \in Grids, k \in LevelIds :
                   grid'[h].level[k].held => grid'[h].level[k].pos # j
    <3> SUFFICES ASSUME NEW j \in PosIds, j = i
                 PROVE  /\ positions[j].state # "closed" /\ positions'[j].state # "none"
                        /\ j \in dropped \/ positions'[j].state = "closed"
      BY <1>5, <2>3
    <3> QED  BY <1>2, <1>5, <1>8, <1>9
  <2>5. /\ TypeOK' /\ UNCHANGED <<owner, lost>>
        /\ \A j \in PosIds : j \in dropped => j \in dropped'
    BY <1>4, <1>5
  <2> QED  BY <2>1, <2>2, <2>4, <2>5, LevelsCarry
<1>12. CountersOK(grid)'
  <2> SUFFICES ASSUME NEW h \in Grids, ~grid'[h].torn
               PROVE  grid'[h].buys = grid'[h].sells
                        + Cardinality(HeldIn(grid'[h].level)) + grid'[h].gone
    BY DEF CountersOK
  <2>1. CASE h # g
    BY <1>7, <2>1 DEF GridInv, CountersOK
  <2>2. CASE h = g
    <3>1. g \notin thread.detached /\ ~thread.orphan /\ grid'[g] = r
      BY <1>7, <1>8, <2>2
    <3>2. PICK a, b : a = grid[g].level /\ b = grid'[g].level
      OBVIOUS
    <3>3. a[l].held /\ ~b[l].held /\ \A k \in LevelIds : k # l => b[k] = a[k]
      BY <1>0, <1>9, <1>10, <3>1, <3>2 DEF IdleLevel
    <3>4. /\ Cardinality(HeldIn(b)) \in Nat
          /\ Cardinality(HeldIn(a))
             = Cardinality(HeldIn(b)) + 1
      BY <3>3, OneReleased
    <3>5. grid[g].buys = grid[g].sells + Cardinality(HeldIn(a)) + grid[g].gone
      BY <1>6, <2>2, <3>1, <3>2 DEF GridInv, CountersOK
    <3>6. /\ grid[g].buys \in Nat /\ grid[g].sells \in Nat /\ grid[g].gone \in Nat
          /\ grid'[g].buys = grid[g].buys /\ grid'[g].sells = grid[g].sells + 1
          /\ grid'[g].gone = grid[g].gone
      BY <1>0, <1>6, <3>1, RunnerFields
    <3>7. grid'[g].buys = grid'[g].sells + Cardinality(HeldIn(b)) + grid'[g].gone
      <4>1. PICK n, m : n = Cardinality(HeldIn(b)) /\ m = Cardinality(HeldIn(a))
        OBVIOUS
      <4>2. n \in Nat /\ m = n + 1
        BY <3>4, <4>1
      <4>3. grid[g].buys = grid[g].sells + m + grid[g].gone
        BY <3>5, <4>1
      <4>4. grid[g].buys = (grid[g].sells + 1) + n + grid[g].gone
        <5>1. grid[g].sells \in Nat /\ grid[g].gone \in Nat
          BY <3>6
        <5> QED  BY ONLY <4>2, <4>3, <5>1
      <4> QED  BY <3>6, <4>1, <4>4
    <3> QED  BY <2>2, <3>2, <3>7
  <2> QED  BY <2>1, <2>2
<1>13. ProfitIsReported'
  <2>1. CASE g \in thread.detached
    BY <1>7, <2>1 DEF ProfitIsReported
  <2>2. CASE g \notin thread.detached
    <3>1. grid'[g] = r /\ owner[i] = g
      BY <1>7, <1>8, <1>9, <2>2
    <3>2. grid'[g].cum + grid'[g].past = (grid[g].cum + grid[g].past) + d
      <4>1. grid[g].cum \in Int /\ grid[g].past \in Int
        BY <1>0, RunnerFields
      <4> QED  BY <1>6, <3>1, <4>1
    <3>3. positions' \in [PosIds -> Position] /\ owner[i] # 0 /\ UNCHANGED <<owner, restarts>>
      BY <1>0, <1>4, <1>5, <3>1 DEF TypeOK
    <3>4. grid[g].torn => grid'[g].torn
      BY <1>6, <3>1
    <3> QED  BY <1>5, <1>7, <3>2, <3>3, <3>4, ProfitMoves
  <2> QED  BY <2>1, <2>2
<1>14. ThreadTypes' /\ ThreadInv'
  <2>1. \A h \in Grids, k \in LevelIds : grid'[h].level[k].held => grid[h].level[k].held
    <3> SUFFICES ASSUME NEW h \in Grids, NEW k \in LevelIds, grid'[h].level[k].held
                 PROVE  grid[h].level[k].held
      OBVIOUS
    <3>1. CASE h # g
      BY <1>7, <3>1
    <3>2. CASE h = g /\ (thread.orphan \/ k # l)
      BY <1>0, <1>10, <3>2
    <3>3. CASE h = g /\ ~thread.orphan /\ k = l
      BY <1>9, <3>3
    <3> QED  BY <3>1, <3>2, <3>3
  <2> QED  BY <1>0, <1>4, <2>1, MovedOn, TickFollows
<1>15. \A j \in PosIds : positions[j].state # "none" =>
                              positions'[j].state # "none" /\ owner'[j] = owner[j]
  BY <1>4, <1>5
<1> QED  BY <1>0, <1>4, <1>5, <1>7, <1>11, <1>12, <1>13, <1>14, <1>15, TradeKeeps

\* A level whose position vanished is written off.
LEMMA VisitReconcileKeeps ==
  ASSUME GridInv, NEW g \in Grids, NEW l \in LevelIds, VisitReconcile(g, l)
  PROVE  GridInv'
<1>0. /\ grid \in [Grids -> Runner] /\ grid[g] \in Runner /\ grid[g] \in GridType
      /\ Len(grid[g].missed) <= MissedCap /\ grid[g].gone \in Nat
      /\ grid[g].level \in [LevelIds -> Level]
      /\ g = thread.at /\ Visiting(l)
      /\ Write(g, [grid[g] EXCEPT !.level[l] = IdleLevel,
                                  !.gone = IF grid[g].level[l].held THEN @ + 1 ELSE @])
      /\ ~Backed(OwnLevel(g, l)) /\ Moved(TRUE)
      /\ UNCHANGED <<brokerVars, saved, savedCash, owner, dropped, lost, restarts>>
  <2>1. grid \in [Grids -> Runner] /\ grid[g] \in Runner
    BY DEF GridInv, GridTypes
  <2>2. /\ grid[g] \in GridType /\ Len(grid[g].missed) <= MissedCap /\ grid[g].gone \in Nat
        /\ grid[g].level \in [LevelIds -> Level]
    BY <2>1, RunnerFields DEF Runner
  <2> QED  BY <2>1, <2>2 DEF VisitReconcile
<1>1. TypeOK' /\ ReservationsFunded' /\ UNCHANGED positions
  BY <1>0, SameAccount DEF brokerVars
<1>2. PICK n : n = IF grid[g].level[l].held THEN grid[g].gone + 1 ELSE grid[g].gone
  OBVIOUS
<1>3. n \in Nat
  <2>1. grid[g].gone \in Nat
    BY <1>0
  <2> QED  BY ONLY <1>2, <2>1
<1>4. PICK lv : lv = [grid[g].level EXCEPT ![l] = IdleLevel]
  OBVIOUS
<1>5. lv \in [LevelIds -> Level]
  <2>1. IdleLevel \in Level
    BY DEF IdleLevel, Level
  <2> QED  BY <1>0, <1>4, <2>1
<1>6. PICK r : r = [grid[g] EXCEPT !.level = lv, !.gone = n]
  OBVIOUS
<1>7. /\ r \in Runner /\ r.level = lv
      /\ r.buys = grid[g].buys /\ r.sells = grid[g].sells /\ r.gone = n
      /\ r.cum = grid[g].cum /\ r.past = grid[g].past
      /\ r.torn = grid[g].torn /\ r.exists = grid[g].exists
  <2>1. r \in GridType
    BY <1>0, <1>3, <1>5, <1>6 DEF GridType
  <2>2. /\ r.level = lv /\ r.missed = grid[g].missed
        /\ r.buys = grid[g].buys /\ r.sells = grid[g].sells /\ r.gone = n
        /\ r.cum = grid[g].cum /\ r.past = grid[g].past
        /\ r.torn = grid[g].torn /\ r.exists = grid[g].exists
    BY <1>0, <1>6 DEF GridType
  <2> QED  BY <1>0, <2>1, <2>2 DEF Runner
<1>8. Write(g, r)
  <2>1. [grid[g] EXCEPT !.level[l] = IdleLevel,
                        !.gone = IF grid[g].level[l].held THEN @ + 1 ELSE @] = r
    BY <1>0, <1>2, <1>4, <1>6 DEF GridType
  <2> QED  BY <1>0, <2>1
<1>9. /\ grid' \in [Grids -> Runner]
      /\ \A h \in Grids : h # g => grid'[h] = grid[h]
      /\ g \notin thread.detached => grid'[g] = r
      /\ g \in thread.detached =>
           /\ grid'[g].torn
           /\ grid'[g].level = IF thread.orphan THEN grid[g].level ELSE r.level
           /\ grid'[g].cum = grid[g].cum /\ grid'[g].past = grid[g].past
           /\ grid'[g].exists = grid[g].exists
  BY <1>7, <1>8, WriteShape
<1>10. IF thread.orphan THEN grid'[g].level = grid[g].level
       ELSE grid'[g].level = [grid[g].level EXCEPT ![l] = IdleLevel]
  <2>1. thread.orphan => g \in thread.detached
    BY <1>0 DEF GridInv, ThreadInv
  <2> QED  BY <1>4, <1>7, <1>9, <2>1
<1>11. PositionInv' /\ LevelsOK(grid)' /\ BackingInv' /\ NoForgottenPosition'
  <2>1. \A h \in Grids, k \in LevelIds :
           \/ /\ grid'[h].level[k].held = grid[h].level[k].held
              /\ grid'[h].level[k].pos = grid[h].level[k].pos
              /\ grid'[h].level[k].qty = grid[h].level[k].qty
           \/ /\ grid'[h].level[k] = IdleLevel
              /\ grid[h].level[k].held => positions'[grid[h].level[k].pos].state # "open"
    <3> SUFFICES ASSUME NEW h \in Grids, NEW k \in LevelIds
                 PROVE  \/ grid'[h].level[k] = grid[h].level[k]
                        \/ /\ grid'[h].level[k] = IdleLevel
                           /\ grid[h].level[k].held => positions'[grid[h].level[k].pos].state # "open"
      OBVIOUS
    <3>1. CASE h # g
      BY <1>9, <3>1
    <3>2. CASE h = g /\ (thread.orphan \/ k # l)
      BY <1>0, <1>10, <3>2
    <3>3. CASE h = g /\ ~thread.orphan /\ k = l
      <4>1. grid'[h].level[k] = IdleLevel
        BY <1>0, <1>10, <3>3
      <4>2. grid[g].level[l].held => ~IsOpen(grid[g].level[l].pos)
        <5>1. grid[g].level[l].held => grid[g].level[l].pos \in PosIds
          BY DEF GridInv, LevelsOK
        <5> QED  BY <1>0, <3>3, <5>1 DEF OwnLevel, Backed
      <4> QED  BY <1>1, <3>3, <4>1, <4>2 DEF IsOpen
    <3> QED  BY <3>1, <3>2, <3>3
  <2>2. \A h \in Grids : grid'[h].exists = grid[h].exists
    BY <1>7, <1>9
  <2>3. \A j \in PosIds :
           \/ positions'[j] = positions[j]
           \/ /\ positions[j].state # "closed" /\ positions'[j].state # "none"
              /\ owner[j] = 0 \/ j \in dropped \/ positions'[j].state = "closed"
              /\ \A h \in Grids, k \in LevelIds :
                   grid'[h].level[k].held => grid'[h].level[k].pos # j
    BY <1>1
  <2>4. /\ TypeOK' /\ UNCHANGED <<owner, lost>>
        /\ \A j \in PosIds : j \in dropped => j \in dropped'
    BY <1>0, <1>1
  <2> QED  BY <2>1, <2>2, <2>3, <2>4, LevelsCarry
<1>12. CountersOK(grid)'
  <2> SUFFICES ASSUME NEW h \in Grids, ~grid'[h].torn
               PROVE  grid'[h].buys = grid'[h].sells
                        + Cardinality(HeldIn(grid'[h].level)) + grid'[h].gone
    BY DEF CountersOK
  <2>1. CASE h # g
    BY <1>9, <2>1 DEF GridInv, CountersOK
  <2>2. CASE h = g
    <3>1. g \notin thread.detached /\ ~thread.orphan /\ grid'[g] = r
      <4>1. g \notin thread.detached
        BY <1>9, <2>2
      <4> QED  BY <1>0, <1>9, <4>1 DEF GridInv, ThreadInv
    <3>2. PICK a : a = grid[g].level
      OBVIOUS
    <3>3. ~lv[l].held /\ \A k \in LevelIds : k # l => lv[k] = a[k]
      BY <1>0, <1>4, <3>2 DEF IdleLevel
    <3>4. grid[g].buys = grid[g].sells + Cardinality(HeldIn(a)) + grid[g].gone
      BY <1>7, <2>2, <3>1, <3>2 DEF GridInv, CountersOK
    <3>5. grid[g].buys \in Nat /\ grid[g].sells \in Nat /\ grid[g].gone \in Nat
      BY <1>0, RunnerFields
    <3>6. grid[g].buys = grid[g].sells + Cardinality(HeldIn(lv)) + n
      <4>1. PICK c, d : c = Cardinality(HeldIn(a)) /\ d = Cardinality(HeldIn(lv))
        OBVIOUS
      <4>2. CASE grid[g].level[l].held
        <5>1. n = grid[g].gone + 1
          BY <1>2, <4>2
        <5>2. d \in Nat /\ c = d + 1
          <6>1. a[l].held /\ ~lv[l].held /\ \A k \in LevelIds : k # l => lv[k] = a[k]
            BY <3>2, <3>3, <4>2
          <6>2. /\ Cardinality(HeldIn(lv)) \in Nat
                /\ Cardinality(HeldIn(a)) = Cardinality(HeldIn(lv)) + 1
            BY <6>1, OneReleased
          <6> QED  BY <4>1, <6>2
        <5>3. grid[g].buys = grid[g].sells + c + grid[g].gone
          BY <3>4, <4>1
        <5>4. grid[g].buys = grid[g].sells + d + n
          BY ONLY <3>5, <5>1, <5>2, <5>3
        <5> QED  BY <4>1, <5>4
      <4>3. CASE ~grid[g].level[l].held
        <5>1. n = grid[g].gone
          BY <1>2, <4>3
        <5>2. HeldIn(a) = HeldIn(lv)
          BY <3>2, <3>3, <4>3 DEF HeldIn
        <5> QED  BY <3>4, <5>1, <5>2
      <4> QED  BY <4>2, <4>3
    <3> QED  BY <1>7, <2>2, <3>1, <3>6
  <2> QED  BY <2>1, <2>2
<1>13. ProfitIsReported'
  <2>1. Reported' = Reported /\ Earned' = Earned
    BY <1>0, <1>1, <1>7, <1>9 DEF Reported, Earned
  <2>2. (\A h \in Grids : ~grid'[h].torn) => \A h \in Grids : ~grid[h].torn
    BY <1>7, <1>9
  <2> QED  BY <1>0, <2>1, <2>2 DEF GridInv, ProfitIsReported, Reported, Earned
<1>14. ThreadTypes' /\ ThreadInv'
  <2>1. \A h \in Grids, k \in LevelIds : grid'[h].level[k].held => grid[h].level[k].held
    <3> SUFFICES ASSUME NEW h \in Grids, NEW k \in LevelIds, grid'[h].level[k].held
                 PROVE  grid[h].level[k].held
      OBVIOUS
    <3>1. CASE h # g
      BY <1>9, <3>1
    <3>2. CASE h = g /\ (thread.orphan \/ k # l)
      BY <1>0, <1>10, <3>2
    <3>3. CASE h = g /\ ~thread.orphan /\ k = l
      BY <1>0, <1>10, <3>3 DEF IdleLevel
    <3> QED  BY <3>1, <3>2, <3>3
  <2> QED  BY <1>0, <2>1, MovedOn, TickFollows
<1>15. owner' \in [PosIds -> Grids \cup {0}]
  BY <1>0 DEF GridInv, GridTypes
<1> QED  BY <1>0, <1>1, <1>9, <1>11, <1>12, <1>13, <1>14, <1>15, TradeKeeps

-----------------------------------------------------------------------------
(* Buys *)

\* What a level holds once it was bought.
NewLevel(g, l, i) ==
    [held |-> TRUE, pos |-> i, qty |-> positions'[i].qty, target |-> Target(g, l)]

\* The grid after a level was bought.
LEMMA BoughtTypes ==
  ASSUME GridInv, NEW g \in Grids, NEW l \in LevelIds, NEW i \in PosIds, positions'[i].qty \in Nat,
         NEW nl, nl = NewLevel(g, l, i),
         NEW r, r = Bought(g, l, i)
  PROVE  /\ r \in Runner
         /\ r.level = [grid[g].level EXCEPT ![l] = nl]
         /\ r.cum = grid[g].cum /\ r.past = grid[g].past
         /\ r.buys = grid[g].buys + 1 /\ r.sells = grid[g].sells /\ r.gone = grid[g].gone
         /\ r.torn = grid[g].torn /\ r.exists = grid[g].exists
<1>0. /\ grid[g] \in GridType /\ Len(grid[g].missed) <= MissedCap
      /\ grid[g].level \in [LevelIds -> Level] /\ grid[g].buys \in Nat
  <2>1. grid[g] \in Runner
    BY DEF GridInv, GridTypes
  <2> QED  BY <2>1, RunnerFields DEF Runner
<1>2. nl \in Level
  <2>1. Target(g, l) \in Nat
    BY LevelPriceType DEF GridInv
  <2> QED  BY <2>1 DEF NewLevel, Level
<1>3. PICK lv : lv = [grid[g].level EXCEPT ![l] = nl]
  OBVIOUS
<1>4. lv \in [LevelIds -> Level]
  BY <1>0, <1>2, <1>3
<1>5. PICK n : n = grid[g].buys + 1
  OBVIOUS
<1>6. n \in Nat
  <2>1. grid[g].buys \in Nat
    BY <1>0
  <2> QED  BY ONLY <1>5, <2>1
<1>7. r = [grid[g] EXCEPT !.level = lv, !.buys = n]
  BY <1>0, <1>3, <1>5 DEF Bought, NewLevel, GridType
<1>8. r \in GridType
  BY <1>0, <1>4, <1>6, <1>7 DEF GridType
<1>9. /\ r.level = lv /\ r.missed = grid[g].missed /\ r.buys = n
      /\ r.cum = grid[g].cum /\ r.past = grid[g].past
      /\ r.sells = grid[g].sells /\ r.gone = grid[g].gone
      /\ r.torn = grid[g].torn /\ r.exists = grid[g].exists
  BY <1>0, <1>7 DEF GridType
<1> QED  BY <1>0, <1>3, <1>5, <1>8, <1>9 DEF Runner

\* A buy keeps the invariant, if the level it is for holds nothing yet or
\* belongs to a runner cut off from its lists, whose purchase is dropped.
LEMMA BuyKeeps ==
  ASSUME GridInv, NEW g \in Grids, NEW l \in LevelIds, g = thread.at, thread.px \in Prices,
         BuyOn(g, l), thread.orphan \/ ~grid[g].level[l].held,
         thread' \in ThreadType, thread'.pc = thread.pc, thread'.at = thread.at,
         thread'.px = thread.px, thread'.next <= thread.next, thread'.view = thread.view,
         thread'.orphan = thread.orphan, thread'.own = thread.own,
         thread'.detached = thread.detached,
         thread'.pc = "levels" => thread'.next < l
  PROVE  GridInv'
<1>0. /\ grid \in [Grids -> Runner] /\ grid[g] \in Runner
      /\ grid[g].level \in [LevelIds -> Level]
      /\ positions \in [PosIds -> Position] /\ owner \in [PosIds -> Grids \cup {0}]
      /\ 0 \notin Grids
      /\ thread.orphan => g \in thread.detached /\ \A k \in LevelIds : ~grid[g].level[k].held
  <2>1. grid \in [Grids -> Runner] /\ grid[g] \in Runner
    BY DEF GridInv, GridTypes
  <2>2. grid[g].level \in [LevelIds -> Level]
    BY <2>1, RunnerFields
  <2>3. 0 \notin Grids
    BY DEF Grids, Keys
  <2>4. thread.orphan => g \in thread.detached /\ \A k \in LevelIds : ~grid[g].level[k].held
    BY DEF GridInv, ThreadInv
  <2> QED  BY <2>1, <2>2, <2>3, <2>4 DEF GridInv, GridTypes, TypeOK
<1>1. PICK i \in PosIds, slip \in BuySlips :
        /\ OpenLong(i, QtyFor(g, l, thread.px), thread.px, slip)
        /\ Write(g, Bought(g, l, i))
        /\ owner' = [owner EXCEPT ![i] = g]
        /\ dropped' = IF thread.orphan THEN dropped \cup {i} ELSE dropped
        /\ UNCHANGED <<saved, savedCash, lost, restarts>>
  BY DEF BuyOn
<1>2. /\ TypeOK' /\ ReservationsFunded'
      /\ positions[i].state = "none" /\ positions[i].pnl = 0 /\ owner[i] = 0
      /\ positions'[i].state = "open" /\ positions'[i].pnl = 0 /\ positions'[i].qty \in Nat
      /\ \A j \in PosIds : j # i => positions'[j] = positions[j]
  <2>1. thread.px \in Nat \ {0}
    OBVIOUS
  <2>2. QtyFor(g, l, thread.px) \in Nat
    BY <2>1, QtyForType DEF GridInv
  <2>3. PICK q : q = QtyFor(g, l, thread.px)
    OBVIOUS
  <2> QED  BY <1>1, <2>1, <2>2, <2>3, BuyAccount
<1>3. /\ owner'[i] = g /\ \A j \in PosIds : j # i => owner'[j] = owner[j]
      /\ owner' \in [PosIds -> Grids \cup {0}]
  BY <1>0, <1>1
<1>4. PICK nl : nl = NewLevel(g, l, i)
  OBVIOUS
<1>5. nl.held /\ nl.pos = i /\ nl.qty = positions'[i].qty
  BY <1>4 DEF NewLevel
<1>6. PICK r : r = Bought(g, l, i)
  OBVIOUS
<1>7. /\ r \in Runner /\ r.level = [grid[g].level EXCEPT ![l] = nl]
      /\ r.cum = grid[g].cum /\ r.past = grid[g].past
      /\ r.buys = grid[g].buys + 1 /\ r.sells = grid[g].sells /\ r.gone = grid[g].gone
      /\ r.torn = grid[g].torn /\ r.exists = grid[g].exists
  <2>1. positions'[i].qty \in Nat
    BY <1>2
  <2> QED  BY <1>4, <1>6, <2>1, BoughtTypes
<1>8. /\ grid' \in [Grids -> Runner]
      /\ \A h \in Grids : h # g => grid'[h] = grid[h]
      /\ g \notin thread.detached => grid'[g] = r
      /\ g \in thread.detached =>
           /\ grid'[g].torn
           /\ grid'[g].level = IF thread.orphan THEN grid[g].level ELSE r.level
           /\ grid'[g].cum = grid[g].cum /\ grid'[g].past = grid[g].past
           /\ grid'[g].exists = grid[g].exists
  <2>1. Write(g, r)
    BY <1>1, <1>6
  <2> QED  BY <1>7, <2>1, WriteShape
<1>9. IF thread.orphan THEN grid'[g].level = grid[g].level
      ELSE grid'[g].level = [grid[g].level EXCEPT ![l] = nl]
  BY <1>0, <1>7, <1>8
<1>10. ASSUME NEW h \in Grids, NEW k \in LevelIds
       PROVE  \/ grid'[h].level[k] = grid[h].level[k]
              \/ h = g /\ k = l /\ ~thread.orphan /\ grid'[h].level[k] = nl
  <2>1. CASE h # g
    BY <1>8, <2>1
  <2>2. CASE h = g /\ (thread.orphan \/ k # l)
    BY <1>0, <1>9, <2>2
  <2>3. CASE h = g /\ ~thread.orphan /\ k = l
    BY <1>0, <1>9, <2>3
  <2> QED  BY <2>1, <2>2, <2>3
<1>11. \A h \in Grids, k \in LevelIds : grid[h].level[k].held =>
         /\ grid[h].level[k].pos \in PosIds /\ grid[h].level[k].pos # i
         /\ owner[grid[h].level[k].pos] = h
         /\ grid'[h].level[k] = grid[h].level[k]
  <2> SUFFICES ASSUME NEW h \in Grids, NEW k \in LevelIds, grid[h].level[k].held
               PROVE  /\ grid[h].level[k].pos \in PosIds /\ grid[h].level[k].pos # i
                      /\ owner[grid[h].level[k].pos] = h
                      /\ grid'[h].level[k] = grid[h].level[k]
    OBVIOUS
  <2>1. /\ grid[h].level[k].pos \in PosIds /\ owner[grid[h].level[k].pos] = h
        /\ positions[grid[h].level[k].pos].state # "none"
    BY DEF GridInv, LevelsOK
  <2>2. grid[h].level[k].pos # i
    BY <1>2, <2>1
  <2>3. ~(h = g /\ k = l /\ ~thread.orphan)
    OBVIOUS
  <2> QED  BY <1>10, <2>1, <2>2, <2>3
<1>12. PositionInv'
  <2>1. ASSUME NEW j \in PosIds, positions'[j].state = "none"
        PROVE  positions'[j] = NoPosition /\ owner'[j] = 0
    <3>1. j # i /\ positions'[j] = positions[j] /\ owner'[j] = owner[j]
      BY <1>2, <1>3, <2>1
    <3> QED  BY <2>1, <3>1 DEF GridInv, PositionInv, FreshIsBlank
  <2>2. ASSUME NEW j \in PosIds, j \in lost' PROVE positions'[j].state = "closed"
    <3>1. positions[j].state = "closed"
      BY <1>1, <2>2 DEF GridInv, PositionInv
    <3> QED  BY <1>2, <3>1
  <2> QED  BY <2>1, <2>2 DEF PositionInv, FreshIsBlank
<1>13. LevelsOK(grid)'
  <2> SUFFICES ASSUME NEW h \in Grids, NEW k \in LevelIds
               PROVE  LET lv == grid'[h].level[k]
                      IN  IF lv.held
                          THEN /\ lv.pos \in PosIds /\ owner'[lv.pos] = h
                               /\ positions'[lv.pos].state # "none"
                               /\ \A j \in LevelIds :
                                    grid'[h].level[j].held /\ grid'[h].level[j].pos = lv.pos
                                    => j = k
                          ELSE lv.pos = 0
    BY DEF LevelsOK
  <2>1. CASE grid'[h].level[k] = grid[h].level[k] /\ grid[h].level[k].held
    <3>1. PICK p : p = grid[h].level[k].pos
      OBVIOUS
    <3>2. p \in PosIds /\ p # i /\ owner[p] = h
      BY <1>11, <2>1, <3>1
    <3>3. /\ positions[p].state # "none"
          /\ \A j \in LevelIds : grid[h].level[j].held /\ grid[h].level[j].pos = p => j = k
      BY <2>1, <3>1 DEF GridInv, LevelsOK
    <3>4. \A j \in LevelIds : grid'[h].level[j].held /\ grid'[h].level[j].pos = p => j = k
      BY <1>5, <1>10, <3>2, <3>3
    <3> QED  BY <1>2, <1>3, <2>1, <3>1, <3>2, <3>3, <3>4
  <2>2. CASE grid'[h].level[k] = grid[h].level[k] /\ ~grid[h].level[k].held
    <3>1. grid[h].level[k].pos = 0
      BY <2>2 DEF GridInv, LevelsOK
    <3> QED  BY <2>2, <3>1
  <2>3. CASE h = g /\ k = l /\ ~thread.orphan /\ grid'[h].level[k] = nl
    <3>1. ASSUME NEW j \in LevelIds, grid'[h].level[j].held, grid'[h].level[j].pos = i
          PROVE  j = k
      <4>1. CASE grid'[h].level[j] = grid[h].level[j]
        <5>1. grid[h].level[j].held /\ grid[h].level[j].pos = i
          BY <3>1, <4>1
        <5> QED  BY <1>11, <5>1
      <4>2. CASE j = l
        BY <2>3, <4>2
      <4> QED  BY <1>10, <4>1, <4>2
    <3> QED  BY <1>2, <1>3, <1>5, <2>3, <3>1
  <2> QED  BY <1>10, <2>1, <2>2, <2>3
<1>14. BackingInv'
  <2> SUFFICES ASSUME NEW h \in Grids, NEW k \in LevelIds, grid'[h].level[k].held
               PROVE  \/ grid'[h].level[k].pos \in lost'
                      \/ /\ positions'[grid'[h].level[k].pos].state = "open"
                         /\ positions'[grid'[h].level[k].pos].qty = grid'[h].level[k].qty
    BY DEF BackingInv, IsOpen
  <2>1. CASE grid'[h].level[k] = grid[h].level[k]
    <3>1. PICK p : p = grid[h].level[k].pos
      OBVIOUS
    <3>2. p \in PosIds /\ positions'[p] = positions[p]
      BY <1>2, <1>11, <2>1, <3>1
    <3>3. p \in lost \/ (positions[p].state = "open" /\ positions[p].qty = grid[h].level[k].qty)
      BY <2>1, <3>1 DEF GridInv, BackingInv, IsOpen
    <3> QED  BY <1>1, <2>1, <3>1, <3>2, <3>3
  <2>2. CASE grid'[h].level[k] = nl
    BY <1>2, <1>5, <2>2
  <2> QED  BY <1>10, <2>1, <2>2
<1>15. NoForgottenPosition'
  <2> SUFFICES ASSUME NEW j \in PosIds, j \notin dropped', positions'[j].state = "open",
                      owner'[j] # 0, grid'[owner'[j]].exists
               PROVE  \E k \in LevelIds : /\ grid'[owner'[j]].level[k].held
                                          /\ grid'[owner'[j]].level[k].pos = j
    BY DEF NoForgottenPosition, HeldLevels, IsOpen
  <2>1. CASE j = i
    <3>1. ~thread.orphan
      BY <1>1, <2>1
    <3>2. grid'[g].level[l] = nl
      BY <1>0, <1>9, <3>1
    <3> QED  BY <1>3, <1>5, <2>1, <3>2
  <2>2. CASE j # i
    <3>1. /\ positions'[j] = positions[j] /\ owner'[j] = owner[j] /\ j \notin dropped
          /\ owner[j] \in Grids
      BY <1>0, <1>1, <1>2, <1>3, <2>2
    <3>2. \A h \in Grids : grid'[h].exists = grid[h].exists
      BY <1>7, <1>8
    <3>3. PICK k \in LevelIds : grid[owner[j]].level[k].held /\ grid[owner[j]].level[k].pos = j
      BY <3>1, <3>2 DEF GridInv, NoForgottenPosition, HeldLevels, IsOpen
    <3>4. grid'[owner[j]].level[k] = grid[owner[j]].level[k]
      BY <1>11, <3>1, <3>3
    <3> QED  BY <3>1, <3>3, <3>4
  <2> QED  BY <2>1, <2>2
<1>16. CountersOK(grid)'
  <2> SUFFICES ASSUME NEW h \in Grids, ~grid'[h].torn
               PROVE  grid'[h].buys = grid'[h].sells
                        + Cardinality(HeldIn(grid'[h].level)) + grid'[h].gone
    BY DEF CountersOK
  <2>1. CASE h # g
    BY <1>8, <2>1 DEF GridInv, CountersOK
  <2>2. CASE h = g
    <3>1. g \notin thread.detached /\ ~thread.orphan /\ grid'[g] = r
      BY <1>0, <1>8, <2>2
    <3>2. PICK a, b : a = grid[g].level /\ b = grid'[g].level
      OBVIOUS
    <3>3. ~a[l].held /\ b[l].held /\ \A k \in LevelIds : k # l => a[k] = b[k]
      BY <1>0, <1>5, <1>9, <3>1, <3>2
    <3>4. PICK n, m : n = Cardinality(HeldIn(a)) /\ m = Cardinality(HeldIn(b))
      OBVIOUS
    <3>5. n \in Nat /\ m = n + 1
      BY <3>3, <3>4, OneReleased
    <3>6. grid[g].buys = grid[g].sells + n + grid[g].gone
      BY <1>7, <2>2, <3>1, <3>2, <3>4 DEF GridInv, CountersOK
    <3>7. grid[g].sells \in Nat /\ grid[g].gone \in Nat
      BY <1>0, RunnerFields
    <3>8. grid[g].buys + 1 = grid[g].sells + m + grid[g].gone
      BY ONLY <3>5, <3>6, <3>7
    <3> QED  BY <1>7, <2>2, <3>1, <3>2, <3>4, <3>8
  <2> QED  BY <2>1, <2>2
<1>17. ProfitIsReported'
  <2>1. Reported' = Reported
    BY <1>7, <1>8 DEF Reported
  <2>2. Earned' = Earned
    BY <1>2, <1>3 DEF Earned
  <2>3. (\A h \in Grids : ~grid'[h].torn) => \A h \in Grids : ~grid[h].torn
    BY <1>7, <1>8
  <2> QED  BY <1>1, <2>1, <2>2, <2>3 DEF GridInv, ProfitIsReported, Reported, Earned
<1>18. ThreadTypes' /\ ThreadInv'
  <2>1. ASSUME thread'.pc = "levels", NEW k \in LevelIds, k <= thread'.next,
               grid'[thread.at].level[k].held
        PROVE  grid[thread.at].level[k].held
    <3>1. k # l
      <4>1. thread'.next \in Int /\ l \in Int /\ thread'.next < l
        BY <2>1 DEF ThreadType, LevelIds
      <4> QED  BY <2>1, <4>1
    <3> QED  BY <1>10, <2>1, <3>1
  <2>2. thread.orphan => \A k \in LevelIds : ~grid'[thread.at].level[k].held
    BY <1>0, <1>9
  <2>3. \A j \in PosIds : owner[j] # 0 => owner'[j] = owner[j]
    BY <1>2, <1>3
  <2>4. \A j \in PosIds : j \in dropped => j \in dropped'
    BY <1>1
  <2> QED  BY <2>1, <2>2, <2>3, <2>4, TickAdvances
<1>19. \A j \in PosIds : positions[j].state # "none" =>
                              positions'[j].state # "none" /\ owner'[j] = owner[j]
  BY <1>2, <1>3
<1> QED  BY <1>1, <1>2, <1>3, <1>8, <1>12, <1>13, <1>14, <1>15, <1>16, <1>17, <1>18, <1>19,
            TradeKeeps

\* The two ways a grid buys: on a visit, and by retrying a missed entry.
LEMMA GridBuysKeep ==
  ASSUME GridInv, NEW g \in Grids, NEW l \in LevelIds, VisitBuy(g, l) \/ RetryBuy(g, l)
  PROVE  GridInv'
<1>0. thread \in ThreadType
  BY DEF GridInv, GridTypes, ThreadTypes
<1>1. CASE VisitBuy(g, l)
  <2>1. /\ g = thread.at /\ Visiting(l) /\ BuyOn(g, l) /\ Moved(TRUE)
        /\ thread.pc = "levels" /\ thread.next = l /\ ~thread.view[l].held
    BY <1>1 DEF VisitBuy, Visiting, Wanted
  <2>2. ~grid[g].level[l].held
    <3>1. l <= thread.next
      BY <2>1 DEF LevelIds
    <3> QED  BY <2>1, <3>1 DEF GridInv, ThreadInv
  <2>3. /\ thread' \in ThreadType /\ thread'.pc = thread.pc /\ thread'.at = thread.at
        /\ thread'.px = thread.px /\ thread'.next = thread.next - 1
        /\ thread'.next <= thread.next /\ thread'.view = thread.view
        /\ thread'.orphan = thread.orphan /\ thread'.own = thread.own
        /\ thread'.detached = thread.detached /\ thread.px \in Prices
    BY <2>1, MovedOn
  <2>4. thread'.next < l
    <3>1. l \in Int
      BY DEF LevelIds
    <3> QED  BY <2>1, <2>3, <3>1
  <2> QED  BY <2>1, <2>2, <2>3, <2>4, BuyKeeps
<1>2. CASE RetryBuy(g, l)
  <2>1. /\ g = thread.at /\ BuyOn(g, l) /\ thread.pc = "retry" /\ ~grid[g].level[l].held
        /\ thread.queue # <<>> /\ thread.queue \in Seq(LevelIds)
    BY <1>0, <1>2 DEF RetryBuy, Retrying, RetryOpen, ThreadType
  <2>2. Tail(thread.queue) \in Seq(LevelIds)
    BY <2>1
  <2>3. thread' = [thread EXCEPT !.queue = Tail(thread.queue), !.legChanged = TRUE]
    BY <1>0, <1>2 DEF RetryBuy, ThreadType
  <2>4. /\ thread' \in ThreadType /\ thread'.pc = thread.pc /\ thread'.at = thread.at
        /\ thread'.px = thread.px /\ thread'.next = thread.next
        /\ thread'.view = thread.view
        /\ thread'.orphan = thread.orphan /\ thread'.own = thread.own
        /\ thread'.detached = thread.detached
    BY <1>0, <2>2, <2>3 DEF ThreadType
  <2>5. thread'.next <= thread.next /\ thread'.pc # "levels" /\ thread.px \in Prices
    <3>1. thread.next \in Int
      BY <1>0 DEF ThreadType
    <3> QED  BY <2>1, <2>4, <3>1 DEF GridInv, GridTypes, ThreadTypes
  <2> QED  BY <2>1, <2>4, <2>5, BuyKeeps
<1> QED  BY <1>1, <1>2

-----------------------------------------------------------------------------
(* Restarts *)

\* The grid g of grids.json was running.
WasRunning(g) == saved[g].exists /\ saved[g].running

\* The first n grids have locked their capital in turn, as resume_all does.
LockedInTurn(f, n) ==
    \A g \in 1..n :
        f[g] = IF WasRunning(g) /\ Allocated <= savedCash - SumTo(f, g - 1) THEN Allocated ELSE 0

\* Locking in turn always comes to an end, whatever the grids and the cash.
LEMMA LocksExist ==
  ASSUME NEW n \in Nat, n <= NKeys
  PROVE  \E f \in [Grids -> {0, Allocated}] : LockedInTurn(f, n)
<1> DEFINE S == {m \in Nat : m <= NKeys => \E f \in [Grids -> {0, Allocated}] : LockedInTurn(f, m)}
<1>1. 0 \in S
  <2>1. [g \in Grids |-> 0] \in [Grids -> {0, Allocated}]
    OBVIOUS
  <2>2. \A f : LockedInTurn(f, 0)
    BY DEF LockedInTurn
  <2> QED  BY <2>1, <2>2
<1>2. ASSUME NEW m \in Nat, m \in S PROVE m + 1 \in S
  <2> SUFFICES ASSUME m + 1 <= NKeys
               PROVE  \E f \in [Grids -> {0, Allocated}] : LockedInTurn(f, m + 1)
    OBVIOUS
  <2>1. NKeys \in Nat /\ m <= NKeys /\ m + 1 \in 1..NKeys /\ 1..m \subseteq 1..NKeys
    OBVIOUS
  <2>2. PICK f \in [Grids -> {0, Allocated}] : LockedInTurn(f, m)
    BY <1>2, <2>1
  <2>3. PICK a : a = IF WasRunning(m + 1) /\ Allocated <= savedCash - SumTo(f, m) THEN Allocated ELSE 0
    OBVIOUS
  <2>4. PICK e : e = [f EXCEPT ![m + 1] = a]
    OBVIOUS
  <2>5. Grids = 1..NKeys /\ a \in {0, Allocated}
    BY <2>3 DEF Grids, Keys
  <2>6. e \in [Grids -> {0, Allocated}] /\ e[m + 1] = a /\ \A g \in 1..m : e[g] = f[g]
    BY <2>1, <2>4, <2>5
  <2>7. \A g \in 1..(m + 1) : SumTo(e, g - 1) = SumTo(f, g - 1)
    <3> SUFFICES ASSUME NEW g \in 1..(m + 1) PROVE SumTo(e, g - 1) = SumTo(f, g - 1)
      OBVIOUS
    <3>1. g - 1 \in Nat /\ \A i \in 1..(g - 1) : i \in 1..m
      OBVIOUS
    <3>2. \A i \in 1..(g - 1) : e[i] = f[i]
      BY <2>6, <3>1
    <3>3. PICK k : k = g - 1
      OBVIOUS
    <3> QED  BY <3>1, <3>2, <3>3, SumEqual
  <2>8. LockedInTurn(e, m + 1)
    <3> SUFFICES ASSUME NEW g \in 1..(m + 1)
                 PROVE  e[g] = IF WasRunning(g) /\ Allocated <= savedCash - SumTo(e, g - 1)
                               THEN Allocated ELSE 0
      BY DEF LockedInTurn
    <3>1. CASE g = m + 1
      <4>1. g - 1 = m
        BY <3>1
      <4>2. SumTo(e, g - 1) = SumTo(f, m)
        BY <2>7, <4>1
      <4> QED  BY <2>3, <2>6, <3>1, <4>2
    <3>2. CASE g \in 1..m
      BY <2>2, <2>6, <2>7, <3>2 DEF LockedInTurn
    <3> QED  BY <3>1, <3>2
  <2> QED  BY <2>6, <2>8
<1> HIDE DEF S
<1>3. n \in S
  BY <1>1, <1>2, SetInduction
<1> QED  BY <1>3 DEF S

\* What the grids lock when they are resumed, the saved cash pays for.
LEMMA ResumedFunded ==
  ASSUME savedCash \in Nat
  PROVE  Resumed \in [Grids -> {0, Allocated}] /\ SumTo(Resumed, NKeys) <= savedCash
<1>0. NKeys \in Nat /\ NKeys <= NKeys /\ Grids = 1..NKeys /\ Allocated \in Nat
  BY DEF Grids, Keys, Allocated
<1>1. Resumed = CHOOSE f \in [Grids -> {0, Allocated}] : LockedInTurn(f, NKeys)
  BY <1>0 DEF Resumed, LockedInTurn, WasRunning
<1>2. \E f \in [Grids -> {0, Allocated}] : LockedInTurn(f, NKeys)
  BY <1>0, LocksExist
<1>3. Resumed \in [Grids -> {0, Allocated}] /\ LockedInTurn(Resumed, NKeys)
  BY <1>1, <1>2
<1>4. PICK f : f = Resumed
  OBVIOUS
<1>5. f \in [1..NKeys -> Int] /\ LockedInTurn(f, NKeys)
  BY <1>0, <1>3, <1>4
<1> DEFINE S == {m \in Nat : m <= NKeys => SumTo(f, m) <= savedCash}
<1>6. 0 \in S
  BY SumUnfold
<1>7. ASSUME NEW m \in Nat, m \in S PROVE m + 1 \in S
  <2> SUFFICES ASSUME m + 1 <= NKeys PROVE SumTo(f, m + 1) <= savedCash
    OBVIOUS
  <2>1. m <= NKeys /\ m \in 0..NKeys /\ m + 1 \in 1..NKeys /\ (m + 1) - 1 = m
    BY <1>0
  <2>2. SumTo(f, m) <= savedCash
    BY <1>7, <2>1
  <2>3. SumTo(f, m) \in Int
    BY ONLY <1>0, <1>5, <2>1, SumInt
  <2>4. SumTo(f, m + 1) = SumTo(f, m) + f[m + 1]
    BY SumUnfold
  <2>5. f[m + 1] = 0 \/ (f[m + 1] = Allocated /\ Allocated <= savedCash - SumTo(f, m))
    BY <1>5, <2>1 DEF LockedInTurn
  <2> QED  BY <1>0, <2>2, <2>3, <2>4, <2>5
<1> HIDE DEF S
<1>8. NKeys \in S
  BY <1>0, <1>6, <1>7, SetInduction
<1> QED  BY <1>0, <1>3, <1>4, <1>8 DEF S

\* A restart loses every position and keeps the invariant: the grids of
\* grids.json, whose levels all belong to positions of earlier processes.
LEMMA RestartKeeps ==
  ASSUME GridInv, Restart
  PROVE  GridInv'
<1>0. /\ TypeOK /\ saved \in [Grids -> SavedRunner] /\ savedCash \in Nat
      /\ owner \in [PosIds -> Grids \cup {0}] /\ restarts \in Nat
      /\ positions \in [PosIds -> Position]
  BY DEF GridInv, GridTypes, TypeOK
<1>1. \A i \in PosIds : positions'[i] = IF positions[i].state = "none" THEN NoPosition
                                        ELSE [NoPosition EXCEPT !.state = "closed"]
  BY DEF Restart
<1>2. /\ NoPosition \in Position /\ [NoPosition EXCEPT !.state = "closed"] \in Position
      /\ NoPosition.state = "none" /\ [NoPosition EXCEPT !.state = "closed"].state = "closed"
  BY DEF NoPosition, Position
<1>3. \A i \in PosIds : positions'[i].state = IF positions[i].state = "none" THEN "none" ELSE "closed"
  BY <1>1, <1>2
<1>4. TypeOK' /\ ReservationsFunded'
  <2>1. Resumed \in [Grids -> {0, Allocated}] /\ SumTo(Resumed, NKeys) <= savedCash
    BY <1>0, ResumedFunded
  <2>2. Allocated \in Nat
    BY DEF Allocated
  <2>3. reserved' = Resumed /\ reserved' \in [Keys -> Nat]
    BY <2>1, <2>2 DEF Restart, Grids
  <2>4. positions' \in [PosIds -> Position]
    BY <1>2 DEF Restart
  <2>5. TypeOK'
    <3>1. /\ cash' = savedCash /\ startingCapital' = savedCash /\ funding' = savedCash
          /\ entryFees' = 0 /\ price' = price
      BY DEF Restart
    <3>2. price \in Prices /\ savedCash \in Int
      BY <1>0 DEF TypeOK
    <3> QED  BY <1>0, <2>3, <2>4, <3>1, <3>2 DEF TypeOK
  <2>6. ReservationsFunded'
    BY <2>1, <2>3 DEF Restart, ReservationsFunded, ReservedTotal
  <2> QED  BY <2>5, <2>6
<1>5. lost' = {i \in PosIds : positions[i].state # "none"}
  BY DEF Restart, FreshIds
<1>6. /\ grid' = saved /\ saved' = saved /\ owner' = owner /\ savedCash' = savedCash
      /\ restarts' = restarts + 1 /\ thread' = NoTick
  BY DEF Restart
<1>7. saved' \in [Grids -> SavedRunner] /\ LevelsOK(saved)' /\ CountersOK(saved)'
  <2>1. \A i \in PosIds : positions[i].state # "none" =>
                              positions'[i].state # "none" /\ owner'[i] = owner[i]
    BY <1>3, <1>6
  <2> QED  BY <1>6, <2>1, FileStays
<1>8. grid' \in [Grids -> Runner] /\ LevelsOK(grid)' /\ CountersOK(grid)'
  <2>1. grid' = saved'
    BY <1>6
  <2> QED  BY <1>7, <2>1 DEF SavedRunner, LevelsOK, CountersOK
<1>9. PositionInv'
  <2>1. ASSUME NEW i \in PosIds, positions'[i].state = "none"
        PROVE  positions'[i] = NoPosition /\ owner'[i] = 0
    BY <1>1, <1>3, <1>6, <2>1 DEF GridInv, PositionInv
  <2>2. ASSUME NEW i \in PosIds, i \in lost' PROVE positions'[i].state = "closed"
    BY <1>3, <1>5, <2>2
  <2> QED  BY <2>1, <2>2 DEF PositionInv, FreshIsBlank
<1>10. BackingInv'
  <2> SUFFICES ASSUME NEW g \in Grids, NEW l \in LevelIds, grid'[g].level[l].held
               PROVE  grid'[g].level[l].pos \in lost'
    BY DEF BackingInv
  <2>1. saved[g].level[l].pos \in PosIds /\ positions[saved[g].level[l].pos].state # "none"
    BY <1>6 DEF GridInv, LevelsOK
  <2> QED  BY <1>5, <1>6, <2>1
<1>11. NoForgottenPosition'
  BY <1>3 DEF NoForgottenPosition, IsOpen
<1>12. ProfitIsReported'
  <2>1. restarts' # 0
    BY <1>0, <1>6
  <2> QED  BY <2>1 DEF ProfitIsReported
<1>13. ThreadTypes' /\ ThreadInv'
  <2>1. /\ NoTick \in ThreadType /\ NoTick.pc = "idle" /\ NoTick.at = 0 /\ ~NoTick.orphan
    <3>1. IdleLevels \in [LevelIds -> Level] /\ <<>> \in Seq(LevelIds) /\ 0 \in 0..NLevels
      BY HeldCount
    <3> QED  BY <3>1 DEF NoTick, ThreadType
  <2> QED  BY <1>6, <2>1 DEF ThreadTypes, ThreadInv
<1>14. restarts' \in Nat /\ savedCash' \in Nat /\ owner' \in [PosIds -> Grids \cup {0}]
  BY <1>0, <1>6
<1>15. GridTypes'
  BY <1>4, <1>7, <1>8, <1>13, <1>14 DEF GridTypes
<1> QED  BY <1>4, <1>7, <1>8, <1>9, <1>10, <1>11, <1>12, <1>13, <1>15 DEF GridInv

-----------------------------------------------------------------------------
(* The grids as a whole *)

\* Before the first cycle nothing is held, locked or reported.
LEMMA GridStarts == GridInit => GridInv
<1> SUFFICES ASSUME GridInit PROVE GridInv
  OBVIOUS
<1>0. /\ grid = [g \in Grids |-> NewGrid] /\ saved = grid /\ thread = NoTick
      /\ owner = [i \in PosIds |-> 0] /\ lost = {} /\ restarts = 0 /\ savedCash = Capital
      /\ positions = [i \in PosIds |-> NoPosition]
      /\ IdleLevels \in [LevelIds -> Level]
      /\ \A l \in LevelIds : ~IdleLevels[l].held /\ IdleLevels[l].pos = 0
      /\ Cardinality(HeldIn(IdleLevels)) = 0
  BY HeldCount DEF GridInit, BrokerInit
<1>1. TypeOK
  BY TypeInit DEF GridInit
<1>2. /\ NewGrid \in Runner /\ NewGrid \in SavedRunner /\ NewGrid.level = IdleLevels
      /\ ~NewGrid.torn /\ NewGrid.buys = 0 /\ NewGrid.sells = 0 /\ NewGrid.gone = 0
      /\ NewGrid.cum = 0 /\ NewGrid.past = 0
  <2>1. /\ <<>> \in Seq(LevelIds) /\ Len(<<>>) = 0 /\ 0 \in 0..MaxShift
        /\ (ActivationPrice = 0) \in BOOLEAN /\ [l \in LevelIds |-> 0] \in [LevelIds -> Nat]
    OBVIOUS
  <2>2. NewGrid \in GridType /\ NewGrid.missed = <<>>
    BY <1>0, <2>1 DEF NewGrid, GridType
  <2>3. NewGrid \in Runner /\ NewGrid \in SavedRunner
    BY <2>1, <2>2 DEF Runner, SavedRunner
  <2> QED  BY <2>3 DEF NewGrid
<1>3. ThreadTypes /\ ThreadInv
  <2>1. /\ NoTick \in ThreadType /\ NoTick.pc = "idle" /\ NoTick.at = 0 /\ ~NoTick.orphan
    <3>1. <<>> \in Seq(LevelIds) /\ 0 \in 0..NLevels
      OBVIOUS
    <3> QED  BY <1>0, <3>1 DEF NoTick, ThreadType
  <2> QED  BY <1>0, <2>1 DEF ThreadTypes, ThreadInv
<1>4. GridTypes
  BY <1>0, <1>1, <1>2, <1>3 DEF GridTypes
<1>5. PositionInv
  BY <1>0 DEF PositionInv, FreshIsBlank
<1>6. LevelsOK(grid) /\ LevelsOK(saved) /\ BackingInv
  BY <1>0, <1>2 DEF LevelsOK, BackingInv
<1>7. CountersOK(grid) /\ CountersOK(saved)
  BY <1>0, <1>2 DEF CountersOK
<1>8. NoForgottenPosition
  BY <1>0 DEF NoForgottenPosition, IsOpen, NoPosition
<1>9. ReservationsFunded
  <2>1. \A i \in 1..NKeys : reserved[i] = 0
    BY DEF GridInit, BrokerInit, Keys
  <2>2. SumTo(reserved, NKeys) = 0
    BY <2>1, SumZero
  <2>3. cash = Capital /\ Capital \in Nat
    BY DEF GridInit, BrokerInit
  <2> QED  BY <2>2, <2>3 DEF ReservationsFunded, ReservedTotal
<1>10. ProfitIsReported
  <2>1. \A i \in 1..NKeys : Reported[i] = 0
    BY <1>0, <1>2 DEF Reported, Grids, Keys
  <2>2. \A i \in 1..NPos : Earned[i] = 0
    BY <1>0 DEF Earned, PosIds
  <2>3. SumTo(Reported, NKeys) = 0
    BY <2>1, SumZero
  <2>4. SumTo(Earned, NPos) = 0
    BY <2>2, SumZero
  <2> QED  BY <2>3, <2>4 DEF ProfitIsReported, Reported, Earned
<1> QED  BY <1>3, <1>4, <1>5, <1>6, <1>7, <1>8, <1>9, <1>10 DEF GridInv

\* Every step of the price thread keeps the invariant.
LEMMA ThreadStepKeeps ==
  ASSUME GridInv, ThreadStep
  PROVE  GridInv'
<1>1. CASE BeginCycle \/ FetchPrices \/ EndCycle \/ \E g \in Grids : Relock(g) \/ EnterGrid(g)
  BY <1>1, CycleSteps
<1>2. CASE \E g \in Grids : AfterLevels(g) \/ RetryDone(g)
  BY <1>2, AfterLevelsKeeps, RetryDoneKeeps
<1>3. CASE Visit
  <2>1. PICK g \in Grids, l \in LevelIds :
          VisitBuy(g, l) \/ VisitMiss(g, l) \/ VisitSell(g, l) \/ VisitReconcile(g, l)
          \/ VisitNothing(g, l)
    BY <1>3 DEF Visit
  <2>2. CASE VisitBuy(g, l)
    BY <2>2, GridBuysKeep
  <2>3. CASE VisitMiss(g, l) \/ VisitNothing(g, l)
    BY <2>3, QuietVisit
  <2>4. CASE VisitSell(g, l)
    BY <2>4, VisitSellKeeps
  <2>5. CASE VisitReconcile(g, l)
    BY <2>5, VisitReconcileKeeps
  <2> QED  BY <2>1, <2>2, <2>3, <2>4, <2>5
<1>4. CASE Retry
  <2>1. PICK g \in Grids, l \in LevelIds :
          RetryDrop(g, l) \/ RetryKeep(g, l) \/ RetryBuy(g, l) \/ RetryFail(g, l)
    BY <1>4 DEF Retry
  <2>2. CASE RetryBuy(g, l)
    BY <2>2, GridBuysKeep
  <2>3. CASE RetryDrop(g, l) \/ RetryKeep(g, l) \/ RetryFail(g, l)
    BY <2>3, QuietRetry
  <2> QED  BY <2>1, <2>2, <2>3
<1> QED  BY <1>1, <1>2, <1>3, <1>4 DEF ThreadStep

\* Every handler keeps it.
LEMMA UserActionKeeps ==
  ASSUME GridInv, UserAction
  PROVE  GridInv'
<1>1. PICK g \in Grids :
        \/ Start(g) \/ StartRefused(g) \/ Stop(g)
        \/ Delete(g) \/ ResetState(g)
        \/ \E rebuilt \in BOOLEAN : Update(g, rebuilt)
  BY DEF UserAction
<1>2. CASE Start(g)
  BY <1>2, StartKeeps
<1>3. CASE StartRefused(g)
  BY <1>3, MinorSteps
<1>4. CASE Stop(g)
  BY <1>4, StopKeeps
<1>5. CASE Delete(g)
  BY <1>5, DeleteKeeps
<1>6. CASE ResetState(g)
  BY <1>6, ResetKeeps
<1>7. CASE \E rebuilt \in BOOLEAN : Update(g, rebuilt)
  <2>1. Update(g, TRUE) \/ Update(g, FALSE)
    BY <1>7
  <2> QED  BY <2>1, UpdateKeeps, RebuildKeeps
<1> QED  BY <1>1, <1>2, <1>3, <1>4, <1>5, <1>6, <1>7

\* So does every step of the process.
LEMMA GridStep == GridInv /\ [GridNext]_tradingVars => GridInv'
<1> SUFFICES ASSUME GridInv, [GridNext]_tradingVars PROVE GridInv'
  OBVIOUS
<1>1. CASE ThreadStep
  BY <1>1, ThreadStepKeeps
<1>2. CASE UserAction
  BY <1>2, UserActionKeeps
<1>3. CASE OtherTrade
  BY <1>3, OtherTradeKeeps
<1>4. CASE MarketMoves \/ PersistBalance
  BY <1>4, MinorSteps
<1>5. CASE Restart
  BY <1>5, RestartKeeps
<1>6. CASE UNCHANGED tradingVars
  <2>1. UNCHANGED brokerVars /\ UNCHANGED gridVars
    BY <1>6 DEF tradingVars
  <2>2. TypeOK' /\ ReservationsFunded'
    BY <2>1, SameAccount
  <2>3. savedCash' \in Nat
    BY <2>1 DEF gridVars, GridInv, GridTypes
  <2> QED  BY <2>1, <2>2, <2>3, GridsUntouched DEF gridVars, brokerVars
<1> QED  BY <1>1, <1>2, <1>3, <1>4, <1>5, <1>6 DEF GridNext

\* The inductive invariant holds throughout.
LEMMA GridInvariant == GridSpec => []GridInv
BY GridStarts, GridStep, PTL DEF GridSpec

\* The grids, the file and the account keep their types, and no queue of
\* missed entries outgrows its cap: retries append to the list they walk.
THEOREM MissedQueuesAreCapped == GridSpec => []GridTypeOK
<1>1. GridInv => GridTypeOK
  BY DEF GridInv, GridTypes, GridTypeOK, SavedRunner, Runner
<1> QED  BY <1>1, GridInvariant, PTL

\* However the handlers, the retries and restarts interleave with a tick, a
\* held level has its position to sell, and no two levels have the same.
THEOREM NoLevelSellsAnothers == GridSpec => []HeldLevelsBacked
<1>1. GridInv => HeldLevelsBacked
  <2> SUFFICES ASSUME GridInv, NEW g \in Grids, NEW l \in LevelIds, grid[g].level[l].held
               PROVE  LET lv == grid[g].level[l]
                      IN  /\ lv.pos \in lost \/ (Backed(lv) /\ positions[lv.pos].qty = lv.qty)
                          /\ \A h \in Grids : \A k \in LevelIds :
                               grid[h].level[k].held /\ grid[h].level[k].pos = lv.pos => h = g /\ k = l
    BY DEF HeldLevelsBacked, HeldLevels
  <2>1. /\ grid[g].level[l].pos \in PosIds /\ owner[grid[g].level[l].pos] = g
        /\ \A k \in LevelIds :
             grid[g].level[k].held /\ grid[g].level[k].pos = grid[g].level[l].pos => k = l
    BY DEF GridInv, LevelsOK
  <2>2. \A h \in Grids, k \in LevelIds :
          grid[h].level[k].held => owner[grid[h].level[k].pos] = h
    BY DEF GridInv, LevelsOK
  <2>3. \/ grid[g].level[l].pos \in lost
        \/ /\ IsOpen(grid[g].level[l].pos)
           /\ positions[grid[g].level[l].pos].qty = grid[g].level[l].qty
    BY DEF GridInv, BackingInv
  <2> QED  BY <2>1, <2>2, <2>3 DEF Backed
<1> QED  BY <1>1, GridInvariant, PTL

\* No open position of a grid is forgotten, unless a handler wiped the level
\* that held it or cut off the runner that bought it.
THEOREM NothingIsForgotten == GridSpec => []NoForgottenPosition
<1>1. GridInv => NoForgottenPosition
  BY DEF GridInv
<1> QED  BY <1>1, GridInvariant, PTL

\* Every buy of a grid is accounted for: sold, still held, or written off.
THEOREM EveryBuyIsCounted == GridSpec => []CountersMatchLevels
<1>1. GridInv => CountersMatchLevels
  BY DEF GridInv, CountersOK, CountersMatchLevels, HeldLevels, HeldIn
<1> QED  BY <1>1, GridInvariant, PTL

\* The cash covers all reservations, through trades and restarts.
THEOREM ReservationsAreBacked == GridSpec => []ReservationsFunded
<1>1. GridInv => ReservationsFunded
  BY DEF GridInv
<1> QED  BY <1>1, GridInvariant, PTL

\* The grids report what their positions earned, resets included.
THEOREM GridsReportTheirProfit == GridSpec => []ProfitIsReported
<1>1. GridInv => ProfitIsReported
  BY DEF GridInv
<1> QED  BY <1>1, GridInvariant, PTL
=============================================================================
