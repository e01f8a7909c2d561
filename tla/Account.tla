------------------------------- MODULE Account -------------------------------
(***************************************************************************)
(* What any trading account of the bot promises, whatever its bookkeeping: *)
(* money, units of the traded symbol and money held back.  BaseBroker      *)
(* (bot/broker.py:22-106) is the interface; strategies rely on exactly     *)
(* this.  Positions, fees, slippage and order rules are the business of    *)
(* the implementation, which may only make a trade worse, never better.    *)
(***************************************************************************)
EXTENDS Integers

CONSTANTS Prices,   \* market prices
          Scale     \* money units per unit of quote currency

VARIABLES cash,     \* money
          units,    \* units of the symbol owned
          held      \* money held back by reservations

vars == <<cash, units, held>>

\* What may be spent.
Free == IF cash > held THEN cash - held ELSE 0

Init == cash \in Nat /\ units = 0 /\ held = 0

\* Units are paid for, at no less than some market price, with free money.
Buy ==
    /\ units' > units
    /\ cash - cash' <= Free
    /\ \E at \in Prices : cash - cash' >= (units' - units) * at * Scale
    /\ UNCHANGED held

\* Units owned are sold: they bring in no more than some market price and
\* selling costs nothing beyond what it brings in.
Sell ==
    /\ units' \in 0..units
    /\ cash' >= cash
    /\ \E at \in Prices : cash' - cash <= (units - units') * at * Scale
    /\ UNCHANGED held

\* The owner pays in, or takes out, also what is held back.
Fund == cash' \in Nat /\ UNCHANGED <<units, held>>

\* Money is held back while it is free, and let go.
Hold == held' > held /\ held' <= cash /\ UNCHANGED <<cash, units>>
Let  == held' \in 0..held /\ UNCHANGED <<cash, units>>

Next == Buy \/ Sell \/ Fund \/ Hold \/ Let

Spec == Init /\ [][Next]_vars
=============================================================================
