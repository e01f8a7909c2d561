---------------------------- MODULE SharedAccount ----------------------------
(***************************************************************************)
(* Who spends from the paper account at the same time: the engine's ticks  *)
(* (bot/engine.py, the threads of EngineLoop), the grids' price thread     *)
(* (bot/grid_legacy.py) and HTTP handlers that place an order or start a   *)
(* grid.  The account itself has no lock: open_long reads the free balance *)
(* and takes the money later, reserve looks whether capital is free and    *)
(* books it later.  PaperBroker takes each of them as one step; here they  *)
(* are two.                                                                *)
(*                                                                         *)
(* The engine's lifecycle is EngineLoop's; a crash is left out, since it   *)
(* ends every race there is.                                               *)
(***************************************************************************)
EXTENDS EngineLoop, Integers, FiniteSets, Functions

CONSTANTS
    Clients,      \* HTTP threads that place orders and start grids
    GridThreads,  \* the grids' price thread, or nobody
    Grids,
    Capital,      \* the account's cash
    Allocation,   \* total_quote of a grid
    Costs         \* what an order costs, fee included

ASSUME AccountAssumption ==
    /\ Capital \in Nat /\ Allocation \in Nat \ {0} /\ Costs \subseteq Nat \ {0}
    /\ (Clients \cup GridThreads) \cap (Actors \cup {None}) = {}

ASSUME FiniteAssumption == IsFiniteSet(Clients \cup GridThreads) /\ IsFiniteSet(Grids)

VARIABLES
    cash,         \* broker.cash
    reserved,     \* broker._reserved
    gridRunning,  \* the grids that run
    stage,        \* where a thread is in open_long or reserve
    free,         \* the free balance it read
    target,       \* the grid it reserves for
    cycle         \* the running grids a price thread lists, {} outside a cycle

accountVars == <<cash, reserved, gridRunning, stage, free, target, cycle>>
vars == <<loopVars, accountVars>>

Spenders == Actors \cup Clients \cup GridThreads

ReservedTotal == SumFunction(reserved)
Available == IF cash > ReservedTotal THEN cash - ReservedTotal ELSE 0

InCycle(b) == cycle[b] # {}

\* Who may be inside open_long: a thread in an engine tick, the price thread
\* in a cycle, an HTTP handler at any time.
MayBuy(b) ==
    \/ b \in Actors /\ Ticking(b)
    \/ b \in GridThreads /\ InCycle(b)
    \/ b \in Clients

-----------------------------------------------------------------------------
(* BaseBroker.available and PaperBroker.open_long *)

SizeOrder(b) ==
    /\ stage[b] = "none" /\ MayBuy(b)
    /\ stage' = [stage EXCEPT ![b] = "sized"]
    /\ free' = [free EXCEPT ![b] = Available]
    /\ UNCHANGED <<loopVars, cash, reserved, gridRunning, target, cycle>>

\* The order costs at most the free balance that was read: it is shrunk to
\* it, and refused when nothing is left.
PayOrder(b) ==
    /\ stage[b] = "sized"
    /\ \/ \E cost \in Costs : cost <= free[b] /\ cash' = cash - cost
       \/ cash' = cash
    /\ stage' = [stage EXCEPT ![b] = "none"]
    /\ free' = [free EXCEPT ![b] = 0]
    /\ UNCHANGED <<loopVars, reserved, gridRunning, target, cycle>>

-----------------------------------------------------------------------------
(* GridManager._broker_reserve: does nothing for a grid that is locked *)

LockNeeded(g) == reserved[g] < Allocation

ReserveLooks(b, g) ==
    /\ stage[b] = "none"
    /\ LockNeeded(g)
    /\ Allocation <= cash - ReservedTotal
    /\ stage' = [stage EXCEPT ![b] = "reserving"]
    /\ target' = [target EXCEPT ![b] = g]
    /\ UNCHANGED <<loopVars, cash, reserved, gridRunning, free, cycle>>

\* reserve() adds to what is booked by then; a start() goes on to run the grid.
ReserveBooks(b) ==
    /\ stage[b] = "reserving"
    /\ reserved' = [reserved EXCEPT ![target[b]] = @ + Allocation]
    /\ gridRunning' = IF b \in Clients THEN gridRunning \cup {target[b]} ELSE gridRunning
    /\ stage' = [stage EXCEPT ![b] = "none"]
    /\ target' = [target EXCEPT ![b] = None]
    /\ UNCHANGED <<loopVars, cash, free, cycle>>

\* start() of a grid that is locked already.
StartLocked(g) ==
    /\ ~LockNeeded(g)
    /\ gridRunning' = gridRunning \cup {g}
    /\ UNCHANGED <<loopVars, cash, reserved, stage, free, target, cycle>>

StopGrid(g) ==
    /\ g \in gridRunning
    /\ gridRunning' = gridRunning \ {g}
    /\ reserved' = [reserved EXCEPT ![g] = 0]
    /\ UNCHANGED <<loopVars, cash, stage, free, target, cycle>>

-----------------------------------------------------------------------------
(* The price thread: _tick_all looks at the tick lock once and never takes it *)

CycleBegins(b) ==
    /\ ~InCycle(b) /\ gridRunning # {}
    /\ lock = None
    /\ cycle' = [cycle EXCEPT ![b] = gridRunning]
    /\ UNCHANGED <<loopVars, cash, reserved, gridRunning, stage, free, target>>

CycleRelocks(b) == \E g \in cycle[b] : ReserveLooks(b, g)

CycleEnds(b) ==
    /\ InCycle(b) /\ stage[b] = "none"
    /\ cycle' = [cycle EXCEPT ![b] = {}]
    /\ UNCHANGED <<loopVars, cash, reserved, gridRunning, stage, free, target>>

-----------------------------------------------------------------------------
\* A step of EngineLoop; a tick ends outside open_long.
EngineStep ==
    /\ \/ \E t \in Workers : (worker[t] = "ticking" => stage[t] = "none") /\ WorkerStep(t)
       \/ \E h \in Handlers : (handler[h] = "ticking" => stage[h] = "none")
                              /\ (HandlerStep(h) \/ Request(h))
    /\ UNCHANGED accountVars

\* The grids of grids.json that run at boot have no lock yet.
AccountInit ==
    /\ Init
    /\ cash = Capital
    /\ reserved = [g \in Grids |-> 0]
    /\ gridRunning \in SUBSET Grids
    /\ stage = [b \in Spenders |-> "none"]
    /\ free = [b \in Spenders |-> 0]
    /\ target = [b \in Spenders |-> None]
    /\ cycle = [b \in GridThreads |-> {}]

AccountNext ==
    \/ EngineStep
    \/ \E b \in Spenders : SizeOrder(b) \/ PayOrder(b) \/ ReserveBooks(b)
    \/ \E b \in Clients, g \in Grids : ReserveLooks(b, g)
    \/ \E b \in GridThreads : CycleBegins(b) \/ CycleRelocks(b) \/ CycleEnds(b)
    \/ \E g \in Grids : StartLocked(g) \/ StopGrid(g)

AccountSpec == AccountInit /\ [][AccountNext]_vars

-----------------------------------------------------------------------------
(* Properties *)

\* Types; whoever has read the free balance may still buy.
AccountTypeOK ==
    /\ LoopTypeOK
    /\ cash \in Int
    /\ reserved \in [Grids -> Nat]
    /\ gridRunning \subseteq Grids
    /\ stage \in [Spenders -> {"none", "sized", "reserving"}]
    /\ free \in [Spenders -> Nat]
    /\ \A b \in Spenders : stage[b] = "sized" => MayBuy(b)
    /\ cycle \in [GridThreads -> SUBSET Grids]

\* Two spenders may spend the same money: the tick lock keeps the engine's own
\* threads apart (engine.py:1280 "must never interleave (double opens / cash
\* corruption)"), and nothing keeps the price thread and the HTTP handlers from
\* them.  However all of them race, an overdraft stays within what those others
\* can have read as free before it: nobody goes on spending from an empty
\* account, and the engine adds nothing to it.
OverdraftBounded == cash >= -Capital * Cardinality(Clients \cup GridThreads)
=============================================================================
