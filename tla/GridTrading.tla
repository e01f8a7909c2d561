----------------------------- MODULE GridTrading -----------------------------
(***************************************************************************)
(* bot/grid_legacy.py: GridRunner (one spot grid) and GridManager (all of  *)
(* them), trading on the paper account of PaperBroker.                     *)
(*                                                                         *)
(* The manager's price thread ticks the running grids one after the other  *)
(* and every grid level by level; the HTTP handlers that start, stop,      *)
(* update, reset and delete a grid run in other threads, between any two   *)
(* of its steps, and so do the engine's own trades.  grids.json is written *)
(* by the handlers and at the end of a cycle that changed something; the   *)
(* paper balance is written by the engine at the end of its tick.  A       *)
(* restart finds these two and nothing else.                               *)
(*                                                                         *)
(* A grid is known by the key it reserves capital under.  Spot grids only  *)
(* have a long leg.  The levels are those of one ladder, the allocation is *)
(* even, and the spillover tolerance is left out: a level is only bought   *)
(* at or below its price and only sold at or above its target, where the   *)
(* tolerance test (_fill_ok) always passes.                                *)
(***************************************************************************)
EXTENDS PaperBroker, FiniteSets, Sequences

CONSTANTS
    NLevels,          \* grid_count
    Levels,           \* [1..NLevels -> price], increasing: build_levels
    TotalQuote,       \* total_quote, in units of the quote currency
    Reinvest,         \* profit_reinvest: "none", "per_grid" or "all_grids"
    ActivationPrice,  \* 0: activation_mode "now"
    TrailingUp,       \* trailing_up
    Autofix,          \* ai_autofix
    MissedCap,        \* missed entries kept in memory (100)
    SavedMissedCap,   \* missed entries kept in grids.json (50)
    OtherQtys,        \* what the engine's own strategies buy ({}: they are idle)
    MaxShift,         \* bound on the roll-ups of a grid
    MaxRestarts,      \* bound on the restarts of a behaviour
    MaxCommands       \* bound on the user commands of a behaviour

ASSUME LadderAssumption ==
    /\ NLevels \in Nat \ {0, 1}
    /\ Levels \in [1..NLevels -> Nat \ {0}]
    /\ \A l \in 1..(NLevels - 1) : Levels[l] < Levels[l + 1]
ASSUME ProfileAssumption ==
    /\ TotalQuote \in Nat \ {0}
    /\ Reinvest \in {"none", "per_grid", "all_grids"}
    /\ ActivationPrice \in Nat
    /\ TrailingUp \in BOOLEAN /\ Autofix \in BOOLEAN
    /\ MissedCap \in Nat \ {0} /\ SavedMissedCap \in Nat \ {0}
    /\ OtherQtys \subseteq Nat \ {0}
    /\ MaxShift \in Nat /\ MaxRestarts \in Nat /\ MaxCommands \in Nat

VARIABLES
    grid,       \* the GridRunners
    thread,     \* the price thread
    saved,      \* grids.json
    savedCash,  \* the paper balance in the kv table
    owner,      \* history: the grid a position was opened for, 0: the engine
    dropped,    \* history: positions a handler made their grid forget, or
                \* that a runner bought after a handler had replaced its lists
    lost,       \* history: positions of earlier processes
    restarts,   \* number of restarts
    commands    \* number of user commands

gridVars == <<grid, thread, saved, savedCash, owner, dropped, lost, restarts, commands>>
tradingVars == <<brokerVars, gridVars>>

Grids == Keys
LevelIds == 1..NLevels
Allocated == TotalQuote * Scale

Level == [held : BOOLEAN, pos : PosIds \cup {0}, qty : Nat, target : Nat]
IdleLevel == [held |-> FALSE, pos |-> 0, qty |-> 0, target |-> 0]
IdleLevels == [l \in LevelIds |-> IdleLevel]

\* The last three fields are history: held levels that went idle without a
\* sale, profit cleared by resets, and whether a tick outlived an update.
NewGrid == [exists |-> TRUE, running |-> FALSE, activated |-> ActivationPrice = 0,
            shift |-> 0, level |-> IdleLevels,
            cum |-> 0, pair |-> [l \in LevelIds |-> 0],
            fills |-> 0, buys |-> 0, sells |-> 0, missed |-> <<>>,
            gone |-> 0, past |-> 0, torn |-> FALSE]

NoTick == [pc |-> "idle", lock |-> {}, pending |-> {}, at |-> 0, px |-> 0, next |-> 0,
           view |-> IdleLevels, queue |-> <<>>, kept |-> <<>>, grew |-> FALSE,
           legChanged |-> FALSE, changed |-> FALSE, detached |-> {},
           orphan |-> FALSE, own |-> IdleLevels]

\* The last n entries of a list: list[-n:].
LastOf(s, n) == IF Len(s) <= n THEN s ELSE SubSeq(s, Len(s) - n + 1, Len(s))

\* Bound: a tick starts only when it cannot run out of position ids.
FreshIds == {i \in PosIds : positions[i].state = "none"}
IdsLeft == Cardinality(FreshIds) >= NLevels * NKeys

Backed(lv) == lv.pos \in PosIds /\ IsOpen(lv.pos)

-----------------------------------------------------------------------------
(* Levels and sizing *)

Span == Levels[NLevels] - Levels[1]

LevelPrice(g, l) == Levels[l] + grid[g].shift * Span

\* A level sells at the price of the level above; the top one at its own.
Target(g, l) == LevelPrice(g, IF l < NLevels THEN l + 1 ELSE l)

Clamp(v, lo, hi) == IF v < lo THEN lo ELSE IF v > hi THEN hi ELSE v

BaseValue == TotalQuote \div NLevels

\* _order_value: the base value, grown by the profits that are reinvested.
OrderValue(g, l) ==
    CASE Reinvest = "none" -> BaseValue
      [] Reinvest = "per_grid" ->
           Clamp(BaseValue + (grid[g].pair[l] \div Scale), BaseValue \div 2, 4 * BaseValue)
      [] Reinvest = "all_grids" ->
           LET gain == IF grid[g].cum > 0 THEN grid[g].cum ELSE 0
           IN  Clamp((BaseValue * (Allocated + gain)) \div Allocated, BaseValue \div 2, 4 * BaseValue)

QtyFor(g, l, px) == OrderValue(g, l) \div px

-----------------------------------------------------------------------------
(* Persistence *)

Persisted(r) == [r EXCEPT !.missed = LastOf(r.missed, SavedMissedCap)]

\* save() after an in-memory change of the grids to `new`.
SaveAs(new) ==
    /\ grid' = new
    /\ saved' = [g \in Grids |-> Persisted(new[g])]

\* The engine's tick ends by writing the paper cash to the kv table.
PersistBalance ==
    /\ savedCash' = cash
    /\ UNCHANGED <<brokerVars, grid, thread, saved, owner, dropped, lost, restarts, commands>>

-----------------------------------------------------------------------------
(* Capital reservation: _broker_reserve *)

CanLock(g) == reserved[g] >= Allocated \/ Allocated <= cash - (ReservedTotal - reserved[g])

\* The reservations once g has tried to lock its allocation.
Locked(g) ==
    [reserved EXCEPT ![g] = IF reserved[g] >= Allocated THEN @
                            ELSE IF CanLock(g) THEN Allocated ELSE 0]

-----------------------------------------------------------------------------
(* HTTP handlers *)

Start(g) ==
    /\ grid[g].exists
    /\ CanLock(g)
    /\ reserved' = Locked(g)
    /\ SaveAs([grid EXCEPT ![g].running = TRUE,
                           ![g].activated = (ActivationPrice = 0) \/ @])
    /\ UNCHANGED <<cash, startingCapital, positions, price, funding, entryFees, thread,
                   savedCash, owner, dropped, lost, restarts>>

\* start() refused: the free capital is short; an outdated reservation of
\* another amount would be gone.
StartRefused(g) ==
    /\ grid[g].exists
    /\ ~CanLock(g)
    /\ reserved' = Locked(g)
    /\ UNCHANGED <<cash, startingCapital, positions, price, funding, entryFees, grid, thread,
                   saved, savedCash, owner, dropped, lost, restarts>>

Stop(g) ==
    /\ grid[g].exists
    /\ Release(g)
    /\ SaveAs([grid EXCEPT ![g].running = FALSE])
    /\ UNCHANGED <<thread, savedCash, owner, dropped, lost, restarts>>

HeldLevels(g) == {l \in LevelIds : grid[g].level[l].held}
PositionsHeld(g) == {grid[g].level[l].pos : l \in HeldLevels(g)}

\* update(): a new runner is built from the old one's saved state.  The two
\* share the level lists, also the idle ones that take their place when the
\* number of levels changed (`rebuilt`), but not the counters: a tick that is
\* still running on the old runner counts for nobody.
Update(g, rebuilt) ==
    /\ grid[g].exists /\ ~grid[g].running
    /\ SaveAs([grid EXCEPT ![g].activated = FALSE,
                           ![g].missed = LastOf(@, SavedMissedCap),
                           ![g].level = IF rebuilt THEN IdleLevels ELSE @,
                           ![g].gone = IF rebuilt THEN @ + Cardinality(HeldLevels(g)) ELSE @])
    /\ thread' = [thread EXCEPT !.detached = IF g \in thread.pending THEN @ \cup {g} ELSE @]
    /\ dropped' = IF rebuilt THEN dropped \cup PositionsHeld(g) ELSE dropped
    /\ UNCHANGED <<brokerVars, savedCash, owner, lost, restarts>>

Delete(g) ==
    /\ grid[g].exists /\ ~grid[g].running
    /\ Release(g)
    /\ SaveAs([grid EXCEPT ![g].exists = FALSE])
    /\ dropped' = dropped \cup PositionsHeld(g)
    /\ UNCHANGED <<thread, savedCash, owner, lost, restarts>>

\* reset_state(): the runner gets new level lists.  If an update() came
\* between, that is not the runner being ticked, which keeps the old lists
\* for itself from here on.
ResetState(g) ==
    /\ grid[g].exists /\ ~grid[g].running
    /\ SaveAs([grid EXCEPT ![g].level = IdleLevels, ![g].cum = 0,
                           ![g].pair = [l \in LevelIds |-> 0], ![g].fills = 0,
                           ![g].missed = <<>>, ![g].activated = ActivationPrice = 0,
                           ![g].gone = @ + Cardinality(HeldLevels(g)),
                           ![g].past = @ + grid[g].cum])
    /\ thread' = IF g = thread.at /\ g \in thread.detached /\ ~thread.orphan
                 THEN [thread EXCEPT !.orphan = TRUE, !.own = grid[g].level]
                 ELSE thread
    /\ dropped' = dropped \cup PositionsHeld(g)
    /\ UNCHANGED <<brokerVars, savedCash, owner, lost, restarts>>

UserAction ==
  /\ commands < MaxCommands
  /\ commands' = commands + 1
  /\ \E g \in Grids :
        \/ Start(g) \/ StartRefused(g) \/ Stop(g)
        \/ Delete(g) \/ ResetState(g)
        \/ \E rebuilt \in BOOLEAN : Update(g, rebuilt)

-----------------------------------------------------------------------------
(* The price thread: _tick_all *)

\* What the runner being ticked becomes.  After an update() it is no longer
\* the manager's runner: only its level lists are still shared, and not even
\* these after a reset.
Write(g, r) ==
    grid' = [grid EXCEPT ![g] =
               IF g \notin thread.detached THEN r
               ELSE [grid[g] EXCEPT !.level = IF thread.orphan THEN grid[g].level ELSE r.level,
                                    !.torn = TRUE]]

\* A level in the lists of the runner being ticked.
OwnLevel(g, l) == IF thread.orphan THEN thread.own[l] ELSE grid[g].level[l]

ThreadOnly == UNCHANGED <<brokerVars, grid, saved, savedCash, owner, dropped, lost, restarts, commands>>

\* The running grids are listed once, at the start of the cycle.
BeginCycle ==
    LET running == {g \in Grids : grid[g].exists /\ grid[g].running}
    IN  /\ thread.pc = "idle"
        /\ running # {}
        /\ IdsLeft
        /\ thread' = [NoTick EXCEPT !.pc = "lock", !.lock = running, !.pending = running]
        /\ ThreadOnly

\* Every listed grid's capital is locked again: the broker may be a new one.
Relock(g) ==
    /\ thread.pc = "lock" /\ g \in thread.lock
    /\ reserved' = Locked(g)
    /\ thread' = [thread EXCEPT !.lock = @ \ {g}]
    /\ UNCHANGED <<cash, startingCapital, positions, price, funding, entryFees,
                   grid, saved, savedCash, owner, dropped, lost, restarts, commands>>

\* One price per symbol serves the whole cycle.
FetchPrices ==
    /\ thread.pc = "lock" /\ thread.lock = {}
    /\ thread' = [thread EXCEPT !.pc = "grids", !.px = price]
    /\ ThreadOnly

\* GridRunner.tick up to the levels: the grid may have been stopped since it
\* was listed, or may still wait for its activation price.
EnterGrid(g) ==
    LET live   == grid[g].running /\ g \notin thread.detached
        active == grid[g].activated \/ thread.px <= ActivationPrice
    IN  /\ thread.pc = "grids" /\ g \in thread.pending
        /\ IF live /\ active
           THEN /\ grid' = [grid EXCEPT ![g].activated = TRUE]
                /\ thread' = [thread EXCEPT !.pc = "levels", !.at = g, !.next = NLevels,
                                            !.view = grid[g].level, !.legChanged = FALSE]
           ELSE /\ thread' = [thread EXCEPT !.pending = @ \ {g}]
                /\ UNCHANGED grid
        /\ UNCHANGED <<brokerVars, saved, savedCash, owner, dropped, lost, restarts, commands>>

\* The level being visited, highest first, in the list read at the start.
Visiting(l) == thread.pc = "levels" /\ thread.next = l
Moved(did) == thread' = [thread EXCEPT !.next = @ - 1, !.legChanged = @ \/ did]

Wanted(g, l) == ~thread.view[l].held /\ thread.px <= LevelPrice(g, l) /\ QtyFor(g, l, thread.px) > 0
\* Seeded fault: the target itself does not count as reached.
DueAboveTarget(l) == thread.view[l].held /\ thread.px > thread.view[l].target

Due(l) == thread.view[l].held /\ thread.px >= thread.view[l].target

\* _do_buy, filled: the level holds the new position.
Bought(g, l, i) ==
    [grid[g] EXCEPT !.level[l] = [held |-> TRUE, pos |-> i, qty |-> positions'[i].qty,
                                  target |-> Target(g, l)],
                    !.buys = @ + 1]

BuyOn(g, l) ==
    \E i \in PosIds, slip \in BuySlips :
        /\ OpenLong(i, QtyFor(g, l, thread.px), thread.px, slip)
        /\ Write(g, Bought(g, l, i))
        /\ owner' = [owner EXCEPT ![i] = g]
        /\ dropped' = IF thread.orphan THEN dropped \cup {i} ELSE dropped
        /\ UNCHANGED <<saved, savedCash, lost, restarts, commands>>

Refusal(g, l) ==
    \E slip \in BuySlips : OpenLongRejected(QtyFor(g, l, thread.px), thread.px, slip)

VisitBuy(g, l) ==
    /\ Visiting(l) /\ g = thread.at /\ Wanted(g, l)
    /\ BuyOn(g, l)
    /\ Moved(TRUE)

\* The broker refuses: the level stays idle and the buy is queued as missed.
VisitMiss(g, l) ==
    /\ Visiting(l) /\ g = thread.at /\ Wanted(g, l)
    /\ Refusal(g, l)
    /\ Write(g, [grid[g] EXCEPT !.missed = LastOf(Append(@, l), MissedCap)])
    /\ Moved(FALSE)
    /\ UNCHANGED <<brokerVars, saved, savedCash, owner, dropped, lost, restarts, commands>>

\* Seeded fault: the level is not released after its sale.
SoldStillHeld(g, l, pnl) ==
    [grid[g] EXCEPT !.cum = @ + pnl, !.fills = @ + 1, !.sells = @ + 1]

\* Seeded fault: the sale is not counted.
SoldUncounted(g, l, pnl) ==
    [grid[g] EXCEPT !.level[l] = IdleLevel, !.cum = @ + pnl, !.fills = @ + 1]

\* Seeded fault: only gains go into the cumulative profit.
SoldGainsOnly(g, l, pnl) ==
    [grid[g] EXCEPT !.level[l] = IdleLevel, !.cum = @ + (IF pnl > 0 THEN pnl ELSE 0),
                    !.fills = @ + 1, !.sells = @ + 1]

\* _do_sell, filled: the level is idle again and the pair's profit counted.
Sold(g, l, pnl) ==
    [grid[g] EXCEPT !.level[l] = IdleLevel,
                    !.cum = @ + pnl,
                    !.pair[l] = @ + (IF pnl > 0 THEN pnl ELSE 0),
                    !.fills = @ + 1, !.sells = @ + 1]

VisitSell(g, l) ==
    LET lv == OwnLevel(g, l)
        q  == IF lv.qty < positions[lv.pos].qty THEN lv.qty ELSE positions[lv.pos].qty
    IN  /\ Visiting(l) /\ g = thread.at /\ Due(l)
        /\ Backed(lv)
        /\ CloseLong(lv.pos, q, thread.px)
        /\ Write(g, Sold(g, l, ClosePnl(lv.pos, q, thread.px)))
        /\ Moved(TRUE)
        /\ UNCHANGED <<saved, savedCash, owner, dropped, lost, restarts, commands>>

\* The position vanished: the level is reset, nothing is counted.
VisitReconcile(g, l) ==
    /\ Visiting(l) /\ g = thread.at /\ Due(l)
    /\ ~Backed(OwnLevel(g, l))
    /\ Write(g, [grid[g] EXCEPT !.level[l] = IdleLevel,
                                !.gone = IF grid[g].level[l].held THEN @ + 1 ELSE @])
    /\ Moved(TRUE)
    /\ UNCHANGED <<brokerVars, saved, savedCash, owner, dropped, lost, restarts, commands>>

VisitNothing(g, l) ==
    /\ Visiting(l) /\ g = thread.at /\ ~Wanted(g, l) /\ ~Due(l)
    /\ Moved(FALSE)
    /\ ThreadOnly

\* The grid is done for this cycle.
LeaveGrid(did) ==
    thread' = [thread EXCEPT !.pc = "grids", !.pending = @ \ {thread.at}, !.at = 0,
                             !.view = IdleLevels, !.next = 0, !.queue = <<>>, !.kept = <<>>,
                             !.grew = FALSE, !.legChanged = FALSE, !.changed = @ \/ did,
                             !.orphan = FALSE, !.own = IdleLevels]

\* _maybe_trail: the range rolls up by its span, held targets move with it.
RolledUp(g) ==
    LET r == [grid[g] EXCEPT !.shift = @ + 1]
    IN  [r EXCEPT !.level = [l \in LevelIds |->
            IF r.level[l].held
            THEN [r.level[l] EXCEPT !.target = Target(g, l) + Span]
            ELSE r.level[l]]]

AfterLevels(g) ==
    LET rolls == TrailingUp /\ thread.px > LevelPrice(g, NLevels)
        did   == thread.legChanged \/ rolls
        retry == Autofix /\ g \notin thread.detached /\ grid[g].missed # <<>>
    IN  /\ thread.pc = "levels" /\ thread.next = 0 /\ g = thread.at
        /\ rolls => grid[g].shift < MaxShift
        /\ IF rolls THEN Write(g, RolledUp(g)) ELSE UNCHANGED grid
        /\ IF retry
           THEN thread' = [thread EXCEPT !.pc = "retry", !.queue = grid[g].missed,
                                         !.legChanged = did]
           ELSE LeaveGrid(did)
        /\ UNCHANGED <<brokerVars, saved, savedCash, owner, dropped, lost, restarts, commands>>

(* _retry_missed, one queued entry per step.  The first entry that fails     *)
(* again is appended to the very list the loop walks.                        *)

RetryLive(g) == grid[g].running /\ g \notin thread.detached

\* Seeded fault: a retry does not look whether the level was filled meanwhile.
RetryOpenUnchecked(g, l) == RetryLive(g)

RetryOpen(g, l) == RetryLive(g) /\ ~grid[g].level[l].held
RetryWanted(g, l) == thread.px <= LevelPrice(g, l) /\ QtyFor(g, l, thread.px) > 0

Retrying(g, l) ==
    thread.pc = "retry" /\ g = thread.at /\ thread.queue # <<>> /\ l = Head(thread.queue)

RetryDrop(g, l) ==
    /\ Retrying(g, l) /\ ~RetryOpen(g, l)
    /\ thread' = [thread EXCEPT !.queue = Tail(@)]
    /\ ThreadOnly

RetryKeep(g, l) ==
    /\ Retrying(g, l) /\ RetryOpen(g, l) /\ ~RetryWanted(g, l)
    /\ thread' = [thread EXCEPT !.queue = Tail(@), !.kept = Append(@, l)]
    /\ ThreadOnly

RetryBuy(g, l) ==
    /\ Retrying(g, l) /\ RetryOpen(g, l) /\ RetryWanted(g, l)
    /\ BuyOn(g, l)
    /\ thread' = [thread EXCEPT !.queue = Tail(@), !.legChanged = TRUE]

RetryFail(g, l) ==
    /\ Retrying(g, l) /\ RetryOpen(g, l) /\ RetryWanted(g, l)
    /\ Refusal(g, l)
    /\ thread' = [thread EXCEPT !.queue = IF thread.grew THEN Tail(@) ELSE Append(Tail(@), l),
                                !.grew = TRUE, !.kept = Append(@, l)]
    /\ ThreadOnly

RetryDone(g) ==
    /\ thread.pc = "retry" /\ thread.queue = <<>> /\ g = thread.at
    /\ Write(g, [grid[g] EXCEPT !.missed = LastOf(thread.kept, MissedCap)])
    /\ LeaveGrid(thread.legChanged)
    /\ UNCHANGED <<brokerVars, saved, savedCash, owner, dropped, lost, restarts, commands>>

EndCycle ==
    /\ thread.pc = "grids" /\ thread.pending = {}
    /\ IF thread.changed THEN SaveAs(grid) ELSE UNCHANGED <<grid, saved>>
    /\ thread' = NoTick
    /\ UNCHANGED <<brokerVars, savedCash, owner, dropped, lost, restarts, commands>>

Visit == \E g \in Grids, l \in LevelIds :
    VisitBuy(g, l) \/ VisitMiss(g, l) \/ VisitSell(g, l) \/ VisitReconcile(g, l) \/ VisitNothing(g, l)
Retry == \E g \in Grids, l \in LevelIds :
    RetryDrop(g, l) \/ RetryKeep(g, l) \/ RetryBuy(g, l) \/ RetryFail(g, l)

ThreadStep ==
    \/ BeginCycle \/ FetchPrices \/ EndCycle
    \/ \E g \in Grids : Relock(g) \/ EnterGrid(g) \/ AfterLevels(g) \/ RetryDone(g)
    \/ Visit \/ Retry

-----------------------------------------------------------------------------
(* The rest of the process *)

\* The engine's own strategies trade on the same account.
OtherTrade ==
    /\ \/ /\ Cardinality(FreshIds) > NLevels * NKeys     \* bound, see IdsLeft
          /\ \E i \in PosIds, qty \in OtherQtys, slip \in BuySlips : OpenLong(i, qty, price, slip)
       \/ \E i \in PosIds : owner[i] = 0 /\ CloseLong(i, positions[i].qty, price)
    /\ UNCHANGED gridVars

MarketMoves ==
    /\ \E p \in Prices : SetPrice(p)
    /\ UNCHANGED gridVars

\* Seeded fault: a resumed grid gets its reservation whatever the cash.
ResumedUnchecked ==
    [g \in Grids |-> IF saved[g].exists /\ saved[g].running THEN Allocated ELSE 0]

\* resume_all(): the grids that were running lock their capital one by one;
\* one that cannot is resumed all the same.
Resumed ==
    LET wants(g) == saved[g].exists /\ saved[g].running
    IN  CHOOSE locked \in [Grids -> {0, Allocated}] :
            \A g \in Grids :
                locked[g] = IF wants(g) /\ Allocated <= savedCash - SumTo(locked, g - 1)
                            THEN Allocated ELSE 0

\* The process dies and boots again: a new PaperBroker with the saved cash
\* and no position, the grids of grids.json, the running ones resumed.  The
\* books start anew; used position ids stay used.
Restart ==
    /\ restarts < MaxRestarts
    /\ restarts' = restarts + 1
    /\ cash' = savedCash
    /\ startingCapital' = savedCash
    /\ funding' = savedCash
    /\ entryFees' = 0
    /\ positions' = [i \in PosIds |->
           IF positions[i].state = "none" THEN NoPosition ELSE [NoPosition EXCEPT !.state = "closed"]]
    /\ lost' = PosIds \ FreshIds
    /\ reserved' = Resumed
    /\ grid' = saved
    /\ thread' = NoTick
    /\ UNCHANGED <<price, saved, savedCash, owner, dropped, commands>>

-----------------------------------------------------------------------------
GridInit ==
    /\ BrokerInit
    /\ grid = [g \in Grids |-> NewGrid]
    /\ thread = NoTick
    /\ saved = grid
    /\ savedCash = Capital
    /\ owner = [i \in PosIds |-> 0]
    /\ dropped = {}
    /\ lost = {}
    /\ restarts = 0
    /\ commands = 0

GridNext == ThreadStep \/ UserAction \/ OtherTrade \/ MarketMoves \/ PersistBalance \/ Restart

GridSpec == GridInit /\ [][GridNext]_tradingVars

\* The price thread is a daemon thread that loops for ever.
FairGridSpec == GridSpec /\ WF_tradingVars(ThreadStep)

-----------------------------------------------------------------------------
(* Properties *)

GridType ==
    [exists : BOOLEAN, running : BOOLEAN, activated : BOOLEAN, shift : 0..MaxShift,
     level : [LevelIds -> Level], cum : Int, pair : [LevelIds -> Nat],
     fills : Nat, buys : Nat, sells : Nat, missed : Seq(LevelIds),
     gone : Nat, past : Int, torn : BOOLEAN]

\* Types; the missed queues never outgrow their caps.
GridTypeOK ==
    /\ TypeOK
    /\ \A g \in Grids :
         /\ grid[g] \in GridType /\ Len(grid[g].missed) <= MissedCap
         /\ saved[g] \in GridType /\ Len(saved[g].missed) <= SavedMissedCap
    /\ savedCash \in Nat
    /\ owner \in [PosIds -> Grids \cup {0}]

\* A held level has what it is going to sell: its position is open with the
\* quantity the level remembers (open_long may have shrunk the order),
\* unless the position belonged to an earlier process.  No other level is
\* going to sell it as well, whatever the retries, resets and restarts.
HeldLevelsBacked ==
    \A g \in Grids : \A l \in HeldLevels(g) :
        LET lv == grid[g].level[l]
        IN  /\ lv.pos \in lost \/ (Backed(lv) /\ positions[lv.pos].qty = lv.qty)
            /\ \A h \in Grids : \A k \in HeldLevels(h) :
                   grid[h].level[k].pos = lv.pos => h = g /\ k = l

\* No position of a grid is forgotten: while its grid exists, every open
\* position is held by a level, unless a user's reset, update or deletion
\* wiped the level that held it, or cut the runner that bought it off.
NoForgottenPosition ==
    \A i \in PosIds \ dropped :
        IsOpen(i) /\ owner[i] # 0 /\ grid[owner[i]].exists
        => \E l \in HeldLevels(owner[i]) : grid[owner[i]].level[l].pos = i

\* The statistics of a grid agree with its levels, also after a restart from
\* grids.json: every buy is a sale, a level still held, or one written off.
CountersMatchLevels ==
    \A g \in Grids :
        ~grid[g].torn =>
            grid[g].buys = grid[g].sells + Cardinality(HeldLevels(g)) + grid[g].gone

\* Until a restart, the grids report exactly the results their closed
\* positions had, resets included.
ProfitIsReported ==
    restarts = 0 /\ (\A g \in Grids : ~grid[g].torn)
    => SumTo([g \in Grids |-> grid[g].cum + grid[g].past], NKeys)
       = SumTo([i \in PosIds |-> IF owner[i] # 0 THEN positions[i].pnl ELSE 0], NPos)

\* All reservations together are backed by cash, also after a restart that
\* locks the capital of the resumed grids again.
ReservationsFunded == ReservedTotal <= cash

\* A level whose target the price has reached does not stay held for ever:
\* it is sold or written off, unless the price falls back, the grid stops or
\* waits for its activation price, as it does again after an update, or the
\* bound on position ids is reached.
DueLevelsAreSold ==
    \A g \in Grids, l \in LevelIds :
        LET due == /\ grid[g].running /\ grid[g].activated
                   /\ grid[g].level[l].held /\ price >= grid[g].level[l].target
        IN  due ~> (~due \/ ~IdsLeft)

(* What the documentation says of the program *)

\* README.md:470 "Capital a running grid locks on the broker [...]; released
\* on stop": between cycles, a grid that is not running locks nothing.
StoppedGridsLockNothing ==
    thread.pc = "idle" => \A g \in Grids : ~grid[g].running => reserved[g] = 0
=============================================================================
