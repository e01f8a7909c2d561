----------------------------- MODULE ModeSwitch -----------------------------
(***************************************************************************)
(* bot/server.py: switching between paper and real trading and between the *)
(* spot and the margin account, funding the paper account, the factory     *)
(* reset, the API key and the boot; with what the engine (bot/engine.py)   *)
(* and the manual orders do to the account they are given meanwhile.       *)
(*                                                                         *)
(* Every handler replaces engine.broker by a new object, forgets the       *)
(* engine's positions and sets the flags, in this order and without a      *)
(* lock, while the engine's tick goes on and reads engine.broker whenever  *)
(* it trades.  Money is counted in units: a position is bought for one.    *)
(* One quote currency; prices, fees, what the real account holds and what  *)
(* is left of the money of a broker that has been replaced are left out.   *)
(***************************************************************************)
EXTENDS Integers, Sequences, FiniteSetsExt

CONSTANTS
    Handlers,     \* HTTP threads
    BootKind,     \* the paper account that PAPER_MODE selects at boot
    Capital,      \* starting_capital of the configuration
    MaxCash,      \* bound on the cash and the capital of an account
    MaxAccounts,  \* bound on the brokers built since the boot
    MaxBoots      \* bound on the restarts

Kinds == {"spot", "margin"}

ASSUME ModeAssumption ==
    /\ BootKind \in Kinds
    /\ Capital \in Nat \ {0} /\ MaxCash \in Nat /\ Capital <= MaxCash
    /\ MaxAccounts \in Nat \ {0, 1} /\ MaxBoots \in Nat

VARIABLES
    accounts,     \* the broker objects built since the boot
    cash,         \* engine.broker.cash, 0 of a live one
    capital,      \* engine.broker.starting_capital, 0 of a live one
    broker,       \* engine.broker, by its place in accounts
    manual,       \* engine.manual.broker
    positions,    \* engine.positions, each by the broker that opened it
    opening,      \* the broker that has opened a position the tick has not kept yet
    enabled,      \* app.state.live_enabled
    mode,         \* app.state.trade_mode
    paperKind,    \* app.state.paper_kind
    lastMode,     \* "last_trade_mode" in the kv table
    saved,        \* "paper_balance_<kind>" in the kv table
    key,          \* whether there is an API key
    work,         \* what each HTTP thread is doing
    overlapped,   \* whether requests overlapped since the boot
    raced,        \* the positions kept after their broker was replaced
    lapsed,       \* whether the boot failed to restore the mode
    boots

moneyVars == <<cash, capital>>
engineVars == <<positions, opening, raced>>
flagVars == <<enabled, mode, paperKind>>
savedVars == <<lastMode, saved, key>>
vars == <<accounts, moneyVars, broker, manual, engineVars, flagVars, savedVars, work, overlapped, lapsed, boots>>

Unsaved == -1
NoBroker == 0
Idle == [op |-> "idle"]
Switching == \E h \in Handlers : work[h] # Idle

Account(live, kind) == [live |-> live, kind |-> kind]
Current == accounts[broker]

\* _paper_capital: what was saved, or the configured capital.  A saved zero
\* is a string and counts.
PaperCapital(k) == IF saved[k] = Unsaved THEN Capital ELSE saved[k]

-----------------------------------------------------------------------------
(* The engine, which does not look at the flags *)

\* Broker a pays or is paid; a live one does so on the exchange, and nobody
\* looks at what one that has been replaced has.
Moves(a, d) ==
    IF a # broker \/ Current.live THEN UNCHANGED cash
    ELSE cash' = cash + d /\ cash' \in 0..MaxCash

\* _try_enter opens a position through the broker of the moment ...
TickOpens ==
    /\ opening = NoBroker /\ broker \notin positions
    /\ Moves(broker, -1)
    /\ opening' = broker
    /\ UNCHANGED <<accounts, capital, broker, manual, positions, raced, flagVars, savedVars, work, overlapped, lapsed, boots>>

\* ... and keeps it when the broker has returned.
TickKeeps ==
    /\ opening # NoBroker
    /\ positions' = positions \cup {opening}
    /\ raced' = IF opening = broker THEN raced ELSE raced \cup {opening}
    /\ opening' = NoBroker
    /\ UNCHANGED <<accounts, moneyVars, broker, manual, flagVars, savedVars, work, overlapped, lapsed, boots>>

\* _manage_positions closes it through the broker of the moment, be it the one
\* that opened it or not, with a loss, nothing or a gain.
TickExits(p) ==
    /\ opening = NoBroker /\ p \in positions
    /\ \E v \in 0..2 : Moves(broker, v)
    /\ positions' = positions \ {p}
    /\ raced' = raced \ {p}
    /\ UNCHANGED <<accounts, capital, broker, manual, opening, flagVars, savedVars, work, overlapped, lapsed, boots>>

\* Seeded fault: whatever the broker is, its cash is saved as the paper cash.
SavedCashOfAny == [saved EXCEPT ![Current.kind] = cash]

\* Only a paper broker has a cash to save, under its own kind.
SavedCash == IF Current.live THEN saved ELSE [saved EXCEPT ![Current.kind] = cash]

\* _persist_balance_kv, at the end of a tick.
TickSaves ==
    /\ opening = NoBroker
    /\ saved' = SavedCash
    /\ UNCHANGED <<accounts, moneyVars, broker, manual, engineVars, flagVars, lastMode, key, work, overlapped, lapsed, boots>>

\* A manual order: placed in paper mode only, on the manager's own broker.
ManualTrade ==
    /\ ~enabled
    /\ \E d \in {-1, 1} : Moves(manual, d)
    /\ UNCHANGED <<accounts, capital, broker, manual, engineVars, flagVars, savedVars, work, overlapped, lapsed, boots>>

-----------------------------------------------------------------------------
(* The handlers *)

Starts(h) ==
    /\ work[h] = Idle
    /\ overlapped' = (overlapped \/ Switching)

\* engine.broker = the new broker, with that capital.
Swaps(h, w, live, amount) ==
    /\ Len(accounts) < MaxAccounts
    /\ accounts' = Append(accounts, Account(live, w.kind))
    /\ broker' = Len(accounts')
    /\ cash' = amount /\ capital' = amount
    /\ work' = [work EXCEPT ![h] = [w EXCEPT !.stage = "swapped", !.made = broker']]
    /\ UNCHANGED <<manual, engineVars, flagVars, lapsed, boots>>

Work(op, kind) == [op |-> op, kind |-> kind, stage |-> "asking", made |-> NoBroker, amount |-> 0]

\* _engage_live: there must be a key, which the exchange is asked about.
AsksForLive(h, m) ==
    /\ Starts(h) /\ key
    /\ work' = [work EXCEPT ![h] = Work("live", m)]
    /\ UNCHANGED <<accounts, moneyVars, broker, manual, engineVars, flagVars, savedVars, lapsed, boots>>

LiveRefused(h) ==
    /\ work[h] # Idle /\ work[h].stage = "asking"
    /\ work' = [work EXCEPT ![h] = Idle]
    /\ UNCHANGED <<accounts, moneyVars, broker, manual, engineVars, flagVars, savedVars, overlapped, lapsed, boots>>

LiveAccepted(h) ==
    /\ work[h] # Idle /\ work[h].stage = "asking"
    /\ Swaps(h, work[h], TRUE, 0)
    /\ UNCHANGED <<savedVars, overlapped>>

\* _engage_paper: back to the paper account, whatever the mode was.
EngagesPaper(h) ==
    /\ Starts(h)
    /\ Swaps(h, Work("paper", paperKind), FALSE, PaperCapital(paperKind))
    /\ UNCHANGED savedVars

\* set_paper_mode: the other paper account.
SetsKind(h, k) ==
    /\ Starts(h) /\ ~enabled /\ k # paperKind
    /\ Swaps(h, Work("kind", k), FALSE, PaperCapital(k))
    /\ UNCHANGED savedVars

\* set_paper_balance, "set": a fresh account with that balance.
SetsBalance(h, amount) ==
    /\ Starts(h) /\ ~enabled
    /\ Swaps(h, [Work("set", paperKind) EXCEPT !.amount = amount], FALSE, amount)
    /\ UNCHANGED savedVars

\* reset_all in paper mode: the settings are wiped and the key deleted, then
\* the spot account is built anew.
ResetsAll(h) ==
    /\ Starts(h) /\ ~enabled
    /\ Swaps(h, Work("reset", "spot"), FALSE, Capital)
    /\ saved' = [k \in Kinds |-> Unsaved]
    /\ lastMode' = "none" /\ key' = FALSE

\* Seeded fault: the positions are kept.
PositionsKept(w) == positions

\* What the handlers leave of the engine's positions.
PositionsAfter(w) == {}

\* engine.positions.clear(); the reset gives the manager its broker as well.
Clears(h) ==
    /\ work[h] # Idle /\ work[h].stage = "swapped"
    /\ positions' = PositionsAfter(work[h])
    /\ raced' = raced \cap positions'
    /\ manual' = IF work[h].op = "reset" THEN work[h].made ELSE manual
    /\ work' = [work EXCEPT ![h].stage = "cleared"]
    /\ UNCHANGED <<accounts, moneyVars, broker, opening, flagVars, savedVars, overlapped, lapsed, boots>>

\* Seeded fault: going back to paper leaves the checkpoint.
CheckpointOfLive(w) == IF w.op = "live" THEN w.kind ELSE lastMode

\* "last_trade_mode", written by the two handlers that change the mode.
Checkpoint(w) ==
    CASE w.op = "live" -> w.kind [] w.op = "paper" -> "paper" [] OTHER -> lastMode

\* Seeded fault: the flag of live trading is only ever raised.
EnabledOnce(w) == enabled \/ w.op = "live"

EnabledAfter(w) == IF w.op \in {"live", "paper"} THEN w.op = "live" ELSE enabled

\* The flags are set, last of all.
Flags(h) ==
    LET w == work[h]
    IN  /\ w # Idle /\ w.stage = "cleared"
        /\ enabled' = EnabledAfter(w)
        /\ mode' = CASE w.op = "live" -> w.kind [] w.op \in {"paper", "reset"} -> "paper" [] OTHER -> mode
        /\ paperKind' = IF w.op \in {"kind", "reset"} THEN w.kind ELSE paperKind
        /\ lastMode' = Checkpoint(w)
        /\ saved' = IF w.op = "set" THEN [saved EXCEPT ![w.kind] = w.amount] ELSE saved
        /\ work' = [work EXCEPT ![h] = Idle]
        /\ lapsed' = (lapsed /\ w.op \notin {"live", "paper", "reset"})
        /\ UNCHANGED <<accounts, moneyVars, broker, manual, engineVars, key, overlapped, boots>>

\* set_paper_balance, "add" and "remove": what is saved is the new starting
\* capital, not the cash.
MovesBalance(h, d) ==
    /\ Starts(h) /\ ~enabled /\ ~Current.live
    /\ cash' = cash + d /\ cash' \in 0..MaxCash
    /\ capital' = Max({0, capital + d}) /\ capital' <= MaxCash
    /\ saved' = [saved EXCEPT ![paperKind] = capital']
    /\ UNCHANGED <<accounts, broker, manual, engineVars, flagVars, lastMode, key, work, lapsed, boots>>

\* save_settings: a key is entered; it may be deleted in paper mode only.
MayDeleteKey == ~enabled

SavesKey(h) ==
    /\ Starts(h)
    /\ key' \in BOOLEAN
    /\ ~key' => MayDeleteKey
    /\ UNCHANGED <<accounts, moneyVars, broker, manual, engineVars, flagVars, lastMode, saved, work, lapsed, boots>>

-----------------------------------------------------------------------------
(* The process ends, however, and create_app boots the next one *)

Restores == lastMode \in Kinds /\ key

\* The paper account of BootKind; then, if real trading was on, up to three
\* attempts to engage it again.
Boot ==
    /\ boots < MaxBoots
    /\ boots' = boots + 1
    /\ \E restored \in {Restores, FALSE} :
         /\ accounts' = <<Account(FALSE, BootKind)>> \o
                IF restored THEN <<Account(TRUE, lastMode)>> ELSE <<>>
         /\ broker' = Len(accounts')
         /\ cash' = (IF restored THEN 0 ELSE PaperCapital(BootKind)) /\ capital' = cash'
         /\ enabled' = restored
         /\ mode' = IF restored THEN lastMode ELSE "paper"
         /\ lapsed' = (lastMode \in Kinds /\ ~restored)
    /\ manual' = 1
    /\ positions' = {} /\ opening' = NoBroker /\ raced' = {}
    /\ paperKind' = BootKind
    /\ work' = [h \in Handlers |-> Idle]
    /\ overlapped' = FALSE
    /\ UNCHANGED savedVars

-----------------------------------------------------------------------------
Init ==
    /\ accounts = <<Account(FALSE, BootKind)>>
    /\ cash = Capital /\ capital = Capital
    /\ broker = 1 /\ manual = 1
    /\ positions = {} /\ opening = NoBroker /\ raced = {}
    /\ enabled = FALSE /\ mode = "paper" /\ paperKind = BootKind
    /\ lastMode = "none" /\ saved = [k \in Kinds |-> Unsaved]
    /\ key \in BOOLEAN
    /\ work = [h \in Handlers |-> Idle]
    /\ overlapped = FALSE /\ lapsed = FALSE /\ boots = 0

Tick == TickOpens \/ TickKeeps \/ TickSaves \/ \E p \in positions : TickExits(p)

Request(h) ==
    \/ \E m \in Kinds : AsksForLive(h, m) \/ SetsKind(h, m)
    \/ EngagesPaper(h) \/ ResetsAll(h) \/ SavesKey(h)
    \/ \E amount \in 1..MaxCash : SetsBalance(h, amount)
    \/ \E d \in {-1, 1} : MovesBalance(h, d)

Continue(h) == LiveRefused(h) \/ LiveAccepted(h) \/ Clears(h) \/ Flags(h)

Next ==
    \/ Tick \/ ManualTrade \/ Boot
    \/ \E h \in Handlers : Request(h) \/ Continue(h)

Spec == Init /\ [][Next]_vars

-----------------------------------------------------------------------------
(* Properties *)

\* Types; the manual orders never trade on a real account.
ModeTypeOK ==
    /\ accounts \in Seq([live : BOOLEAN, kind : Kinds])
    /\ cash \in 0..MaxCash /\ capital \in 0..MaxCash
    /\ broker \in DOMAIN accounts /\ manual \in DOMAIN accounts
    /\ ~accounts[manual].live
    /\ positions \subseteq DOMAIN accounts /\ opening \in DOMAIN accounts \cup {NoBroker}
    /\ mode \in Kinds \cup {"paper"} /\ paperKind \in Kinds
    /\ lastMode \in Kinds \cup {"paper", "none"}
    /\ saved \in [Kinds -> 0..MaxCash \cup {Unsaved}]

\* Between requests the flags say what the engine trades on: live_enabled, on
\* which every handler's check relies, trade_mode and the kind of the paper
\* account.  Only requests that overlapped may leave them wrong.
FlagsTellTheBroker ==
    Switching \/ overlapped \/
        /\ enabled = Current.live
        /\ mode = IF Current.live THEN Current.kind ELSE "paper"
        /\ ~Current.live => paperKind = Current.kind

\* FIX(audit-C4): between requests the engine manages no position that another
\* broker opened, whose exit it would send to the exchange or credit to the
\* paper account, but those it was opening while the broker was replaced.
ExitsStayHome == Switching \/ positions \subseteq {broker} \cup raced

\* After a restart the mode is what it was, or paper if it cannot be restored;
\* never real trading that had been left, unless requests overlapped or the
\* last boot had failed to restore it.
RestartKeepsMode ==
    [][boots' # boots /\ ~Switching /\ ~overlapped /\ ~lapsed => mode' \in {mode, "paper"}
         /\ (mode' = "paper" => mode = "paper" \/ lapsed')]_vars

\* engine.py:1453: a saved paper balance is changed only to the cash or the
\* capital of the account of its kind in use, or wiped; a live session and the
\* replaced account that manual orders may still trade on leave it alone.
SavedCashIsOwn ==
    [][overlapped' \/ boots' # boots \/ \A k \in Kinds : saved'[k] \in
         {saved[k], Unsaved} \cup
         IF Current.live \/ Current.kind # k THEN {}
         ELSE {cash', capital'}]_vars
=============================================================================
