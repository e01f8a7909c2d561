----------------------------- MODULE BacktestJob -----------------------------
(***************************************************************************)
(* A backtest from the job that gets the history (CandleFiles) to the      *)
(* report (Backtest): load_symbol_history and run_backtest, as a handler   *)
(* of bot/server.py or scripts/run_backtest.py calls them.                 *)
(*                                                                         *)
(* The file of symbol 1 is followed until a job loads it; the simulation   *)
(* has its own copy then, and what becomes of the file is followed no      *)
(* longer.  The other symbols may have any candles.                        *)
(***************************************************************************)
EXTENDS Backtest, CandleFiles

CONSTANT WarmUp  \* the candles only there to warm up

ASSUME PathAssumption == WarmUp \in Nat /\ NTimes <= LastNow + 1

jobVars == <<allVars, candleVars>>

\* The times are those of the newest bars there can be.
BarOf(t) == LastNow - NTimes + t

TimesOf(history) ==
    {t \in Times : /\ BarOf(t) \in In(history)
                   /\ Cardinality({b \in In(history) : b < BarOf(t)}) >= WarmUp}

\* The server simulates on the fast path, the script candle by candle.
LoadsAndRuns ==
    /\ job.pc = "load"
    /\ \E c \in [Symbols -> SUBSET Times] :
           c[1] = TimesOf(file) /\ RunBacktest(job.for # "script", c)
    /\ now' = Start /\ file' = NoCandles /\ memory' = NoCandles
    /\ eng' = IdleEngine /\ job' = IdleJob /\ fill' = IdleFill /\ busy' = FALSE

\* There is no history.
LoadsNothing ==
    /\ job.pc = "load" /\ In(file) = {}
    /\ job' = IdleJob /\ UNCHANGED <<allVars, now, file, memory, eng, fill, busy>>

Following == clock = Never

JobInit == BtInit /\ CandleInit

JobNext ==
    \/ Following /\ CandleNext /\ UNCHANGED allVars
    \/ LoadsAndRuns
    \/ Following /\ LoadsNothing
    \/ BtNext /\ UNCHANGED candleVars

JobSpec == JobInit /\ [][JobNext]_jobVars

-----------------------------------------------------------------------------
(* Properties *)

\* engine.py:639 "a chart fetch must NEVER shrink a deep history cache", and no
\* other writer may: the file gets shorter only by one who has read it before
\* somebody else wrote it.  Holds of the files that are followed.
SavesKeepDepth ==
    [][Following' /\ Depth(file') < Cardinality({b \in Bars : file[b] = "final"}) =>
          \/ eng.behind /\ eng.pc = "asked" /\ memory' = file'
          \/ job.behind /\ job.pc = "write" /\ job.all = file'
          \/ fill.behind /\ fill.pc = "write" /\ fill.all = file']_candleVars
=============================================================================
