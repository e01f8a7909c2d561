----------------------------- MODULE CandleFiles -----------------------------
(***************************************************************************)
(* The candles of one symbol: the file that the engine (bot/engine.py),    *)
(* the jobs that download history for a backtest (bot/history.py, started  *)
(* by bot/server.py or by scripts/run_backtest.py) and the backfill script *)
(* (scripts/backfill_depth.py) share without a lock.  Each of them reads   *)
(* it, asks the exchange for what is missing, and writes all of it anew;   *)
(* the engine moreover keeps a copy in memory, which strategies read.      *)
(*                                                                         *)
(* Candles are hourly, the timeframe that is stored the way the exchange   *)
(* sends it.  Bar b begins at time b and ends at b + 1; `now` is the bar   *)
(* that is forming.  Of a candle it matters whether it was taken when its  *)
(* bar had ended.                                                          *)
(***************************************************************************)
EXTENDS Integers, FiniteSets, FiniteSetsExt

CONSTANTS
    Start, LastNow,  \* the time goes from the one to the other
    Need,            \* the bars that jobs are to have, the forming one included
    Tolerance,       \* how many of them may be missing: 2
    Overlap,         \* how many bars a deeper download asks for again: 10
    Chunk,           \* the bars asked for at once by jobs and backfill: 1500
    MinBars,         \* below this the engine asks twice: 50
    Trigger,         \* below this it asks for a whole window: 100
    Count, Slack,    \* the window: 300 and 3
    Keep             \* what the engine keeps of a short history: 310

Bars == 0..LastNow

ASSUME CandleAssumption ==
    /\ {Start, LastNow, Need, Tolerance, Overlap, Chunk} \subseteq Nat
    /\ Need <= Start + 1 /\ Start <= LastNow /\ Chunk > 0
    /\ {MinBars, Trigger, Count, Slack, Keep} \subseteq Nat
    /\ MinBars <= Trigger /\ Trigger <= Count /\ Count + Slack <= Keep

VARIABLES
    now,
    file,     \* data/history/<symbol>/60.json
    memory,   \* engine._candle_cache
    eng,      \* the engine's request; current: _candle_mtime is the file's
    job,      \* a download and what it is for
    fill,     \* the backfill script
    busy      \* data/.user_job_busy is younger than 15 minutes

candleVars == <<now, file, memory, eng, job, fill, busy>>

\* "none", "forming" or "final", per bar.
NoCandles == [b \in Bars |-> "none"]

In(candles)     == {b \in Bars : candles[b] # "none"}
Depth(candles)  == Cardinality(In(candles))
LastIn(candles) == Max(In(candles))
ClosedOf(candles) == [b \in Bars |-> IF b < now THEN candles[b] ELSE "none"]

\* What is taken of the bars at a time, put over what is there.
With(candles, bars, at) ==
    [b \in Bars |-> IF b \notin bars THEN candles[b] ELSE IF b < at THEN "final" ELSE "forming"]

\* behind: somebody else has written the file since this one read or wrote it.
IdleEngine == [pc |-> "idle", at |-> 0, ans |-> {}, current |-> FALSE, behind |-> FALSE]
IdleJob    == [pc |-> "idle", for |-> "none", at |-> 0, from |-> 0, cursor |-> 0,
               all |-> NoCandles, last |-> 0, skipped |-> FALSE, behind |-> FALSE]
IdleFill   == [pc |-> "idle", to |-> 0, cursor |-> 0, all |-> NoCandles, behind |-> FALSE]

Unasked == [IdleEngine EXCEPT !.current = eng.current, !.behind = eng.behind]

Overtaken(r) == IF r.pc \in {"idle", "off"} THEN r ELSE [r EXCEPT !.behind = TRUE]

\* A write is a rename: all of it is there, or nothing.
Writes(who, candles) ==
    /\ file' = candles
    /\ eng'  = IF who = "engine" THEN [IdleEngine EXCEPT !.current = TRUE]
               ELSE IF eng.pc = "off" THEN eng ELSE [eng EXCEPT !.current = FALSE, !.behind = TRUE]
    /\ fill' = IF who = "fill" THEN IdleFill ELSE Overtaken(fill)

\* The exchange sends the bars asked for up to one of them, or nothing.
Sent(lo, hi) == {{}} \cup {lo..m : m \in lo..hi}

-----------------------------------------------------------------------------
(* The engine *)

Window(view) == (now - Max({Count, Depth(view)}) - Slack + 1)..now \cap Bars

\* _fetch_candles with too little in memory: the answer is thrown away, but the
\* file has been looked at.
EngineAsksInVain ==
    /\ eng.pc = "idle" /\ Depth(memory) < MinBars
    /\ eng' = [eng EXCEPT !.pc = "again", !.current = In(file) # {}]
    /\ UNCHANGED <<now, file, memory, job, fill, busy>>

\* _fetch_window: the file is what it goes by if it is newer and deeper.
View == IF ~eng.current /\ Depth(ClosedOf(file)) > Depth(memory) THEN ClosedOf(file) ELSE memory

\* The candles it may come back with; nothing when no bar has ended since.  A
\* delta that does not begin at the next bar or is too short is not trusted.
Fetched(view) ==
    LET window == UNION {Sent(Min(Window(view)), now)}
        next   == LastIn(view) + 1
        few(d) == now - next > 4 /\ Cardinality(d) < now - next - 2
    IN  IF Depth(view) < Trigger THEN window
        ELSE IF LastIn(view) >= now - 1 THEN {{}}
        ELSE {d \in Sent(next, now) : d = {} \/ ~few(d)} \cup window

EngineAsks ==
    /\ eng.pc = "again" \/ (eng.pc = "idle" /\ Depth(memory) >= MinBars)
    /\ \E ans \in Fetched(View) :
           eng' = [eng EXCEPT !.pc = "asked", !.at = now, !.ans = ans,
                              !.current = @ \/ In(file) # {}]
    /\ UNCHANGED <<now, file, memory, job, fill, busy>>

\* The request fails; what is in memory has to do.
EngineFails ==
    /\ eng.pc \in {"again", "asked"}
    /\ eng' = Unasked
    /\ UNCHANGED <<now, file, memory, job, fill, busy>>

\* Seeded faults: the open candle is kept; the depth of the memory is not.
EndedAll(bars) == bars
KeptDepthOfShort == Keep

\* Only candles of ended bars go to the strategies.
Ended(bars) == {b \in bars : b < now}

KeptDepth == Max({Keep, Depth(memory)})

\* _merge_fetched: over the memory, whatever the request went by.
EngineMerges ==
    LET merged == With(memory, Ended(eng.ans), eng.at)
        recent == {b \in In(merged) : Cardinality({c \in In(merged) : c > b}) < KeptDepth}
    IN  /\ eng.pc = "asked"
        /\ memory' = [b \in Bars |-> IF b \in recent THEN merged[b] ELSE "none"]
        /\ IF recent = {} THEN eng' = Unasked /\ UNCHANGED <<file, fill, job>>
           ELSE Writes("engine", memory') /\ job' = Overtaken(job)
        /\ UNCHANGED <<now, busy>>

\* preload_symbols_from_disk, by engine.start() or for other symbols.
EnginePreloads ==
    /\ eng.pc # "off"
    /\ In(ClosedOf(file)) # {}
    /\ memory' = ClosedOf(file) /\ eng' = [eng EXCEPT !.behind = FALSE]
    /\ UNCHANGED <<now, file, job, fill, busy>>

\* The server is started anew, and so is its engine; its jobs are gone.
ServerRestarts ==
    /\ eng.pc # "off"
    /\ memory' = ClosedOf(file) /\ eng' = IdleEngine
    /\ job' = IF job.for = "script" \/ job.pc = "off" THEN job ELSE IdleJob
    /\ UNCHANGED <<now, file, fill, busy>>

-----------------------------------------------------------------------------
(* Jobs: bot/history.py *)

First == now - Need + 1

\* depth_status, with its tail check.
Sufficient(candles) ==
    In(candles) # {} /\ Min(In(candles)) <= First + Tolerance - 1 /\ LastIn(candles) >= now - 1

\* A handler that runs a backtest says that it is busy and looks at the depth
\* first; to download, or to run the script, is to go and get it.
JobStarts ==
    /\ job.pc = "idle"
    /\ \/ /\ \E for \in {"run", "walk"} : job' = [IdleJob EXCEPT !.for = for, !.pc = "check"]
          /\ busy' = TRUE
       \/ job' = [IdleJob EXCEPT !.for = "download", !.pc = "read"] /\ UNCHANGED busy
       \/ /\ \E pc \in {"read", "load"} : job' = [IdleJob EXCEPT !.for = "script", !.pc = pc]
          /\ UNCHANGED busy
    /\ UNCHANGED <<now, file, memory, eng, fill>>

\* ensure_depth, for which the other timeframes count as well.
JobChecks ==
    /\ job.pc = "check"
    /\ job' = [job EXCEPT !.pc = IF Sufficient(file) THEN "gate" ELSE "read"]
       \/ job' = [job EXCEPT !.pc = "read"]
    /\ UNCHANGED <<now, file, memory, eng, fill, busy>>

\* download_symbol: what begins early enough is written back as it is; what is
\* deeper is asked for from a few bars before the first that there is.
JobReads ==
    LET have == Min(In(file))
    IN  /\ job.pc = "read"
        /\ job' = IF In(file) # {} /\ have <= First + Tolerance - 1
                  THEN [job EXCEPT !.pc = "write", !.at = now, !.all = file, !.from = have,
                                   !.last = have, !.behind = FALSE]
                  ELSE LET from == IF In(file) = {} THEN First ELSE Max({First, have - Overlap})
                       IN  [job EXCEPT !.pc = "ask", !.at = now, !.all = file, !.from = from,
                                       !.cursor = from, !.last = from - 1, !.behind = FALSE]
        /\ UNCHANGED <<now, file, memory, eng, fill, busy>>

ChunkEnd == Min({job.cursor + Chunk, job.at})

\* Seeded fault: on with the next chunk, whatever has been sent.
NextChunk(got) == ChunkEnd + 1

\* Advance by what was actually returned.
NextBar(got) == Max(got) + 1

\* A chunk that comes back empty three times is skipped.
JobAsks ==
    \E got \in Sent(job.cursor, ChunkEnd) :
        /\ job.pc = "ask"
        /\ job' = IF got # {}
                  THEN [job EXCEPT !.all = With(@, got, now), !.last = Max(got),
                                   !.cursor = NextBar(got),
                                   !.pc = IF NextBar(got) > job.at \/ job.cursor + Chunk > job.at
                                          THEN "write" ELSE "ask"]
                  ELSE [job EXCEPT !.skipped = TRUE, !.cursor = @ + Chunk,
                                   !.pc = IF job.cursor + Chunk > job.at THEN "write" ELSE "ask"]
        /\ UNCHANGED <<now, file, memory, eng, fill, busy>>

AfterDownload == CASE job.for \in {"run", "walk"} -> "gate"
                   [] job.for = "script" -> "load"
                   [] OTHER -> "idle"

\* A request fails: nothing is written, and the job goes on without.
JobFails ==
    /\ job.pc = "ask"
    /\ job' = IF AfterDownload = "idle" THEN IdleJob
              ELSE [IdleJob EXCEPT !.for = job.for, !.pc = AfterDownload]
    /\ UNCHANGED <<now, file, memory, eng, fill, busy>>

\* An empty history is written like any other.
JobWrites ==
    /\ job.pc = "write"
    /\ Writes("job", job.all)
    /\ job' = IF AfterDownload = "idle" THEN IdleJob
              ELSE [IdleJob EXCEPT !.for = job.for, !.pc = AfterDownload]
    /\ UNCHANGED <<now, memory, busy>>

\* To run or to compare strategies leaves a symbol out that has not the depth,
\* or whose other timeframes have not; to walk forward or to optimize does not.
JobGates ==
    /\ job.pc = "gate"
    /\ \/ /\ job.for = "walk" \/ Sufficient(file)
          /\ job' = [IdleJob EXCEPT !.for = job.for, !.pc = "load"]
       \/ job.for = "run" /\ job' = IdleJob
    /\ UNCHANGED <<now, file, memory, eng, fill, busy>>

-----------------------------------------------------------------------------
(* The backfill script, and time *)

\* It begins with what there is, and asks for what comes before.
FillReads ==
    LET oldest == Min(In(file))
    IN  /\ fill.pc = "idle" /\ In(file) # {} /\ oldest > First + Tolerance - 1
        /\ fill' = [pc |-> "ask", to |-> oldest + 2, cursor |-> First, all |-> file,
                    behind |-> FALSE]
        /\ UNCHANGED <<now, file, memory, eng, job, busy>>

\* It waits for jobs.  What fails three times, or comes back empty, is skipped.
FillAsks ==
    \E got \in Sent(fill.cursor, Min({fill.cursor + Chunk, fill.to, now})) :
        LET next == IF got = {} THEN fill.cursor + Chunk ELSE Max(got) + 1
        IN  /\ fill.pc = "ask" /\ ~busy
            /\ fill' = [fill EXCEPT !.all = With(@, got, now), !.cursor = next,
                                    !.pc = IF next >= fill.to THEN "write" ELSE "ask"]
            /\ UNCHANGED <<now, file, memory, eng, job, busy>>

FillWrites ==
    /\ fill.pc = "write"
    /\ Writes("fill", fill.all) /\ job' = Overtaken(job)
    /\ UNCHANGED <<now, memory, busy>>

\* The script is stopped.
FillStops ==
    /\ fill.pc \notin {"idle", "off"} /\ fill' = IdleFill
    /\ UNCHANGED <<now, file, memory, eng, job, busy>>

BusyExpires == busy /\ busy' = FALSE /\ UNCHANGED <<now, file, memory, eng, job, fill>>

BarEnds ==
    /\ now < LastNow /\ now' = now + 1
    /\ UNCHANGED <<file, memory, eng, job, fill, busy>>

\* A history from an earlier day, or none; the engine has just been started.
\* A bound: only two of the three are at work.
CandleInit ==
    /\ now = Start
    /\ \E lo, hi \in Bars : hi < Start /\ file = With(NoCandles, lo..hi, Start)
    /\ \E off \in {"engine", "jobs", "script"} :
           /\ memory = (IF off = "engine" THEN NoCandles ELSE file)
           /\ eng  = (IF off = "engine" THEN [IdleEngine EXCEPT !.pc = "off"] ELSE IdleEngine)
           /\ job  = (IF off = "jobs" THEN [IdleJob EXCEPT !.pc = "off"] ELSE IdleJob)
           /\ fill = (IF off = "script" THEN [IdleFill EXCEPT !.pc = "off"] ELSE IdleFill)
    /\ busy = FALSE

CandleNext ==
    \/ EngineAsksInVain \/ EngineAsks \/ EngineFails \/ EngineMerges
    \/ EnginePreloads \/ ServerRestarts
    \/ JobStarts \/ JobChecks \/ JobReads \/ JobAsks \/ JobFails \/ JobWrites \/ JobGates
    \/ FillReads \/ FillAsks \/ FillWrites \/ FillStops
    \/ BusyExpires \/ BarEnds

-----------------------------------------------------------------------------
(* Properties *)

\* engine.py:629 "only CLOSED candles feed the strategy": a candle taken from a
\* bar that was forming reaches the memory of the engine only if the bar ended
\* between the request and the merge, or if it had been in the file.
FeedIsClosed ==
    [][\A b \in Bars : memory'[b] = "forming" /\ memory[b] # "forming" =>
          b < now /\ (file[b] = "forming" \/ (b = eng.at /\ eng.at < now))]_candleVars

\* history.py:207 "the next request must start where the data actually
\* stopped": a download leaves no hole but for the chunks it has given up.
DownloadsAreWhole ==
    job.pc = "write" /\ ~job.skipped => job.from..job.last \subseteq In(job.all)
=============================================================================
