--------------------------- MODULE TradingEngine ---------------------------
(***************************************************************************)
(* The trading loop (bot/core/engine.py): what one tick does to the mode,  *)
(* the broker connection, the watchlist and the day's approval row, in     *)
(* which order, and what the web interface and the clock may change        *)
(* between its steps.  Orders are abstracted to the set "held" of symbols  *)
(* with a position; OrderExecution has their detail.                       *)
(*                                                                         *)
(* Nothing bounds a tick: an entry waits 60 s for its limit order and 15 s *)
(* for the market order (seed.py:259; executor.py:251, 293), Claude and    *)
(* the gateway as long as they like.  The clock may pass any number of     *)
(* phases, the night too, while a tick is under way; between two ticks it  *)
(* waits a minute, less than any phase lasts.                              *)
(*                                                                         *)
(* "faults" names the calls that fail in the code as it stands:            *)
(*   "default"  get(key, default) with a positional default (engine.py:181,*)
(*              320; scanner.py:151); config.get takes it by keyword only  *)
(*   "detached" the approved row is read after its session was committed   *)
(*              and closed (engine.py:439-442; session.py:87, 102-108)     *)
(*   "import"   _run_signal_for_symbol uses a get it does not import (566) *)
(*   "alert"    the P&L of None in a trade_closed alert (notifier.py:101)  *)
(* and the surroundings that fail it:                                      *)
(*   "calls"    connects, closes and the load of the settings may fail     *)
(*   "select"   selector.select may raise                                  *)
(*   "unset"    the row EOD_CLOSE_MINUTES is missing (engine.py:139)       *)
(* The first four are the shipped engine; without them it is the engine    *)
(* its unit tests see, which replace these calls with stubs.               *)
(***************************************************************************)
EXTENDS Naturals, FiniteSets

CONSTANTS Symbols,        \* symbols of the pool
          Builds,         \* sets of faults to look at; see above
          MaxDays,        \* bound: calendar days in a behaviour
          MaxWrites,      \* bound: settings written by the web interface
          MaxRestarts,    \* bound: process restarts
          Writable        \* which of "mode", "approval" the web interface changes

Faults == {"default", "detached", "import", "alert", "calls", "select", "unset"}

ASSUME BuildsAssumption == \A build \in Builds : build \subseteq Faults
ASSUME SizeAssumption ==
    /\ IsFiniteSet(Symbols)
    /\ MaxDays \in Nat \ {0} /\ MaxWrites \in Nat /\ MaxRestarts \in Nat
    /\ Writable \subseteq {"mode", "approval"}

VARIABLES
    \* the engine
    pc,        \* step of the tick; "wait" between ticks
    mode,      \* _trading_mode
    goal,      \* TRADING_MODE as this tick read it
    raised,    \* an alert's exception abandoned the switch of this tick
    provider,  \* _data_provider is a connected broker
    watchlist, \* _watchlist
    scanDay,   \* _last_scan_date; 0 is None
    seen,      \* the settings cached in the bot process
    found,     \* candidates of the scan in progress
    \* the clock
    day, phase,
    today,     \* date of this tick's timestamp, "today"
    early,     \* its time, "now", lies before the end of the opening buffer
    lap,       \* what the phase has seen: "new" if it began between two ticks and
               \* no tick since, "none" if it began in a tick or the process has
               \* restarted, "begun" and "done" once a tick began, and ended, in it
    swept,     \* a whole tick ran inside the day's close window
    \* the web interface and the database
    settings, writes, restarts,
    row,       \* the day's universe_selections row
    \* the broker account
    held,
    \* the calls that fail in this build of the code
    faults,
    \* history: day of the scan, or of the approval, that filled the watchlist
    listDay

noted     == <<goal, today, early, raised>>
tickVars  == <<pc, noted>>
modeVars  == <<mode, provider>>
listVars  == <<watchlist, scanDay, listDay>>
clockVars == <<day, phase, swept>>
webVars   == <<settings, writes, restarts, faults>>
vars == <<tickVars, modeVars, listVars, seen, found, clockVars, lap, webVars, row, held>>

Trading == {"paper", "live"}
NoRow == [status |-> "none", selected |-> {}, candidates |-> {}]

Init ==
    /\ settings \in [mode : {"paper", "dryrun"}, approval : {"autonomous", "approval"}]
    /\ seen = settings /\ mode = settings.mode /\ goal = mode /\ raised = FALSE
    /\ provider \in IF mode \in Trading THEN {TRUE} ELSE BOOLEAN
    /\ held \in IF mode \in Trading THEN {{}, Symbols} ELSE {{}}
    /\ pc = "wait" /\ today = 0 /\ early = FALSE /\ lap = "none" /\ swept = FALSE
    /\ watchlist = {} /\ scanDay = 0 /\ listDay = 0 /\ found = {}
    /\ day = 1 /\ phase \in {"holiday", "pre"}
    /\ writes = 0 /\ restarts = 0 /\ row = NoRow
    /\ faults \in Builds

-----------------------------------------------------------------------------
(* The tick. *)

\* A tick ends, its variables with it: its phase has seen a whole tick if it also
\* began in it.
EndTick ==
    /\ pc' = "wait"
    /\ lap' = IF lap = "begun" THEN "done" ELSE lap
    /\ goal' = mode /\ today' = 0 /\ early' = FALSE /\ raised' = FALSE

\* A read of the settings, from a cache that is at most a tick old.
Read(s) == s \in {seen, settings} /\ seen' = s

\* Mutant: only a change of the setting is acted upon, not a difference.
ReadMode_onEdge ==
    /\ pc = "wait"
    /\ seen' \in {settings} \cup (IF "calls" \in faults THEN {seen} ELSE {})
    /\ goal' = seen'.mode
    /\ lap' = IF lap \in {"new", "none"} THEN "begun" ELSE lap
    /\ pc' = IF goal' # seen.mode THEN "switch" ELSE "day"
    /\ UNCHANGED <<today, early, raised, modeVars, listVars, found, clockVars, webVars, row, held>>

\* The tick interval is the cache's lifetime, so each tick loads it anew; when
\* the database cannot be read the cache stands.
ReadMode ==
    /\ pc = "wait"
    /\ seen' \in {settings} \cup (IF "calls" \in faults THEN {seen} ELSE {})
    /\ goal' = seen'.mode
    /\ lap' = IF lap \in {"new", "none"} THEN "begun" ELSE lap
    /\ pc' = IF goal' # mode THEN "switch" ELSE "day"
    /\ UNCHANGED <<today, early, raised, modeVars, listVars, found, clockVars, webVars, row, held>>

\* _eod_close outside dryrun; the alert after a success may raise.
CloseAll(left, alarm) ==
    /\ left \in IF "calls" \in faults THEN SUBSET held ELSE {{}}
    /\ held' = left
    /\ alarm = (left # held /\ "alert" \in faults)

\* Mutant: the switch waits until every position is closed.
SwitchClose_onlyWhenFlat ==
    /\ pc = "switch"
    /\ IF mode \in Trading
       THEN \E left \in SUBSET Symbols :
                /\ CloseAll(left, raised')
                /\ pc' = IF raised' \/ left # {} THEN "day" ELSE "connect"
       ELSE pc' = "connect" /\ UNCHANGED <<held, raised>>
    /\ UNCHANGED <<goal, today, early, modeVars, listVars, seen, found, clockVars, lap, webVars,
                   row>>

\* Leaving paper or live closes first; the exception abandons the switch.
SwitchClose ==
    /\ pc = "switch"
    /\ IF mode \in Trading
       THEN \E left \in SUBSET Symbols :
                /\ CloseAll(left, raised')
                /\ pc' = IF raised' THEN "day" ELSE "connect"
       ELSE pc' = "connect" /\ UNCHANGED <<held, raised>>
    /\ UNCHANGED <<goal, today, early, modeVars, listVars, seen, found, clockVars, lap, webVars,
                   row>>

\* Mutants: a failed connect is overlooked; the old mode's list survives.
SwitchConnect_unchecked ==
    /\ pc = "connect"
    /\ provider' \in BOOLEAN /\ mode' = goal
    /\ watchlist' = {} /\ scanDay' = 0 /\ listDay' = 0
    /\ pc' = "day"
    /\ UNCHANGED <<noted, seen, found, clockVars, lap, webVars, row, held>>

SwitchConnect_listKept ==
    /\ pc = "connect"
    /\ \E ok \in BOOLEAN :
          /\ goal \in Trading /\ "calls" \notin faults => ok
          /\ provider' = ok
          /\ mode' = IF goal \in Trading /\ ~ok THEN "dryrun" ELSE goal
    /\ scanDay' = 0 /\ UNCHANGED <<watchlist, listDay>>
    /\ pc' = "day"
    /\ UNCHANGED <<noted, seen, found, clockVars, lap, webVars, row, held>>

\* The new connection is mandatory in paper and live, optional in dryrun.
SwitchConnect ==
    /\ pc = "connect"
    /\ \E ok \in BOOLEAN :
          /\ goal \in Trading /\ "calls" \notin faults => ok
          /\ provider' = ok
          /\ mode' = IF goal \in Trading /\ ~ok THEN "dryrun" ELSE goal
    /\ watchlist' = {} /\ scanDay' = 0 /\ listDay' = 0
    /\ pc' = "day"
    /\ UNCHANGED <<noted, seen, found, clockVars, lap, webVars, row, held>>

\* No tick on a day without a session; else one scan a day.
CheckDay ==
    /\ pc = "day"
    /\ IF phase = "holiday" THEN EndTick
       ELSE /\ today' = day /\ early' = (phase \in {"pre", "buffer"})
            /\ pc' = IF scanDay # day THEN "scan" ELSE "market"
            /\ UNCHANGED <<goal, raised, lap>>
    /\ UNCHANGED <<modeVars, listVars, seen, found, clockVars, webVars, row, held>>

\* The scan is over, with this watchlist; it counts for the day of the tick.
ScanDone(list) ==
    /\ watchlist' = list /\ listDay' = IF list = {} THEN 0 ELSE today
    /\ scanDay' = today /\ pc' = "market"

\* Dryrun: the configured watchlist, if there is a provider of bars for it.
ScanDryrun ==
    /\ pc = "scan" /\ mode = "dryrun"
    /\ \E list \in SUBSET Symbols : (provider \/ list = {}) /\ ScanDone(list)
    /\ UNCHANGED <<noted, modeVars, seen, found, clockVars, lap, webVars, row, held>>

\* get_pool raises: the tick ends and the day stays unscanned.
ScanRaises ==
    /\ pc = "scan" /\ mode \in Trading /\ "default" \in faults
    /\ EndTick
    /\ UNCHANGED <<modeVars, listVars, seen, found, clockVars, webVars, row, held>>

\* Mutant: a failed scan leaves the list as it was.
ScanFails_listKept ==
    /\ pc = "scan" /\ mode \in Trading /\ "default" \notin faults
    /\ scanDay' = today /\ pc' = "market" /\ UNCHANGED <<watchlist, listDay>>
    /\ UNCHANGED <<noted, modeVars, seen, found, clockVars, lap, webVars, row, held>>

\* The scan of the pool fails: no watchlist for the rest of the day.
ScanFails ==
    /\ pc = "scan" /\ mode \in Trading /\ "default" \notin faults
    /\ ScanDone({})
    /\ UNCHANGED <<noted, modeVars, seen, found, clockVars, lap, webVars, row, held>>

\* The pool is scored; the candidates go to the selector.
ScanPool ==
    /\ pc = "scan" /\ mode \in Trading /\ "default" \notin faults
    /\ found' \in SUBSET Symbols
    /\ pc' = "select"
    /\ UNCHANGED <<noted, modeVars, listVars, seen, clockVars, lap, webVars, row, held>>

\* The first of the candidates, UNIVERSE_MAX_SYMBOLS of them, or Claude's choice.
Choices == {list \in SUBSET found : list = {} <=> found = {}}

\* The selector raises: the best of the scored list are traded as they are.
SelectFails ==
    /\ pc = "select" /\ "select" \in faults
    /\ \E s \in {seen, settings} : Read(s)
    /\ \E list \in Choices : ScanDone(list)
    /\ UNCHANGED <<noted, modeVars, found, clockVars, lap, webVars, row, held>>

\* _persist_selection: a row the user has decided is not overwritten; a
\* database failure is swallowed.
Persist(status, selected) ==
    \/ /\ row.status \in {"none", "pending_approval", "autonomous"}
       /\ row' = [status |-> status, selected |-> selected, candidates |-> found]
    \/ UNCHANGED row

\* Mutant: the selector's choice is traded while the user decides.
SelectForApproval_tradedMeanwhile ==
    /\ pc = "select"
    /\ \E s \in {seen, settings} : Read(s) /\ s.approval = "approval"
    /\ Persist("pending_approval", {})
    /\ ScanDone(found)
    /\ UNCHANGED <<noted, modeVars, found, clockVars, lap, webVars, held>>

\* Approval mode: the row is stored and the list waits for the user.
SelectForApproval ==
    /\ pc = "select"
    /\ \E s \in {seen, settings} : Read(s) /\ s.approval = "approval"
    /\ Persist("pending_approval", {})
    /\ ScanDone({})
    /\ UNCHANGED <<noted, modeVars, found, clockVars, lap, webVars, held>>

\* Autonomous mode: the choice is traded at once. Claude is asked for one symbol
\* and may name several; the row records the first.
SelectAutonomous ==
    /\ pc = "select"
    /\ \E s \in {seen, settings} : Read(s) /\ s.approval = "autonomous"
    /\ \E list \in Choices :
          /\ \E first \in IF list = {} THEN {{}} ELSE {{c} : c \in list} :
                Persist("autonomous", first)
          /\ ScanDone(list)
    /\ UNCHANGED <<noted, modeVars, found, clockVars, lap, webVars, held>>

\* int(get("EOD_CLOSE_MINUTES")) raises a ConfigError, which nothing catches.
MinutesRaise ==
    /\ pc = "market" /\ "unset" \in faults
    /\ EndTick
    /\ UNCHANGED <<modeVars, listVars, seen, found, clockVars, webVars, row, held>>

\* Outside market hours, or in the opening buffer by the tick's timestamp, which
\* an earlier day's is too, the tick is over. The check reads the clock anew.
CheckMarket ==
    /\ pc = "market" /\ "unset" \notin faults
    /\ IF \/ phase \in {"pre", "closed", "holiday"}
          \/ early \/ today # day
       THEN EndTick
       ELSE pc' = "minutes" /\ UNCHANGED <<noted, lap>>
    /\ UNCHANGED <<modeVars, listVars, seen, found, clockVars, webVars, row, held>>

\* Mutant: the close is for the last minutes of the session only.
CheckMinutes_openOnly ==
    /\ pc = "minutes"
    /\ pc' = IF phase = "closed" THEN "eod" ELSE "approval"
    /\ UNCHANGED <<noted, modeVars, listVars, seen, found, clockVars, lap, webVars, row, held>>

\* minutes_until_close reads the clock once more.
CheckMinutes ==
    /\ pc = "minutes"
    /\ pc' = IF phase \in {"eod", "closed", "holiday"} THEN "eod" ELSE "approval"
    /\ UNCHANGED <<noted, modeVars, listVars, seen, found, clockVars, lap, webVars, row, held>>

\* The end-of-day close, whether or not its alerts raise, ends the tick.
EodClose ==
    /\ pc = "eod"
    /\ IF mode \in Trading
       THEN \E left \in SUBSET Symbols, alarm \in BOOLEAN : CloseAll(left, alarm)
       ELSE UNCHANGED held
    /\ EndTick
    /\ UNCHANGED <<modeVars, listVars, seen, found, clockVars, webVars, row>>

\* The read of UNIVERSE_APPROVAL_MODE raises.
ApprovalRaises ==
    /\ pc = "approval" /\ "default" \in faults
    /\ EndTick
    /\ UNCHANGED <<modeVars, listVars, seen, found, clockVars, webVars, row, held>>

\* _load_approved_selection: today's approved symbol, or None.
LoadApproved ==
    IF row.status = "approved" /\ row.selected # {} /\ "detached" \notin faults
    THEN row.selected ELSE {}

\* In approval mode an empty list is filled from the approved row; while there
\* is none the tick is over. A list that is not empty is not looked at.
Approval ==
    /\ pc = "approval" /\ "default" \notin faults
    /\ \E s \in {seen, settings} :
          /\ Read(s)
          /\ IF s.approval = "approval" /\ watchlist = {}
             THEN IF LoadApproved # {}
                  THEN watchlist' = LoadApproved /\ listDay' = day
                       /\ pc' = "signals" /\ UNCHANGED <<noted, lap>>
                  ELSE EndTick /\ UNCHANGED <<watchlist, listDay>>
             ELSE pc' = "signals" /\ UNCHANGED <<watchlist, listDay, noted, lap>>
    /\ UNCHANGED <<modeVars, scanDay, found, clockVars, webVars, row, held>>

\* A signal of the watchlist becomes a position, unless one is open already.
Enter(s) ==
    /\ pc = "signals" /\ s \in watchlist \ held
    /\ mode \in Trading /\ provider /\ "import" \notin faults
    /\ held' = held \cup {s}
    /\ UNCHANGED <<tickVars, modeVars, listVars, seen, found, clockVars, lap, webVars, row>>

EndSignals ==
    /\ pc = "signals"
    /\ EndTick
    /\ UNCHANGED <<modeVars, listVars, seen, found, clockVars, webVars, row, held>>

-----------------------------------------------------------------------------
(* The clock. *)

NextPhase == [pre |-> "buffer", buffer |-> "open", open |-> "eod", eod |-> "closed"]

\* What a phase that begins now has seen.
NextLap == IF pc = "wait" THEN "new" ELSE "none"

\* A phase that began between two ticks does not end between the same two; while
\* a tick is under way the clock runs on.
Advance ==
    /\ phase \in DOMAIN NextPhase /\ ~(pc = "wait" /\ lap = "new")
    /\ phase' = NextPhase[phase] /\ lap' = NextLap
    /\ swept' = IF phase = "eod" THEN lap = "done" ELSE swept
    /\ UNCHANGED <<tickVars, modeVars, listVars, seen, found, day, webVars, row, held>>

NextDay ==
    /\ phase \in {"closed", "holiday"} /\ ~(pc = "wait" /\ lap = "new") /\ day < MaxDays
    /\ day' = day + 1 /\ phase' \in {"pre", "holiday"} /\ lap' = NextLap /\ swept' = FALSE
    /\ row' = NoRow
    /\ UNCHANGED <<tickVars, modeVars, listVars, seen, found, webVars, held>>

-----------------------------------------------------------------------------
(* The web interface and the process. *)

\* PUT /api/settings/{key} of the mode or of the approval mode.
WriteSetting ==
    /\ writes < MaxWrites /\ writes' = writes + 1
    /\ \/ "mode" \in Writable /\ \E m \in Trading \cup {"dryrun"} :
              settings' = [settings EXCEPT !.mode = m]
       \/ "approval" \in Writable /\ \E a \in {"autonomous", "approval"} :
              settings' = [settings EXCEPT !.approval = a]
    /\ settings' # settings
    /\ UNCHANGED <<tickVars, modeVars, listVars, seen, found, clockVars, lap, restarts, faults, row,
                   held>>

Approve(s) ==
    /\ row.status = "pending_approval" /\ s \in row.candidates
    /\ row' = [row EXCEPT !.status = "approved", !.selected = {s}]
    /\ UNCHANGED <<tickVars, modeVars, listVars, seen, found, clockVars, lap, webVars, held>>

Reject ==
    /\ row.status = "pending_approval"
    /\ row' = [row EXCEPT !.status = "rejected"]
    /\ UNCHANGED <<tickVars, modeVars, listVars, seen, found, clockVars, lap, webVars, held>>

\* The process dies and is started again; main() reads the settings, and exits
\* when paper or live cannot be connected.
Restart ==
    /\ restarts < MaxRestarts /\ restarts' = restarts + 1
    /\ seen' = settings /\ mode' = settings.mode /\ goal' = settings.mode
    /\ provider' \in IF mode' \in Trading THEN {TRUE} ELSE BOOLEAN
    /\ watchlist' = {} /\ scanDay' = 0 /\ listDay' = 0 /\ found' = {}
    /\ pc' = "wait" /\ lap' = "none" /\ today' = 0 /\ early' = FALSE /\ raised' = FALSE
    /\ UNCHANGED <<clockVars, settings, writes, faults, row, held>>

-----------------------------------------------------------------------------
Scan == ScanDryrun \/ ScanRaises \/ ScanFails \/ ScanPool
        \/ SelectFails \/ SelectForApproval \/ SelectAutonomous

Tick == ReadMode \/ SwitchClose \/ SwitchConnect \/ CheckDay \/ Scan \/ MinutesRaise
        \/ CheckMarket \/ CheckMinutes \/ EodClose \/ ApprovalRaises \/ Approval
        \/ (\E s \in Symbols : Enter(s)) \/ EndSignals

Clock == Advance \/ NextDay
Web == WriteSetting \/ (\E s \in Symbols : Approve(s)) \/ Reject

Next == Tick \/ Clock \/ Web \/ Restart

Spec == Init /\ [][Next]_vars

\* Time passes, and the thread runs on: the calls without a time limit
\* (OrderExecution's Hang) are supposed to be answered.
FairSpec == Spec /\ WF_vars(Tick) /\ WF_vars(Clock)

-----------------------------------------------------------------------------
(* Properties. *)

Steps == {"wait", "switch", "connect", "day", "scan", "select", "market", "minutes",
          "eod", "approval", "signals"}
Phases == {"holiday"} \cup DOMAIN NextPhase \cup {"closed"}
Settings == [mode : Trading \cup {"dryrun"}, approval : {"autonomous", "approval"}]

\* Type invariant of the engine, the clock, the settings and the day's row.
TypeOK ==
    /\ pc \in Steps /\ mode \in Trading \cup {"dryrun"} /\ goal \in Trading \cup {"dryrun"}
    /\ provider \in BOOLEAN /\ watchlist \subseteq Symbols /\ found \subseteq Symbols
    /\ scanDay \in 0..day /\ listDay \in 0..day /\ day \in 1..MaxDays
    /\ today \in 0..day /\ raised \in BOOLEAN /\ swept \in BOOLEAN
    /\ phase \in Phases /\ early \in BOOLEAN
    /\ lap \in {"new", "none", "begun", "done"}
    /\ settings \in Settings /\ seen \in Settings
    /\ writes \in 0..MaxWrites /\ restarts \in 0..MaxRestarts
    /\ row \in [status : {"none", "pending_approval", "approved", "rejected", "autonomous"},
                selected : SUBSET Symbols, candidates : SUBSET Symbols]
    /\ held \subseteq Symbols /\ faults \in Builds

Entered == held' \ held

\* The engine is in paper or live only with a connected broker, through every
\* failed connect and abandoned switch (engine.py:222-264, __main__.py:67-95).
ConnectedToTrade == mode \in Trading => provider

\* A position is only entered on a watchlist scanned or approved on the day the
\* tick began, or later, although the list outlives its day and a tick may
\* outlast any phase (engine.py:133-135, 183-188, 311-317). Nothing is said of the
\* hour: _run_signals does not look at the clock (engine.py:481).
TradesTodaysList == [][Entered # {} => listDay \in today..day]_vars

\* In approval mode a symbol is entered only when it is the one the user has
\* approved for today, through rescans after a mode switch or a restart
\* (engine.py:181-188, 329-341, 407). Holds while the selector does not raise
\* (engine.py:326 trades the scored list then) and the approval mode is left
\* alone (a list chosen in autonomous mode is traded on, engine.py:181); a tick
\* that has outlasted the night trades the list of the day before.
ApprovalGate ==
    [][\A s \in Entered :
           seen.approval = "approval" /\ "select" \notin faults /\ today = day =>
               row.status = "approved" /\ row.selected = {s}]_vars

\* Once a tick has read a new trading mode nothing is entered in the old one: the
\* switch, complete or fallen back to dryrun, comes first (engine.py:115-121,
\* 198-266), except in a tick whose close has sold something and whose alert has
\* raised (engine.py:650, notifier.py:101): it goes on in the old mode.
SwitchObeyed == [][Entered # {} => goal = mode \/ raised]_vars

\* No position is held after the session if a whole tick has run inside the close
\* window, whatever straddled into it (engine.py:167-176), the closes succeed and
\* neither get_pool nor the read of the window's length raises. A tick that lasts
\* through the window leaves what is held to the next day, and so does a crash: a
\* restart in dryrun, after the setting was changed.
ClosesDaily ==
    phase = "closed" /\ swept /\ restarts = 0 /\ faults \cap {"calls", "default", "unset"} = {}
        => held = {}

\* When the broker answers, the engine ends up in the mode the settings name,
\* also when a switch is abandoned half way (engine.py:115-121). It may take the
\* rest of the session: with "alert" a tick can close, raise and enter again.
ModeFollows == "calls" \notin faults => <>[](mode = settings.mode)

=============================================================================
