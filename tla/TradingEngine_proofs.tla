------------------------ MODULE TradingEngine_proofs ------------------------
(***************************************************************************)
(* For any pool, any number of days, restarts and settings written: the    *)
(* types of the engine, and its safety properties, each under the faults   *)
(* and failures that do not break it.                                      *)
(***************************************************************************)
EXTENDS TradingEngine, TLAPS

\* After the switch of a tick the engine is in the mode the tick has read, or has
\* fallen back to dryrun, unless an alert has abandoned the switch.
ModeInv == pc \notin {"wait", "switch", "connect"} => goal = mode \/ mode = "dryrun" \/ raised

\* The list is not older than the scan, and past the scan that is the tick's day.
ListInv ==
    /\ watchlist # {} => listDay >= scanDay
    /\ pc \in {"market", "minutes", "eod", "approval", "signals"} => scanDay = today

IInv == TypeOK /\ ConnectedToTrade /\ ModeInv /\ ListInv

\* While the approval mode is left alone and the selector does not raise, today's
\* list of paper or live is the approved symbol.
GateInv ==
    /\ seen.approval = settings.approval
    /\ row.status = "approved" => \E s \in Symbols : row.selected = {s}
    /\ /\ settings.approval = "approval" /\ "select" \notin faults
       /\ mode \in Trading /\ watchlist # {} /\ listDay = day
       => row.status = "approved" /\ row.selected = watchlist

\* While closes succeed and nothing crashes, dryrun holds nothing; a tick that began
\* in the close window runs into the close, and nothing is entered once it has ended.
CloseInv ==
    restarts = 0 /\ "calls" \notin faults =>
        /\ mode = "dryrun" \/ pc = "connect" => held = {}
        /\ faults \cap {"default", "unset"} = {} =>
              /\ phase = "eod" /\ lap = "begun" =>
                    /\ pc \notin {"wait", "approval", "signals"}
                    /\ pc \in {"scan", "select", "market"} => ~early /\ today = day
              /\ (phase = "closed" /\ swept) \/ (phase = "eod" /\ lap = "done") =>
                    held = {} /\ pc \notin {"approval", "signals"}

USE BuildsAssumption, SizeAssumption

-----------------------------------------------------------------------------

\* The variables of a tick are reset when it ends.
LEMMA EndTickType ==
    ASSUME TypeOK, EndTick
    PROVE  /\ pc' \in Steps /\ goal' \in Trading \cup {"dryrun"} /\ today' = 0
           /\ early' \in BOOLEAN /\ raised' \in BOOLEAN
           /\ lap' \in {"new", "none", "begun", "done"}
BY DEF TypeOK, EndTick, Steps

LEMMA TypeStep ==
    ASSUME TypeOK, [Next]_vars
    PROVE  TypeOK'
<1> USE DEF TypeOK, Steps, Phases, Settings, Trading, NextPhase, tickVars, noted,
  modeVars, listVars, clockVars, webVars
<1>1. CASE ReadMode
  BY <1>1 DEF ReadMode
<1>2. CASE SwitchClose
  <2>1. raised' \in BOOLEAN
    BY <1>2, Zenon DEF SwitchClose, CloseAll
  <2>2. held' \subseteq Symbols /\ pc' \in Steps
    BY <1>2 DEF SwitchClose, CloseAll
  <2>3. UNCHANGED <<goal, today, early, modeVars, listVars, seen, found, clockVars, lap, webVars, row>>
    BY <1>2 DEF SwitchClose
  <2> QED
    BY <2>1, <2>2, <2>3
<1>3. CASE SwitchConnect
  BY <1>3 DEF SwitchConnect
<1>4. CASE CheckDay
  <2>1. CASE phase = "holiday"
    BY <1>4, <2>1, EndTickType DEF CheckDay
  <2>2. CASE phase # "holiday"
    <3>1. early' \in BOOLEAN
      BY <1>4, <2>2 DEF CheckDay
    <3>2. today' = day /\ pc' \in Steps /\ UNCHANGED <<goal, raised, lap>>
      BY <1>4, <2>2 DEF CheckDay
    <3>3. UNCHANGED <<modeVars, listVars, seen, found, clockVars, webVars, row, held>>
      BY <1>4 DEF CheckDay
    <3> QED
      BY <3>1, <3>2, <3>3
  <2> QED
    BY <2>1, <2>2
<1>5. CASE ScanDryrun
  BY <1>5 DEF ScanDryrun, ScanDone
<1>6. CASE ScanRaises
  BY <1>6, EndTickType DEF ScanRaises
<1>7. CASE ScanFails
  BY <1>7 DEF ScanFails, ScanDone
<1>8. CASE ScanPool
  BY <1>8 DEF ScanPool
<1>9. CASE SelectFails
  BY <1>9 DEF SelectFails, ScanDone, Choices, Read
<1>10. CASE SelectForApproval
  BY <1>10 DEF SelectForApproval, ScanDone, Persist, Read
<1>11. CASE SelectAutonomous
  BY <1>11 DEF SelectAutonomous, ScanDone, Persist, Choices, Read
<1>12. CASE CheckMarket
  BY <1>12, EndTickType DEF CheckMarket
<1>13. CASE CheckMinutes
  BY <1>13 DEF CheckMinutes
<1>14. CASE EodClose
  BY <1>14, EndTickType DEF EodClose, CloseAll
<1>15. CASE ApprovalRaises
  BY <1>15, EndTickType DEF ApprovalRaises
<1>16. CASE Approval
  BY <1>16, EndTickType DEF Approval, LoadApproved, Read
<1>17. ASSUME NEW s \in Symbols, Enter(s) PROVE TypeOK'
  BY <1>17 DEF Enter
<1>18. CASE EndSignals
  BY <1>18, EndTickType DEF EndSignals
<1>19. CASE Advance
  <2>1. swept' \in BOOLEAN
    BY <1>19, Zenon DEF Advance
  <2>2. phase' \in Phases /\ lap' \in {"new", "none", "begun", "done"}
    BY <1>19 DEF Advance, NextLap
  <2>3. UNCHANGED <<tickVars, modeVars, listVars, seen, found, day, webVars, row, held>>
    BY <1>19 DEF Advance
  <2> QED
    BY <2>1, <2>2, <2>3
<1>20. CASE NextDay
  <2>1. /\ day' = day + 1 /\ day' \in 1..MaxDays /\ scanDay' \in 0..day' /\ listDay' \in 0..day'
        /\ today' \in 0..day'
    BY <1>20 DEF NextDay
  <2>2. /\ phase' \in Phases /\ lap' \in {"new", "none", "begun", "done"} /\ swept' \in BOOLEAN
        /\ row' = NoRow
    BY <1>20 DEF NextDay, NextLap
  <2>3. UNCHANGED <<tickVars, modeVars, listVars, seen, found, webVars, held>>
    BY <1>20 DEF NextDay
  <2> QED
    BY <2>1, <2>2, <2>3 DEF NoRow
<1>21. CASE WriteSetting
  BY <1>21 DEF WriteSetting, Settings
<1>22. ASSUME NEW s \in Symbols, Approve(s) PROVE TypeOK'
  <2>1. row' = [status |-> "approved", selected |-> {s}, candidates |-> row.candidates]
    BY <1>22 DEF Approve
  <2> QED
    BY <1>22, <2>1 DEF Approve
<1>23. CASE Reject
  BY <1>23 DEF Reject
<1>24. CASE Restart
  <2>1. settings.mode \in {"paper", "live", "dryrun"}
    OBVIOUS
  <2>2. mode' \in {"paper", "live", "dryrun"} /\ goal' = mode' /\ provider' \in BOOLEAN
    BY <1>24, <2>1 DEF Restart
  <2> QED
    <3>1. /\ seen' = settings /\ restarts' \in 0..MaxRestarts /\ watchlist' = {} /\ found' = {}
          /\ scanDay' = 0 /\ listDay' = 0 /\ pc' = "wait" /\ lap' = "none" /\ today' = 0
          /\ early' = FALSE /\ raised' = FALSE
      BY <1>24 DEF Restart
    <3>2. UNCHANGED <<clockVars, settings, writes, faults, row, held>>
      BY <1>24 DEF Restart
    <3>3. early' \in BOOLEAN /\ raised' \in BOOLEAN /\ swept' \in BOOLEAN /\ provider' \in BOOLEAN
      BY <2>2, <3>1, <3>2
    <3>4. scanDay' \in 0..day' /\ listDay' \in 0..day' /\ today' \in 0..day' /\ day' \in 1..MaxDays
      BY <3>1, <3>2
    <3>5. pc' \in Steps /\ lap' \in {"new", "none", "begun", "done"} /\ seen' \in Settings
      BY <3>1
    <3>6. watchlist' \subseteq Symbols /\ found' \subseteq Symbols
      BY <3>1
    <3> QED
      BY <2>2, <3>1, <3>2, <3>3, <3>4, <3>5, <3>6
<1>25. CASE MinutesRaise
  BY <1>25, EndTickType DEF MinutesRaise
<1>26. CASE UNCHANGED vars
  BY <1>26 DEF vars
<1> QED
  BY <1>1, <1>2, <1>3, <1>4, <1>5, <1>6, <1>7, <1>8, <1>9,
     <1>10, <1>11, <1>12, <1>13, <1>14, <1>15, <1>16, <1>17, <1>18,
     <1>19, <1>20, <1>21, <1>22, <1>23, <1>24, <1>25, <1>26
  DEF Next, Tick, Scan, Clock, Web


LEMMA ConnectedStep ==
    ASSUME TypeOK, ConnectedToTrade, [Next]_vars
    PROVE  ConnectedToTrade'
<1> USE DEF ConnectedToTrade, Trading, tickVars, noted, modeVars, listVars, clockVars,
  webVars
<1>1. CASE ReadMode
  BY <1>1 DEF ReadMode
<1>2. CASE SwitchClose
  BY <1>2 DEF SwitchClose, CloseAll
<1>3. CASE SwitchConnect
  BY <1>3 DEF SwitchConnect
<1>4. CASE CheckDay
  BY <1>4 DEF CheckDay, EndTick
<1>5. CASE ScanDryrun
  BY <1>5 DEF ScanDryrun, ScanDone
<1>6. CASE ScanRaises
  BY <1>6 DEF ScanRaises, EndTick
<1>7. CASE ScanFails
  BY <1>7 DEF ScanFails, ScanDone
<1>8. CASE ScanPool
  BY <1>8 DEF ScanPool
<1>9. CASE SelectFails
  BY <1>9 DEF SelectFails, ScanDone, Choices, Read
<1>10. CASE SelectForApproval
  BY <1>10 DEF SelectForApproval, ScanDone, Persist, Read
<1>11. CASE SelectAutonomous
  BY <1>11 DEF SelectAutonomous, ScanDone, Persist, Choices, Read
<1>12. CASE CheckMarket
  BY <1>12 DEF CheckMarket, EndTick
<1>13. CASE CheckMinutes
  BY <1>13 DEF CheckMinutes
<1>14. CASE EodClose
  BY <1>14 DEF EodClose, EndTick, CloseAll
<1>15. CASE ApprovalRaises
  BY <1>15 DEF ApprovalRaises, EndTick
<1>16. CASE Approval
  BY <1>16 DEF Approval, EndTick, LoadApproved, Read
<1>17. ASSUME NEW s \in Symbols, Enter(s) PROVE ConnectedToTrade'
  BY <1>17 DEF Enter
<1>18. CASE EndSignals
  BY <1>18 DEF EndSignals, EndTick
<1>19. CASE Advance
  BY <1>19 DEF Advance, NextPhase, NextLap
<1>20. CASE NextDay
  BY <1>20 DEF NextDay, NextLap, NoRow
<1>21. CASE WriteSetting
  BY <1>21 DEF WriteSetting, Settings
<1>22. ASSUME NEW s \in Symbols, Approve(s) PROVE ConnectedToTrade'
  BY <1>22 DEF Approve
<1>23. CASE Reject
  BY <1>23 DEF Reject
<1>24. CASE Restart
  BY <1>24 DEF Restart, Settings
<1>25. CASE MinutesRaise
  BY <1>25 DEF MinutesRaise, EndTick
<1>26. CASE UNCHANGED vars
  BY <1>26 DEF vars
<1> QED
  BY <1>1, <1>2, <1>3, <1>4, <1>5, <1>6, <1>7, <1>8, <1>9,
     <1>10, <1>11, <1>12, <1>13, <1>14, <1>15, <1>16, <1>17, <1>18,
     <1>19, <1>20, <1>21, <1>22, <1>23, <1>24, <1>25, <1>26
  DEF Next, Tick, Scan, Clock, Web


LEMMA ModeStep ==
    ASSUME TypeOK, ModeInv, [Next]_vars
    PROVE  ModeInv'
<1> USE DEF ModeInv, Trading, tickVars, noted, modeVars, listVars, clockVars, webVars
<1>1. CASE ReadMode
  BY <1>1 DEF ReadMode
<1>2. CASE SwitchClose
  BY <1>2 DEF SwitchClose, CloseAll
<1>3. CASE SwitchConnect
  BY <1>3 DEF SwitchConnect
<1>4. CASE CheckDay
  BY <1>4 DEF CheckDay, EndTick
<1>5. CASE ScanDryrun
  BY <1>5 DEF ScanDryrun, ScanDone
<1>6. CASE ScanRaises
  BY <1>6 DEF ScanRaises, EndTick
<1>7. CASE ScanFails
  BY <1>7 DEF ScanFails, ScanDone
<1>8. CASE ScanPool
  BY <1>8 DEF ScanPool
<1>9. CASE SelectFails
  BY <1>9 DEF SelectFails, ScanDone, Choices, Read
<1>10. CASE SelectForApproval
  BY <1>10 DEF SelectForApproval, ScanDone, Persist, Read
<1>11. CASE SelectAutonomous
  BY <1>11 DEF SelectAutonomous, ScanDone, Persist, Choices, Read
<1>12. CASE CheckMarket
  BY <1>12 DEF CheckMarket, EndTick
<1>13. CASE CheckMinutes
  BY <1>13 DEF CheckMinutes
<1>14. CASE EodClose
  BY <1>14 DEF EodClose, EndTick, CloseAll
<1>15. CASE ApprovalRaises
  BY <1>15 DEF ApprovalRaises, EndTick
<1>16. CASE Approval
  BY <1>16 DEF Approval, EndTick, LoadApproved, Read
<1>17. ASSUME NEW s \in Symbols, Enter(s) PROVE ModeInv'
  BY <1>17 DEF Enter
<1>18. CASE EndSignals
  BY <1>18 DEF EndSignals, EndTick
<1>19. CASE Advance
  BY <1>19 DEF Advance, NextPhase, NextLap
<1>20. CASE NextDay
  BY <1>20 DEF NextDay, NextLap, NoRow
<1>21. CASE WriteSetting
  BY <1>21 DEF WriteSetting, Settings
<1>22. ASSUME NEW s \in Symbols, Approve(s) PROVE ModeInv'
  BY <1>22 DEF Approve
<1>23. CASE Reject
  BY <1>23 DEF Reject
<1>24. CASE Restart
  BY <1>24 DEF Restart, Settings
<1>25. CASE MinutesRaise
  BY <1>25 DEF MinutesRaise, EndTick
<1>26. CASE UNCHANGED vars
  BY <1>26 DEF vars
<1> QED
  BY <1>1, <1>2, <1>3, <1>4, <1>5, <1>6, <1>7, <1>8, <1>9,
     <1>10, <1>11, <1>12, <1>13, <1>14, <1>15, <1>16, <1>17, <1>18,
     <1>19, <1>20, <1>21, <1>22, <1>23, <1>24, <1>25, <1>26
  DEF Next, Tick, Scan, Clock, Web


LEMMA ListStep ==
    ASSUME TypeOK, ListInv, [Next]_vars
    PROVE  ListInv'
<1> USE DEF TypeOK, ListInv, tickVars, noted, modeVars, listVars, clockVars, webVars
<1>1. CASE ReadMode
  BY <1>1 DEF ReadMode
<1>2. CASE SwitchClose
  BY <1>2 DEF SwitchClose, CloseAll
<1>3. CASE SwitchConnect
  BY <1>3 DEF SwitchConnect
<1>4. CASE CheckDay
  BY <1>4 DEF CheckDay, EndTick
<1>5. CASE ScanDryrun
  BY <1>5 DEF ScanDryrun, ScanDone
<1>6. CASE ScanRaises
  BY <1>6 DEF ScanRaises, EndTick
<1>7. CASE ScanFails
  BY <1>7 DEF ScanFails, ScanDone
<1>8. CASE ScanPool
  BY <1>8 DEF ScanPool
<1>9. CASE SelectFails
  BY <1>9 DEF SelectFails, ScanDone, Choices, Read
<1>10. CASE SelectForApproval
  BY <1>10 DEF SelectForApproval, ScanDone, Persist, Read
<1>11. CASE SelectAutonomous
  BY <1>11 DEF SelectAutonomous, ScanDone, Persist, Choices, Read
<1>12. CASE CheckMarket
  BY <1>12 DEF CheckMarket, EndTick
<1>13. CASE CheckMinutes
  BY <1>13 DEF CheckMinutes
<1>14. CASE EodClose
  BY <1>14 DEF EodClose, EndTick, CloseAll
<1>15. CASE ApprovalRaises
  BY <1>15 DEF ApprovalRaises, EndTick
<1>16. CASE Approval
  BY <1>16 DEF Approval, EndTick, LoadApproved, Read
<1>17. ASSUME NEW s \in Symbols, Enter(s) PROVE ListInv'
  BY <1>17 DEF Enter
<1>18. CASE EndSignals
  BY <1>18 DEF EndSignals, EndTick
<1>19. CASE Advance
  BY <1>19 DEF Advance, NextPhase, NextLap
<1>20. CASE NextDay
  BY <1>20 DEF NextDay, NextLap, NoRow
<1>21. CASE WriteSetting
  BY <1>21 DEF WriteSetting, Settings
<1>22. ASSUME NEW s \in Symbols, Approve(s) PROVE ListInv'
  BY <1>22 DEF Approve
<1>23. CASE Reject
  BY <1>23 DEF Reject
<1>24. CASE Restart
  BY <1>24 DEF Restart, Settings
<1>25. CASE MinutesRaise
  BY <1>25 DEF MinutesRaise, EndTick
<1>26. CASE UNCHANGED vars
  BY <1>26 DEF vars
<1> QED
  BY <1>1, <1>2, <1>3, <1>4, <1>5, <1>6, <1>7, <1>8, <1>9,
     <1>10, <1>11, <1>12, <1>13, <1>14, <1>15, <1>16, <1>17, <1>18,
     <1>19, <1>20, <1>21, <1>22, <1>23, <1>24, <1>25, <1>26
  DEF Next, Tick, Scan, Clock, Web


LEMMA GateStep ==
    ASSUME "approval" \notin Writable, IInv, GateInv, [Next]_vars
    PROVE  GateInv'
<1> USE DEF IInv, TypeOK, Settings, Trading, ListInv, GateInv, tickVars, noted, modeVars,
  listVars, clockVars, webVars
<1>1. CASE ReadMode
  BY <1>1 DEF ReadMode
<1>2. CASE SwitchClose
  BY <1>2 DEF SwitchClose, CloseAll
<1>3. CASE SwitchConnect
  BY <1>3 DEF SwitchConnect
<1>4. CASE CheckDay
  BY <1>4 DEF CheckDay, EndTick
<1>5. CASE ScanDryrun
  BY <1>5 DEF ScanDryrun, ScanDone
<1>6. CASE ScanRaises
  BY <1>6 DEF ScanRaises, EndTick
<1>7. CASE ScanFails
  BY <1>7 DEF ScanFails, ScanDone
<1>8. CASE ScanPool
  BY <1>8 DEF ScanPool
<1>9. CASE SelectFails
  BY <1>9 DEF SelectFails, ScanDone, Choices, Read
<1>10. CASE SelectForApproval
  BY <1>10 DEF SelectForApproval, ScanDone, Persist, Read
<1>11. CASE SelectAutonomous
  BY <1>11 DEF SelectAutonomous, ScanDone, Persist, Choices, Read
<1>12. CASE CheckMarket
  BY <1>12 DEF CheckMarket, EndTick
<1>13. CASE CheckMinutes
  BY <1>13 DEF CheckMinutes
<1>14. CASE EodClose
  BY <1>14 DEF EodClose, EndTick, CloseAll
<1>15. CASE ApprovalRaises
  BY <1>15 DEF ApprovalRaises, EndTick
<1>16. CASE Approval
  BY <1>16 DEF Approval, EndTick, LoadApproved, Read
<1>17. ASSUME NEW s \in Symbols, Enter(s) PROVE GateInv'
  BY <1>17 DEF Enter
<1>18. CASE EndSignals
  BY <1>18 DEF EndSignals, EndTick
<1>19. CASE Advance
  BY <1>19 DEF Advance, NextPhase, NextLap
<1>20. CASE NextDay
  BY <1>20 DEF NextDay, NextLap, NoRow
<1>21. CASE WriteSetting
  BY <1>21 DEF WriteSetting, Settings
<1>22. ASSUME NEW s \in Symbols, Approve(s) PROVE GateInv'
  BY <1>22 DEF Approve
<1>23. CASE Reject
  BY <1>23 DEF Reject
<1>24. CASE Restart
  BY <1>24 DEF Restart, Settings
<1>25. CASE MinutesRaise
  BY <1>25 DEF MinutesRaise, EndTick
<1>26. CASE UNCHANGED vars
  BY <1>26 DEF vars
<1> QED
  BY <1>1, <1>2, <1>3, <1>4, <1>5, <1>6, <1>7, <1>8, <1>9,
     <1>10, <1>11, <1>12, <1>13, <1>14, <1>15, <1>16, <1>17, <1>18,
     <1>19, <1>20, <1>21, <1>22, <1>23, <1>24, <1>25, <1>26
  DEF Next, Tick, Scan, Clock, Web


LEMMA CloseStep ==
    ASSUME IInv, CloseInv, [Next]_vars
    PROVE  CloseInv'
<1> USE DEF IInv, TypeOK, Phases, NextPhase, Trading, CloseInv, tickVars, noted,
  modeVars, listVars, clockVars, webVars
<1>1. CASE ReadMode
  BY <1>1 DEF ReadMode
<1>2. CASE SwitchClose
  BY <1>2 DEF SwitchClose, CloseAll
<1>3. CASE SwitchConnect
  BY <1>3 DEF SwitchConnect
<1>4. CASE CheckDay
  BY <1>4 DEF CheckDay, EndTick
<1>5. CASE ScanDryrun
  BY <1>5 DEF ScanDryrun, ScanDone
<1>6. CASE ScanRaises
  BY <1>6 DEF ScanRaises, EndTick
<1>7. CASE ScanFails
  BY <1>7 DEF ScanFails, ScanDone
<1>8. CASE ScanPool
  BY <1>8 DEF ScanPool
<1>9. CASE SelectFails
  BY <1>9 DEF SelectFails, ScanDone, Choices, Read
<1>10. CASE SelectForApproval
  BY <1>10 DEF SelectForApproval, ScanDone, Persist, Read
<1>11. CASE SelectAutonomous
  BY <1>11 DEF SelectAutonomous, ScanDone, Persist, Choices, Read
<1>12. CASE CheckMarket
  BY <1>12 DEF CheckMarket, EndTick
<1>13. CASE CheckMinutes
  BY <1>13 DEF CheckMinutes
<1>14. CASE EodClose
  BY <1>14 DEF EodClose, EndTick, CloseAll
<1>15. CASE ApprovalRaises
  BY <1>15 DEF ApprovalRaises, EndTick
<1>16. CASE Approval
  BY <1>16 DEF Approval, EndTick, LoadApproved, Read
<1>17. ASSUME NEW s \in Symbols, Enter(s) PROVE CloseInv'
  BY <1>17 DEF Enter
<1>18. CASE EndSignals
  BY <1>18 DEF EndSignals, EndTick
<1>19. CASE Advance
  <2>1. /\ phase # "eod" => phase' # "closed"
        /\ phase = "eod" => phase' = "closed"
        /\ lap' \notin {"begun", "done"} /\ phase' \in Phases
    BY <1>19 DEF Advance, NextLap
  <2>2. phase = "eod" /\ swept' => lap = "done"
    BY <1>19, Zenon DEF Advance
  <2>3. UNCHANGED <<restarts, faults, mode, pc, held>>
    BY <1>19 DEF Advance
  <2> QED
    BY <2>1, <2>2, <2>3
<1>20. CASE NextDay
  BY <1>20 DEF NextDay, NextLap, NoRow
<1>21. CASE WriteSetting
  BY <1>21 DEF WriteSetting, Settings
<1>22. ASSUME NEW s \in Symbols, Approve(s) PROVE CloseInv'
  BY <1>22 DEF Approve
<1>23. CASE Reject
  BY <1>23 DEF Reject
<1>24. CASE Restart
  BY <1>24 DEF Restart, Settings
<1>25. CASE MinutesRaise
  BY <1>25 DEF MinutesRaise, EndTick
<1>26. CASE UNCHANGED vars
  BY <1>26 DEF vars
<1> QED
  BY <1>1, <1>2, <1>3, <1>4, <1>5, <1>6, <1>7, <1>8, <1>9,
     <1>10, <1>11, <1>12, <1>13, <1>14, <1>15, <1>16, <1>17, <1>18,
     <1>19, <1>20, <1>21, <1>22, <1>23, <1>24, <1>25, <1>26
  DEF Next, Tick, Scan, Clock, Web

-----------------------------------------------------------------------------
(* Theorems. *)

LEMMA InitInv == Init => IInv
<1> SUFFICES ASSUME Init PROVE IInv
  OBVIOUS
<1> USE DEF Init, Trading, NoRow
<1>1. settings.mode \in {"paper", "dryrun"} /\ mode = settings.mode
      /\ settings.approval \in {"autonomous", "approval"}
  OBVIOUS
<1>2. held \subseteq Symbols /\ provider \in BOOLEAN
  OBVIOUS
<1>3. settings \in Settings /\ seen \in Settings
  BY DEF Settings
<1>4. day \in 1..MaxDays /\ scanDay \in 0..day /\ listDay \in 0..day /\ today \in 0..day
      /\ writes \in 0..MaxWrites /\ restarts \in 0..MaxRestarts
  OBVIOUS
<1>5. TypeOK
  BY <1>1, <1>2, <1>3, <1>4 DEF TypeOK, Steps, Phases, NextPhase
<1> QED
  BY <1>1, <1>5 DEF IInv, ConnectedToTrade, ModeInv, ListInv

LEMMA Invariance == Spec => []IInv
<1>1. IInv /\ [Next]_vars => IInv'
  BY TypeStep, ConnectedStep, ModeStep, ListStep DEF IInv
<1> QED
  BY <1>1, InitInv, PTL DEF Spec

\* The types hold, with every fault and failure.
THEOREM TypeCorrect == Spec => []TypeOK
<1>1. IInv => TypeOK
  BY DEF IInv
<1> QED
  BY <1>1, Invariance, PTL

\* Paper and live are connected, through every failed connect and abandoned
\* switch (engine.py:222-264).
THEOREM AlwaysConnected == Spec => []ConnectedToTrade
<1>1. IInv => ConnectedToTrade
  BY DEF IInv
<1> QED
  BY <1>1, Invariance, PTL

\* Only a signal of the watchlist adds to the positions.
LEMMA EnteredBySignal ==
    ASSUME TypeOK, [Next]_vars, Entered # {}
    PROVE  /\ pc = "signals" /\ mode \in Trading
           /\ \E s \in watchlist : Entered = {s}
<1> USE DEF Entered
<1>1. CASE \E s \in Symbols : Enter(s)
  BY <1>1 DEF Enter
<1>2. ASSUME SwitchClose \/ EodClose PROVE FALSE
  BY <1>2 DEF SwitchClose, EodClose, CloseAll, TypeOK
<1>3. ASSUME ReadMode \/ SwitchConnect \/ CheckDay \/ CheckMarket \/ CheckMinutes
             \/ MinutesRaise \/ ApprovalRaises \/ Approval \/ EndSignals
      PROVE  FALSE
  BY <1>3 DEF ReadMode, SwitchConnect, CheckDay, CheckMarket, CheckMinutes,
      MinutesRaise, ApprovalRaises, Approval, EndSignals
<1>4. ASSUME Scan PROVE FALSE
  BY <1>4 DEF Scan, ScanDryrun, ScanRaises, ScanFails, ScanPool, SelectFails,
      SelectForApproval, SelectAutonomous
<1>5. ASSUME Clock \/ Web \/ Restart \/ UNCHANGED vars PROVE FALSE
  BY <1>5 DEF Clock, Advance, NextDay, Web, WriteSetting, Approve, Reject, Restart, vars
<1> QED
  BY <1>1, <1>2, <1>3, <1>4, <1>5 DEF Next, Tick

\* Entries come from a list scanned or approved on the tick's day or later, in every
\* build, through every failure and however long a tick lasts (engine.py:133-188).
THEOREM EntriesAreTodays == Spec => TradesTodaysList
<1>1. IInv /\ [Next]_vars => (Entered # {} => listDay \in today..day)
  <2> SUFFICES ASSUME IInv, [Next]_vars, Entered # {} PROVE listDay \in today..day
    OBVIOUS
  <2>1. pc = "signals" /\ watchlist # {}
    BY EnteredBySignal DEF IInv
  <2> QED
    BY <2>1 DEF IInv, ListInv, TypeOK
<1> QED
  BY <1>1, Invariance, PTL DEF Spec, TradesTodaysList

\* In every build, whatever fails, nothing is entered in the old mode except in a tick
\* whose switch an alert has abandoned (engine.py:115-121, 198-266).
THEOREM SwitchesAreObeyed == Spec => SwitchObeyed
<1>1. IInv /\ [Next]_vars => (Entered # {} => goal = mode \/ raised)
  BY EnteredBySignal DEF IInv, TypeOK, ModeInv, Trading
<1> QED
  BY <1>1, Invariance, PTL DEF Spec, SwitchObeyed

\* In approval mode only today's approved symbol is entered, while the approval
\* mode is left alone, in every build whose selector does not raise
\* (engine.py:181-188, 326-341).
THEOREM OnlyApprovedEntered ==
    ASSUME "approval" \notin Writable
    PROVE  Spec => ApprovalGate
<1> DEFINE Gate(s) == seen.approval = "approval" /\ "select" \notin faults /\ today = day =>
                          row.status = "approved" /\ row.selected = {s}
<1>1. Init => GateInv
  BY DEF Init, GateInv, NoRow
<1>2. IInv /\ GateInv /\ [Next]_vars => GateInv'
  BY GateStep
<1>3. IInv /\ GateInv /\ [Next]_vars => \A s \in Entered : Gate(s)
  <2> SUFFICES ASSUME IInv, GateInv, [Next]_vars, NEW s \in Entered, seen.approval = "approval",
                      "select" \notin faults, today = day
               PROVE  row.status = "approved" /\ row.selected = {s}
    OBVIOUS
  <2>1. pc = "signals" /\ mode \in Trading /\ s \in watchlist
    BY EnteredBySignal DEF IInv
  <2>2. listDay = day
    BY <2>1 DEF IInv, ListInv, TypeOK
  <2>3. row.status = "approved" /\ row.selected = watchlist
    BY <2>1, <2>2 DEF GateInv
  <2> QED
    BY <2>1, <2>3 DEF GateInv
<1> QED
  BY <1>1, <1>2, <1>3, Invariance, PTL DEF Spec, ApprovalGate

\* No position outlives a session whose close window has seen a whole tick, while
\* closes succeed, nothing crashes and nothing raises on the way to the close
\* (engine.py:139, 167-176).
THEOREM ClosedByTheWindow == Spec => []ClosesDaily
<1>1. Init => CloseInv
  BY DEF Init, CloseInv, Trading
<1>2. IInv /\ CloseInv /\ [Next]_vars => CloseInv'
  BY CloseStep
<1>3. CloseInv => ClosesDaily
  BY DEF CloseInv, ClosesDaily
<1> QED
  BY <1>1, <1>2, <1>3, Invariance, PTL DEF Spec

=============================================================================
