-------------------------- MODULE UniverseApproval --------------------------
(***************************************************************************)
(* The day's universe_selections row and its two writers: the engine, which *)
(* stores the result of each scan (bot/core/engine.py, _persist_selection), *)
(* and the web interface, where the user approves or rejects               *)
(* (web/api/universe.py).  Each reads the row in one statement and writes   *)
(* it at the commit of its session; the database runs at REPEATABLE READ    *)
(* and does not see that the row has changed in between.  The session       *)
(* writes the columns whose value differs from the one it has read.        *)
(* The reasoning text and the times are left out.                          *)
(***************************************************************************)
EXTENDS Naturals

CONSTANTS Symbols,   \* symbols a scan may find
          Modes,     \* values UNIVERSE_APPROVAL_MODE takes during the day
          MaxScans   \* bound: scans in the day (mode switches, restarts)

ASSUME ModesAssumption == Modes \subseteq {"approval", "autonomous"}
ASSUME SymbolsAssumption == "none" \notin Symbols
ASSUME ScansAssumption == MaxScans \in Nat

VARIABLES
    row,        \* the day's row
    mode,       \* UNIVERSE_APPROVAL_MODE as the engine reads it
    engine,     \* "idle"; the approval mode is read: "select"; the row is: "write"
    scanMode,   \* UNIVERSE_APPROVAL_MODE as the scan has read it
    engineRow,  \* the row as the engine has read it
    new,        \* what the engine is about to store
    scans,      \* scans started
    web,        \* the request in progress: "idle", or checked: "write"
    webRow,     \* the row as the handler has read it
    ask,        \* the user's decision: a symbol, or "reject"
    \* history
    accepted,   \* decisions answered with success
    offered,    \* symbols that were ever in the row's candidates
    gated       \* approval mode has been on since the day began

engineVars == <<engine, scanMode, engineRow, new, scans>>
webVars    == <<web, webRow, ask>>
vars == <<row, mode, engineVars, webVars, accepted, offered, gated>>

NoRow == [status |-> "none", selected |-> "none", candidates |-> {}, decided |-> FALSE]
Undecided == {"pending_approval", "autonomous"}
Decided == {"approved", "rejected"}

Init ==
    /\ row = NoRow /\ mode \in Modes
    /\ engine = "idle" /\ scanMode = mode /\ engineRow = NoRow /\ new = NoRow /\ scans = 0
    /\ web = "idle" /\ webRow = NoRow /\ ask = "reject"
    /\ accepted = 0 /\ offered = {} /\ gated = (mode = "approval")

-----------------------------------------------------------------------------
(* The engine. *)

\* The row _persist_selection builds: a symbol is selected in autonomous mode.
Scanned(cands, best) ==
    IF scanMode = "approval"
    THEN [NoRow EXCEPT !.status = "pending_approval", !.candidates = cands]
    ELSE [NoRow EXCEPT !.status = "autonomous", !.candidates = cands, !.selected = best]

\* The candidates are scored; the mode is read before Claude is asked.
EngineMode ==
    /\ engine = "idle" /\ scans < MaxScans
    /\ scanMode' = mode /\ engine' = "select" /\ scans' = scans + 1
    /\ UNCHANGED <<row, mode, engineRow, new, webVars, accepted, offered, gated>>

\* The selection is made; the session reads today's row.
EngineRead(cands, best) ==
    /\ engine = "select"
    /\ new' = Scanned(cands, best) /\ engineRow' = row
    /\ engine' = "write"
    /\ UNCHANGED <<row, mode, scanMode, scans, webVars, accepted, offered, gated>>

\* The value a column has after a session that has read "old" writes "value".
Column(old, value, stored) == IF value = old THEN stored ELSE value

\* Mutant: the whole row is written back.
EngineCommit_wholeRow ==
    /\ engine = "write"
    /\ row' = IF engineRow.status \in Undecided \cup {"none"}
              THEN [new EXCEPT !.decided = row.decided] ELSE row
    /\ engine' = "idle" /\ offered' = offered \cup row'.candidates
    /\ UNCHANGED <<scanMode, engineRow, new, scans, mode, webVars, accepted, gated>>

\* The commit inserts the row, or updates one that was undecided when read.
EngineCommit ==
    /\ engine = "write"
    /\ \/ engineRow.status = "none" /\ row' = new
       \/ engineRow.status \in Decided /\ row' = row
       \/ /\ engineRow.status \in Undecided
          /\ row' = [row EXCEPT
                        !.candidates = Column(engineRow.candidates, new.candidates, @),
                        !.selected   = Column(engineRow.selected, new.selected, @),
                        !.status     = Column(engineRow.status, new.status, @)]
    /\ engine' = "idle" /\ offered' = offered \cup row'.candidates
    /\ UNCHANGED <<scanMode, engineRow, new, scans, mode, webVars, accepted, gated>>

\* The selector raises, or the transaction fails, or the process dies; the
\* failure is swallowed.
EngineRollback ==
    /\ engine # "idle"
    /\ engine' = "idle"
    /\ UNCHANGED <<row, scanMode, engineRow, new, scans, mode, webVars, accepted, offered, gated>>

-----------------------------------------------------------------------------
(* The web interface: one event loop, so one handler at a time. *)

\* Mutant: the status is not checked.
WebRead_anyStatus(decision) ==
    /\ web = "idle" /\ row.status # "none"
    /\ decision \in row.candidates \cup {"reject"}
    /\ webRow' = row /\ ask' = decision /\ web' = "write"
    /\ UNCHANGED <<row, mode, engineVars, accepted, offered, gated>>

\* The checks of approve_selection and reject_selection; a request that fails
\* them is answered 404, 409 or 422 and changes nothing.
WebRead(decision) ==
    /\ web = "idle" /\ row.status = "pending_approval"
    /\ decision \in row.candidates \cup {"reject"}
    /\ webRow' = row /\ ask' = decision /\ web' = "write"
    /\ UNCHANGED <<row, mode, engineVars, accepted, offered, gated>>

\* The decision is committed and answered.
WebCommit ==
    /\ web = "write"
    /\ row' = [row EXCEPT
           !.status = Column(webRow.status,
                             IF ask = "reject" THEN "rejected" ELSE "approved", @),
           !.selected = IF ask = "reject" THEN @ ELSE Column(webRow.selected, ask, @),
           !.decided = TRUE]
    /\ web' = "idle" /\ accepted' = accepted + 1
    /\ UNCHANGED <<webRow, ask, mode, engineVars, offered, gated>>

WebRollback ==
    /\ web = "write"
    /\ web' = "idle"
    /\ UNCHANGED <<row, webRow, ask, mode, engineVars, accepted, offered, gated>>

\* PUT /api/settings/UNIVERSE_APPROVAL_MODE.
SetMode ==
    /\ mode' \in Modes \ {mode}
    /\ gated' = FALSE
    /\ UNCHANGED <<row, engineVars, webVars, accepted, offered>>

-----------------------------------------------------------------------------
Selects ==
    \E cands \in SUBSET Symbols :
        \E best \in IF cands = {} THEN {"none"} ELSE cands : EngineRead(cands, best)
Engine == EngineMode \/ Selects \/ EngineCommit \/ EngineRollback
Web == (\E d \in Symbols \cup {"reject"} : WebRead(d)) \/ WebCommit \/ WebRollback

Next == Engine \/ Web \/ SetMode
Spec == Init /\ [][Next]_vars

-----------------------------------------------------------------------------
(* Properties. *)

RowType == [status : {"none", "pending_approval", "autonomous", "approved", "rejected"},
            selected : Symbols \cup {"none"}, candidates : SUBSET Symbols, decided : BOOLEAN]

\* Type invariant of the row, the two transactions and the history.
TypeOK ==
    /\ row \in RowType /\ engineRow \in RowType /\ webRow \in RowType /\ new \in RowType
    /\ mode \in Modes /\ scans \in 0..MaxScans
    /\ scanMode \in Modes /\ engine \in {"idle", "select", "write"} /\ web \in {"idle", "write"}
    /\ ask \in Symbols \cup {"reject"}
    /\ accepted \in Nat /\ offered \subseteq Symbols /\ gated \in BOOLEAN

\* While approval mode stays on, the row is approved or rejected exactly when it
\* records who decided, and exactly one decision was answered with success then:
\* rescans and a second request neither undo a decision nor let one be made
\* twice (engine.py:405-413, universe.py:139-153, 171-180). Once the mode is left,
\* a scan that has read the row as pending overwrites a decision made meanwhile.
OneDecision == gated =>
    /\ row.status \in Decided <=> row.decided
    /\ accepted = IF row.decided THEN 1 ELSE 0

\* The row implements the promise of DayDecision, whatever the engine's
\* transactions overlap with.
Day == INSTANCE DayDecision WITH
    decision <- IF row.status \in Decided THEN row.status ELSE "open",
    choice   <- row.selected
Implements == Day!Spec

=============================================================================
