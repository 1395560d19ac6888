--------------------------- MODULE EntryDecision ---------------------------
(***************************************************************************)
(* From a symbol of the watchlist to an approved entry: the signal pipeline *)
(* (bot/signals/generator.py, generate), the risk manager                   *)
(* (bot/risk/manager.py, check) with its circuit breaker and its position   *)
(* size, and the trades of the day that the breaker is computed from.       *)
(*                                                                         *)
(* Sending the order and waiting for its fill is OrderExecution's subject;  *)
(* here an approved entry is filled or it is not.  Prices, shares and       *)
(* settings are integers; a fraction of the portfolio is in 1/400 dollars.  *)
(***************************************************************************)
EXTENDS Integers, Sequences, FiniteSetsExt, SequencesExt

CONSTANTS Symbols,    \* the watchlist
          Modes,      \* trading modes in use
          Navs,       \* portfolio values
          Fills,      \* prices at which entries fill
          Exits,      \* prices at which closes fill
          Quotes,     \* entry prices of signals; Claude may answer any number
          Probs,      \* probabilities of the model, in percent
          Configs,    \* settings of the pipeline and of the risk manager
          MaxTrades,  \* bound on the rows of the trades table
          MaxDays,    \* bound on the days
          MaxSaves,   \* bound on the changes of settings
          NaN,        \* float("nan"), which json.loads accepts in an answer
          Unknown     \* a NULL in the column pnl

ASSUME NumbersAssumption ==
    /\ Navs \subseteq Int /\ Fills \subseteq Nat \ {0} /\ Exits \subseteq Nat \ {0}
    /\ Probs \subseteq 0..100 /\ "none" \notin Symbols
    /\ Quotes \subseteq Int \cup {NaN} /\ NaN \notin Int /\ Unknown \notin Int
    /\ MaxTrades \in Nat /\ MaxDays \in Nat \ {0} /\ MaxSaves \in Nat
ASSUME ConfigsAssumption ==
    Configs \subseteq [method : {"fixed_pct", "fixed_amount", "kelly"},
                       minProb : Nat, sizePct : Nat, sizeAmount : Nat, maxPct : Nat,
                       lossPct : Nat, maxLosses : Nat]

VARIABLES
    cfg, saves,   \* the settings and the changes so far
    today, over,  \* the day; whether its end-of-day window has begun
    mode,         \* trading mode
    pc, todo,     \* where the engine is; symbols the tick or the close still has
    nav,          \* portfolio value, read once in a tick
    minProb,      \* ML_MIN_PROBABILITY, read once in a tick
    sym, ml, frame, quote, side, shares,   \* the symbol at hand and what was found for it
    held,         \* rows of the trades table that are not closed, oldest first
    closed,       \* closed rows, as they were closed; closed_at counts in seconds
    tripped       \* the breaker has rejected a signal today over one of its limits

settings == <<cfg, saves>>
calendar == <<today, over>>
tick     == <<todo, nav, minProb>>
finding  == <<sym, ml, frame, quote, side, shares>>
table    == <<held, closed>>
vars == <<settings, calendar, mode, pc, tick, finding, table, tripped>>

NoMl == [label |-> "no_trade", prob |-> 0]
NoFinding == /\ sym' = "none" /\ ml' = NoMl /\ frame' = "none"
             /\ quote' = 0 /\ side' = "no_trade" /\ shares' = 0

Init ==
    /\ cfg \in Configs /\ saves = 0 /\ today = 1 /\ over = FALSE /\ mode \in Modes
    /\ pc = "idle" /\ todo = {} /\ nav = 0 /\ minProb = 0
    /\ sym = "none" /\ ml = NoMl /\ frame = "none" /\ quote = 0 /\ side = "no_trade"
    /\ shares = 0 /\ held = <<>> /\ closed = <<>> /\ tripped = FALSE

-----------------------------------------------------------------------------
(* The tick and the symbol at hand. *)

\* A threshold that cannot be read or parsed is taken to be 0.55.
StartTick(v) ==
    /\ pc = "idle" /\ ~over
    /\ nav' = v /\ minProb' \in {cfg.minProb, 55} /\ todo' = Symbols
    /\ pc' = "tick"
    /\ UNCHANGED <<settings, calendar, mode, finding, table, tripped>>

EndTick ==
    /\ pc = "tick" /\ todo = {}
    /\ pc' = "idle" /\ nav' = 0 /\ minProb' = 0
    /\ UNCHANGED <<settings, calendar, mode, todo, finding, table, tripped>>

\* A row of the day that is not closed keeps a second entry of its symbol out.
HasOpenPosition(s) == \E i \in DOMAIN held : held[i].sym = s /\ held[i].day = today

\* The symbol is given up: no signal, a rejection, an exception.
Discard ==
    /\ pc' = "tick" /\ NoFinding
    /\ UNCHANGED <<settings, calendar, mode, tick, table>>

Begin(s) ==
    /\ pc = "tick" /\ s \in todo
    /\ todo' = todo \ {s}
    /\ IF HasOpenPosition(s) THEN UNCHANGED <<pc, sym>> ELSE pc' = "predict" /\ sym' = s
    /\ UNCHANGED <<settings, calendar, mode, nav, minProb, ml, frame, quote, side, shares,
                   table, tripped>>

\* No broker data, a gap, an error in the indicators or in the model.
PipelineFails ==
    /\ pc = "predict" /\ Discard
    /\ UNCHANGED tripped

-----------------------------------------------------------------------------
(* generate(): the model, the 15-minute filter, Claude. *)

Accepted(p) == p.label # "no_trade" /\ p.prob >= minProb

Predict(p) ==
    /\ pc = "predict"
    /\ IF Accepted(p)
       THEN /\ ml' = p /\ pc' = "confirm"
            /\ UNCHANGED <<settings, calendar, mode, tick, sym, frame, quote, side, shares,
                           table, tripped>>
       ELSE Discard /\ UNCHANGED tripped

\* The 15-minute frame: too few rows for its indicators, an error or a NaN in
\* them, EMA cross and MACD histogram both up, both down, or apart.
Frames == {"short", "error", "bull", "bear", "mixed"}

\* Mutant: an error counts as too little history does.
Confirms_errorPasses(f, label) ==
    \/ f \in {"short", "error"}
    \/ label = "long"  /\ f = "bull"
    \/ label = "short" /\ f = "bear"

Confirms(f, label) ==
    \/ f = "short"
    \/ label = "long"  /\ f = "bull"
    \/ label = "short" /\ f = "bear"

Confirm(f) ==
    /\ pc = "confirm"
    /\ IF Confirms(f, ml.label)
       THEN /\ frame' = f /\ pc' = "decide"
            /\ UNCHANGED <<settings, calendar, mode, tick, sym, ml, quote, side, shares,
                           table, tripped>>
       ELSE Discard /\ UNCHANGED tripped

\* Without a key for Claude the signal is the model's, entered at the close.
DecideAlone(q) ==
    /\ pc = "decide" /\ q \in Int /\ q >= 0
    /\ side' = ml.label /\ quote' = q /\ pc' = "check"
    /\ UNCHANGED <<settings, calendar, mode, tick, sym, ml, frame, shares, table, tripped>>

\* Claude's answer is taken over: its action, which may be the other side, and
\* its entry price, which is any number.
DecideClaude(a, q) ==
    /\ pc = "decide"
    /\ IF a = "no_trade"
       THEN Discard /\ UNCHANGED tripped
       ELSE /\ side' = a /\ quote' = q /\ pc' = "check"
            /\ UNCHANGED <<settings, calendar, mode, tick, sym, ml, frame, shares,
                           table, tripped>>

\* An answer that cannot be read, or no answer.
ClaudeFails ==
    /\ pc = "decide" /\ Discard
    /\ UNCHANGED tripped

-----------------------------------------------------------------------------
(* check(): the circuit breaker. *)

\* closed_at has no fraction of a second: rows closed in one second come out of
\* ORDER BY closed_at DESC in any order.  A reading lists them oldest first.
Readings ==
    LET N == DOMAIN closed
        InOrder(p) == \A i, j \in N : i < j => closed[p[i]].at <= closed[p[j]].at
    IN {[i \in N |-> closed[p[i]]] : p \in {q \in [N -> N] : InOrder(q) /\ IsInjective(q)}}

\* The loop of _query_today_stats, newest row first: its body.
Today(row) == row.day = today

\* Mutant: a row without a P&L ends the streak.
See_unknownEnds(row, acc) ==
    IF row.pnl = Unknown THEN [acc EXCEPT !.active = FALSE]
    ELSE LET lost == acc.active /\ Today(row) /\ row.pnl < 0
         IN [pnl    |-> acc.pnl + IF Today(row) THEN row.pnl ELSE 0,
             losses |-> acc.losses + IF lost THEN 1 ELSE 0,
             active |-> lost]

See(row, acc) ==
    IF row.pnl = Unknown THEN acc
    ELSE LET lost == acc.active /\ Today(row) /\ row.pnl < 0
         IN [pnl    |-> acc.pnl + IF Today(row) THEN row.pnl ELSE 0,
             losses |-> acc.losses + IF lost THEN 1 ELSE 0,
             active |-> lost]

NoStats == [pnl |-> 0, losses |-> 0, active |-> TRUE]
Stats(rows) == FoldRight(See, rows, NoStats)

Trips(stats) ==
    \/ stats.pnl < 0 /\ (0 - stats.pnl) * 100 >= cfg.lossPct * nav
    \/ stats.losses >= cfg.maxLosses

(* check(): the position size. *)

\* The amount in 1/400 dollars; half of p - (1-p)/2 of the portfolio for kelly.
Amount(prob) ==
    CASE cfg.method = "fixed_pct"    -> 4 * nav * cfg.sizePct
      [] cfg.method = "fixed_amount" -> 400 * cfg.sizeAmount
      [] cfg.method = "kelly"        -> nav * (IF 3 * prob > 100 THEN 3 * prob - 100 ELSE 0)

Smaller(a, b) == IF a <= b THEN a ELSE b

Size(prob, entry) == Smaller(Amount(prob), 4 * nav * cfg.maxPct) \div (400 * entry)

Sound == nav > 0 /\ quote # NaN /\ quote > 0 /\ Size(ml.prob, quote) > 0

BreakerTrips ==
    /\ pc = "check" /\ nav > 0 /\ mode # "dryrun"
    /\ \E rows \in Readings : Trips(Stats(rows))
    /\ tripped' = TRUE
    /\ Discard

\* Nothing to trade with, an unusable price, less than one share; settings or
\* trades that cannot be read.
Reject ==
    /\ pc = "check" /\ Discard
    /\ UNCHANGED tripped

Approve ==
    /\ pc = "check" /\ Sound
    /\ mode = "dryrun" \/ \E rows \in Readings : ~Trips(Stats(rows))
    /\ shares' = Size(ml.prob, quote)
    /\ pc' = "execute"
    /\ UNCHANGED <<settings, calendar, mode, tick, sym, ml, frame, quote, side, table, tripped>>

-----------------------------------------------------------------------------
(* execute(), as OrderExecution has it: the row is filled, or marked dryrun,   *)
(* or neither, and then no row of it is pending, open or filled.               *)

Enter(fill) ==
    /\ pc = "execute" /\ Len(held) + Len(closed) < MaxTrades
    /\ held' = Append(held, [sym |-> sym, day |-> today, side |-> side, shares |-> shares,
                             status |-> IF mode = "dryrun" THEN "dryrun" ELSE "filled",
                             price  |-> IF mode = "dryrun" THEN quote ELSE fill])
    /\ pc' = "tick" /\ NoFinding
    /\ UNCHANGED <<settings, calendar, mode, tick, closed, tripped>>

EntryFails ==
    /\ pc = "execute" /\ Discard
    /\ UNCHANGED tripped

-----------------------------------------------------------------------------
(* close_all_positions() at the end of the day, in a mode switch, at shutdown. *)

Filled(s) == {i \in DOMAIN held : held[i].sym = s /\ held[i].status = "filled"}

StartClose(newMode, eod) ==
    /\ pc = "idle"
    /\ IF eod THEN newMode = mode /\ ~over ELSE TRUE
    /\ over' = (over \/ eod) /\ mode' = newMode
    /\ todo' = IF mode = "dryrun" THEN {} ELSE {s \in Symbols : Filled(s) # {}}
    /\ pc' = "closing"
    /\ UNCHANGED <<settings, today, nav, minProb, finding, table, tripped>>

\* Only a fill at a price gives a P&L: a fill that was not seen closes the row
\* without one.
Pnl(row, exit) ==
    IF exit = Unknown THEN Unknown
    ELSE IF row.side = "long" THEN (exit - row.price) * row.shares
    ELSE (row.price - exit) * row.shares

\* Seconds count closes, not time: a close falls into the second of the last
\* one of its day, or into a later one.
Seconds ==
    IF closed = <<>> THEN {1}
    ELSE {Last(closed).at + 1} \cup IF Today(Last(closed)) THEN {Last(closed).at} ELSE {}

\* _mark_trade_closed(): the newest row of the symbol.
Close(s, exit, at) ==
    /\ pc = "closing" /\ s \in todo
    /\ at \in Seconds
    /\ todo' = todo \ {s}
    /\ \E i \in Filled(s) :
          /\ \A j \in Filled(s) : j <= i
          /\ closed' = Append(closed, [day |-> today, at |-> at, pnl |-> Pnl(held[i], exit)])
          /\ held' = RemoveAt(held, i)
    /\ UNCHANGED <<settings, calendar, mode, pc, nav, minProb, finding, tripped>>

\* The order is refused, or the row cannot be written.
CloseFails(s) ==
    /\ pc = "closing" /\ s \in todo
    /\ todo' = todo \ {s}
    /\ UNCHANGED <<settings, calendar, mode, pc, nav, minProb, finding, table, tripped>>

EndClose ==
    /\ pc = "closing" /\ todo = {}
    /\ pc' = "idle"
    /\ UNCHANGED <<settings, calendar, mode, tick, finding, table, tripped>>

-----------------------------------------------------------------------------
(* The web interface and the calendar. *)

SaveSettings(c) ==
    /\ saves < MaxSaves /\ c # cfg
    /\ cfg' = c /\ saves' = saves + 1
    /\ UNCHANGED <<calendar, mode, pc, tick, finding, table, tripped>>

NextDay ==
    /\ pc = "idle" /\ today < MaxDays
    /\ today' = today + 1 /\ over' = FALSE /\ tripped' = FALSE
    /\ UNCHANGED <<settings, mode, pc, tick, finding, table>>

Generate ==
    \/ PipelineFails \/ ClaudeFails
    \/ \E l \in {"long", "short", "no_trade"}, p \in Probs : Predict([label |-> l, prob |-> p])
    \/ \E f \in Frames : Confirm(f)
    \/ \E q \in Quotes : DecideAlone(q)
    \/ \E a \in {"long", "short", "no_trade"}, q \in Quotes : DecideClaude(a, q)

Next ==
    \/ \E v \in Navs : StartTick(v)
    \/ EndTick
    \/ \E s \in Symbols : Begin(s)
    \/ Generate
    \/ BreakerTrips \/ Reject \/ Approve
    \/ \E fill \in Fills : Enter(fill)
    \/ EntryFails
    \/ \E m \in Modes, eod \in BOOLEAN : StartClose(m, eod)
    \/ \E s \in Symbols, exit \in Exits \cup {Unknown}, at \in Seconds : Close(s, exit, at)
    \/ \E s \in Symbols : CloseFails(s)
    \/ EndClose
    \/ \E c \in Configs : SaveSettings(c)
    \/ NextDay

Spec == Init /\ [][Next]_vars

-----------------------------------------------------------------------------
(* Properties. *)

PCs == {"idle", "tick", "predict", "confirm", "decide", "check", "execute", "closing"}
Sides == {"long", "short"}
HeldRows == [sym : Symbols, day : 1..MaxDays, status : {"filled", "dryrun"},
             side : Sides, shares : Nat \ {0}, price : Nat \ {0}]
ClosedRows == [day : 1..MaxDays, at : Nat \ {0}, pnl : Int \cup {Unknown}]

\* Every row has a side, whole shares and a price, and a finding in progress has
\* what the steps before it leave: an order is only ever for at least one share.
TypeOK ==
    /\ cfg \in Configs /\ saves \in 0..MaxSaves
    /\ today \in 1..MaxDays /\ over \in BOOLEAN /\ mode \in Modes
    /\ pc \in PCs /\ todo \subseteq Symbols /\ nav \in Navs \cup {0} /\ minProb \in Nat
    /\ sym \in Symbols \cup {"none"}
    /\ ml \in [label : Sides \cup {"no_trade"}, prob : 0..100]
    /\ frame \in Frames \cup {"none"}
    /\ quote \in Quotes \cup {0} /\ side \in Sides \cup {"no_trade"} /\ shares \in Nat
    /\ pc \in {"check", "execute"} => side # "no_trade"
    /\ pc = "execute" => quote \in Nat \ {0} /\ shares > 0
    /\ held \in Seq(HeldRows) /\ closed \in Seq(ClosedRows)
    /\ tripped \in BOOLEAN

Counted == {i \in DOMAIN closed : closed[i].pnl # Unknown}
LossesToday == {i \in Counted : Today(closed[i]) /\ closed[i].pnl < 0}
PnlToday == SumFunctionOnSet([i \in DOMAIN closed |-> closed[i].pnl],
                             {i \in Counted : Today(closed[i])})

\* The losses of today that no other result has followed, or may have followed
\* within the same second.
Streak == Cardinality({i \in LossesToday :
              \A j \in Counted \ LossesToday : closed[j].at < closed[i].at})

Approval == pc = "check" /\ pc' = "execute"
WithinBreaker ==
    /\ PnlToday < 0 => (0 - PnlToday) * 100 < cfg.lossPct * nav
    /\ Streak < cfg.maxLosses
SizedWithinCap == shares' * quote * 100 <= cfg.maxPct * nav

\* Outside dryrun no order is approved on a day whose realised loss, or whose
\* run of losing trades, has reached its limit, however the trades of several
\* days, unseen fills and closes within one second mix; and no method sizes an
\* order above POSITION_MAX_PCT of the portfolio at the price the signal names
\* (manager.py:57-192, 200-286).  What the order then costs is not bounded:
\* the market order of executor.py:287-293 fills the same shares at any price,
\* and the price named is Claude's, which nothing compares with the market's.
RiskLimits == [][Approval => (mode # "dryrun" => WithinBreaker) /\ SizedWithinCap]_vars

\* A row is only entered for a prediction that reached the threshold of its
\* tick and that the 15-minute frame confirmed, or was too short to judge: an
\* error anywhere in the pipeline enters nothing (generator.py:107-312).
Entered == Len(held') > Len(held)
ConfirmedEntries ==
    [][Entered => /\ ml.label \in Sides /\ ml.prob >= minProb
                  /\ frame \in {"short", IF ml.label = "long" THEN "bull" ELSE "bear"}]_vars

\* README:479: once the breaker has tripped, all subsequent orders are blocked
\* for the rest of the session.  The code computes it anew in each check.
StaysTripped == [][tripped /\ Entered => mode = "dryrun"]_vars
=============================================================================
