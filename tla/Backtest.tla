------------------------------ MODULE Backtest ------------------------------
(***************************************************************************)
(* A run of the backtest (bot/backtesting/engine.py, run): historical bars *)
(* are replayed one at a time, at most one simulated position is open, and *)
(* the metrics of bot/backtesting/metrics.py are computed at the end.      *)
(*                                                                         *)
(* Prices and money are integers.  The bars that are still to come are     *)
(* chosen as the replay reaches them.                                      *)
(***************************************************************************)
EXTENDS Integers, Sequences, FiniteSetsExt, SequencesExt

CONSTANTS Shapes,     \* bars without their date: low, close, high
          Atrs,       \* values of the average true range
          Probs,      \* probabilities of the model, in percent
          Capital,    \* initial_capital
          SizePct,    \* position_size_pct
          StopAtr, TargetAtr,  \* stop_loss_atr, take_profit_atr
          MinProb,    \* ml_min_probability, in percent
          MaxPerDay,  \* max_trades_per_day
          Warmup,     \* _WARMUP_BARS
          MaxBars,    \* bound on the bars
          MaxDays,    \* bound on the days
          None        \* Python's None

ASSUME ShapesAssumption == Shapes \subseteq [low : Int, close : Int, high : Int]
Positions == [bar : Nat \ {0}, side : {"long", "short"}, price : Nat \ {0},
              shares : Nat \ {0}, stop : Int, target : Int]
ASSUME NoneAssumption == None \notin Positions /\ None \notin {"stop", "target"}
ASSUME NumbersAssumption ==
    /\ Atrs \subseteq Int /\ Probs \subseteq 0..100
    /\ Capital \in Nat \ {0} /\ SizePct \in 1..100
    /\ StopAtr \in Nat \ {0} /\ TargetAtr \in Nat \ {0} /\ MinProb \in 0..100
    /\ MaxPerDay \in Nat /\ Warmup \in Nat /\ MaxBars \in Nat /\ MaxDays \in Nat \ {0}

VARIABLES
    pc,        \* "bar": before a bar; "entry": its exits are done; "done"
    bars,      \* the bars replayed so far, each with its day
    equity, curve, trades,
    position,  \* the open position, or None
    count,     \* daily_trade_count
    metrics    \* None before the end

vars == <<pc, bars, equity, curve, trades, position, count, metrics>>

Init ==
    /\ pc = "bar" /\ bars = <<>> /\ equity = Capital /\ curve = <<>> /\ trades = <<>>
    /\ position = None /\ count = [d \in 1..MaxDays |-> 0] /\ metrics = None

-----------------------------------------------------------------------------
(* Positions and trades. *)

Shares(close) ==
    LET whole == (equity * SizePct) \div (100 * close)
    IN IF whole >= 1 THEN whole ELSE 1

\* The side a price moves to for a profit.
Sign(side) == IF side = "long" THEN 1 ELSE 0 - 1

Opened(side, close, atr) ==
    [bar |-> Len(bars), side |-> side, price |-> close, shares |-> Shares(close),
     stop   |-> close - Sign(side) * StopAtr * atr,
     target |-> close + Sign(side) * TargetAtr * atr]

StopHit(p, bar) == IF p.side = "long" THEN bar.low <= p.stop ELSE bar.high >= p.stop
TargetHit(p, bar) == IF p.side = "long" THEN bar.high >= p.target ELSE bar.low <= p.target

\* Mutant: the target is looked at first.
ExitReason_targetFirst(p, bar) ==
    IF TargetHit(p, bar) THEN "target" ELSE IF StopHit(p, bar) THEN "stop" ELSE None

ExitReason(p, bar) ==
    IF StopHit(p, bar) THEN "stop" ELSE IF TargetHit(p, bar) THEN "target" ELSE None

ExitPrice(p, reason, close) ==
    IF reason = "stop" THEN p.stop ELSE IF reason = "target" THEN p.target ELSE close

Pnl(p, price) == Sign(p.side) * (price - p.price) * p.shares

Closed(p, bar, price, reason) ==
    [pos |-> p, exit |-> bar, price |-> price, reason |-> reason, pnl |-> Pnl(p, price)]

-----------------------------------------------------------------------------
(* Metrics. *)

Pnls == [i \in DOMAIN trades' |-> trades'[i].pnl]

\* A drawdown is a drop below a peak; two of them compare as fractions of their
\* peaks.
Deeper(a, b) == a.drop * b.peak > b.drop * a.peak
NoDrop == [drop |-> 0, peak |-> 1]

\* The body of the loop of _max_drawdown.
See(acc, e) ==
    LET peak == IF e > acc.peak THEN e ELSE acc.peak
        dd   == [drop |-> IF peak > 0 THEN peak - e ELSE 0, peak |-> peak]
    IN [peak |-> peak, worst |-> IF Deeper(dd, acc.worst) THEN dd ELSE acc.worst]

Drawdown(equities) ==
    IF Len(equities) < 2 THEN NoDrop
    ELSE FoldLeft(See, [peak |-> equities[1], worst |-> NoDrop], equities).worst

Metrics ==
    IF trades' = <<>>
    THEN [gain |-> 0, pnl |-> 0, count |-> 0, wins |-> 0, losses |-> 0,
          drawdown |-> Drawdown(<<>>)]
    ELSE [gain     |-> Last(curve') - Capital,
          pnl      |-> SumFunction(Pnls),
          count    |-> Len(trades'),
          wins     |-> Cardinality({i \in DOMAIN Pnls : Pnls[i] > 0}),
          losses   |-> Cardinality({i \in DOMAIN Pnls : Pnls[i] <= 0}),
          drawdown |-> Drawdown(curve')]

-----------------------------------------------------------------------------
(* run() *)

\* Indicators or features that cannot be computed end the run at once.
Fails ==
    /\ pc = "bar" /\ bars = <<>>
    /\ curve' = <<Capital>> /\ pc' = "done"
    /\ UNCHANGED <<bars, equity, trades, position, count>>
    /\ metrics' = Metrics

\* A bar: first the exit of the open position.
NextBar(shape, day) ==
    /\ pc = "bar" /\ Len(bars) < MaxBars
    /\ bars # <<>> => day >= Last(bars).day
    /\ bars' = Append(bars, [low |-> shape.low, close |-> shape.close, high |-> shape.high,
                             day |-> day])
    /\ LET reason == ExitReason(position, shape)
           trade  == Closed(position, Len(bars) + 1,
                            ExitPrice(position, reason, shape.close), reason)
       IN IF position # None /\ reason # None
          THEN /\ equity' = equity + trade.pnl
               /\ trades' = Append(trades, trade)
               /\ position' = None
          ELSE UNCHANGED <<equity, trades, position>>
    /\ pc' = "entry"
    /\ UNCHANGED <<curve, count, metrics>>

\* The 5-minute indicators of the bar: EMA cross and MACD histogram both up,
\* both down, or apart.  A NaN in them is a NaN among the features, for which
\* there is no prediction; so the confirmation never sees one.
Rows == {"bull", "bear", "mixed"}
Confirms(row, label) == (label = "long" /\ row = "bull") \/ (label = "short" /\ row = "bear")

\* Then an entry: after the warm-up, below the cap of the day, for a prediction
\* that reaches the threshold and is confirmed.
Enter(label, prob, row, atr) ==
    /\ pc = "entry" /\ position = None /\ Len(bars) > Warmup
    /\ count[Last(bars).day] < MaxPerDay
    /\ label # "no_trade" /\ prob >= MinProb /\ Confirms(row, label)
    /\ atr > 0 /\ Last(bars).close > 0
    /\ position' = Opened(label, Last(bars).close, atr)
    /\ count' = [count EXCEPT ![Last(bars).day] = @ + 1]
    /\ curve' = Append(curve, equity) /\ pc' = "bar"
    /\ UNCHANGED <<bars, equity, trades, metrics>>

\* No entry; the model may always answer no_trade, or fail.
Skip ==
    /\ pc = "entry"
    /\ curve' = Append(curve, equity) /\ pc' = "bar"
    /\ UNCHANGED <<bars, equity, trades, position, count, metrics>>

\* Mutant: the curve keeps the equity before the last close.
Finish_staleCurve ==
    /\ pc = "bar" /\ pc' = "done"
    /\ IF position = None THEN UNCHANGED <<equity, curve, trades>>
       ELSE LET trade == Closed(position, Len(bars), Last(bars).close, "eod")
            IN /\ equity' = equity + trade.pnl
               /\ trades' = Append(trades, trade)
               /\ UNCHANGED curve
    /\ metrics' = Metrics
    /\ UNCHANGED <<bars, position, count>>

\* No bar is left: an open position is closed at the last price.
Finish ==
    /\ pc = "bar" /\ pc' = "done"
    /\ IF position = None THEN UNCHANGED <<equity, curve, trades>>
       ELSE LET trade == Closed(position, Len(bars), Last(bars).close, "eod")
            IN /\ equity' = equity + trade.pnl
               /\ trades' = Append(trades, trade)
               /\ curve' = [curve EXCEPT ![Len(curve)] = equity + trade.pnl]
    /\ metrics' = Metrics
    /\ UNCHANGED <<bars, position, count>>

Next ==
    \/ Fails \/ Skip \/ Finish
    \/ \E shape \in Shapes, day \in 1..MaxDays : NextBar(shape, day)
    \/ \E label \in {"long", "short", "no_trade"}, prob \in Probs, row \in Rows, atr \in Atrs :
          Enter(label, prob, row, atr)

Spec == Init /\ [][Next]_vars

-----------------------------------------------------------------------------
(* Properties. *)

Dated == [low : Int, close : Int, high : Int, day : 1..MaxDays]
Trades == [pos : Positions, exit : Nat \ {0}, price : Int, pnl : Int,
           reason : {"stop", "target", "eod"}]

\* Every position, however small the account has become, is of whole shares.
TypeOK ==
    /\ pc \in {"bar", "entry", "done"}
    /\ bars \in Seq(Dated) /\ equity \in Int /\ curve \in Seq(Int)
    /\ trades \in Seq(Trades) /\ position \in Positions \cup {None}
    /\ count \in [1..MaxDays -> Nat]

\* The P&L of the trades that were closed by bar k.
Booked(k) == SumFunctionOnSet([i \in DOMAIN trades |-> trades[i].pnl],
                              {i \in DOMAIN trades : trades[i].exit <= k})

\* The deepest drop from an earlier to a later point of the curve, as a share of
\* the first.  Between positive points any two count; below zero a loss counts
\* from the highest point until then.
Drops(dd) ==
    /\ \A i, j \in DOMAIN curve :
          /\ i <= j /\ curve[i] > 0
          /\ curve[j] >= 0 \/ \A k \in 1..j : curve[k] <= curve[i]
          => (curve[i] - curve[j]) * dd.peak <= dd.drop * curve[i]
    /\ dd.drop > 0 => \E i, j \in DOMAIN curve :
          i < j /\ curve[i] = dd.peak /\ curve[i] - curve[j] = dd.drop

\* What the report says agrees: the equity after each bar is the capital and the
\* P&L of the trades that were closed until then, the return read off the curve
\* is the P&L summed over the trades, and the drawdown is the deepest there was,
\* also of an account that is lost, for which shares are still bought
\* (engine.py:139-229, 261, metrics.py:16-76).
BooksBalance ==
    /\ pc \in {"bar", "done"} /\ bars # <<>> =>
          /\ Len(curve) = Len(bars)
          /\ \A k \in DOMAIN curve : curve[k] = Capital + Booked(k)
          /\ equity = Last(curve)
    /\ pc = "done" =>
          /\ metrics.gain = metrics.pnl /\ metrics.gain = equity - Capital
          /\ metrics.wins + metrics.losses = Len(trades) /\ metrics.count = Len(trades)
          /\ trades # <<>> => Drops(metrics.drawdown)

Entered == {trades[i].pos : i \in DOMAIN trades} \cup ({position} \ {None})

\* No bar after the entry and before the given one touches stop or target.
Untouched(p, until) ==
    \A k \in DOMAIN bars :
       p.bar < k /\ k < until => ~StopHit(p, bars[k]) /\ ~TargetHit(p, bars[k])

\* A position is left on the first bar that touches its stop or its target, at
\* the stop if the bar touches both, and at the end of the data otherwise.
RightExit(t) ==
    /\ Untouched(t.pos, t.exit)
    /\ t.reason = "stop"   => t.exit > t.pos.bar /\ t.price = t.pos.stop
                              /\ StopHit(t.pos, bars[t.exit])
    /\ t.reason = "target" => t.exit > t.pos.bar /\ t.price = t.pos.target
                              /\ TargetHit(t.pos, bars[t.exit]) /\ ~StopHit(t.pos, bars[t.exit])
    /\ t.reason = "eod"    => pc = "done" /\ t.exit = Len(bars)
                              /\ Untouched(t.pos, Len(bars) + 1) /\ t.price = Last(bars).close

ExitsOnTouch ==
    /\ \A i \in DOMAIN trades : RightExit(trades[i])
    /\ position # None => Untouched(position, Len(bars) + 1)

\* Positions follow one another: the next one begins where the last one ended,
\* or later.
OneAtATime ==
    /\ \A i, j \in DOMAIN trades : i < j => trades[i].exit <= trades[j].pos.bar
    /\ pc # "done" /\ position # None =>
          \A i \in DOMAIN trades : trades[i].exit <= position.bar

\* No day sees more than max_trades_per_day entries, after the warm-up only.
DayCapped ==
    /\ \A p \in Entered : p.bar > Warmup
    /\ \A d \in 1..MaxDays : Cardinality({p \in Entered : bars[p.bar].day = d}) <= MaxPerDay

\* However bars, predictions and days follow one another, the trades are the
\* ones the rules give: one position at a time, never more entries in a day
\* than allowed, and each position left on the first bar that touches its stop
\* or its target, the stop first (engine.py:145-195, 284-299).
TradesFollowRules == ExitsOnTouch /\ OneAtATime /\ DayCapped
=============================================================================
