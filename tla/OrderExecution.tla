--------------------------- MODULE OrderExecution ---------------------------
(***************************************************************************)
(* One trading session as the order path sees it: the single engine thread *)
(* walks the watchlist, enters positions (bot/orders/executor.py), closes  *)
(* them at the end of the day, at a mode switch and at shutdown            *)
(* (bot/orders/eod_close.py), and records what it believes in the trades   *)
(* table, while the broker fills, cancels and rejects orders on its own    *)
(* time and SIGTERM or a crash may arrive between any two steps.           *)
(*                                                                         *)
(* The broker is external: its actions are what the code must expect.      *)
(* PromptBroker = TRUE is the friendly environment (calls succeed, a       *)
(* cancel is final when the call returns, a market order fills at once);   *)
(* FALSE lets calls fail, answers lag and cancels race fills.              *)
(***************************************************************************)
EXTENDS Integers, FiniteSets

CONSTANTS Symbols,       \* symbols a watchlist may hold
          EntrySides,    \* sides a signal may ask for, within {"BUY", "SELL"}
          Modes,         \* trading modes the settings table may name
          MaxPolls,      \* status polls in one wait: timeout / poll interval
          MaxOrders,     \* bound: broker orders in a behaviour
          MaxRows,       \* bound: trade rows in a behaviour
          MaxRestarts,   \* bound: process starts after the first
          PromptBroker,  \* the friendly broker described above
          DbMayFail      \* a swallowed database failure may lose an update

ASSUME SymbolsAssumption == IsFiniteSet(Symbols)
ASSUME SidesAssumption == EntrySides \subseteq {"BUY", "SELL"}
ASSUME ModesAssumption == Modes \subseteq {"paper", "live", "dryrun"}
ASSUME BoundsAssumption ==
    /\ MaxPolls \in Nat \ {0} /\ MaxOrders \in Nat
    /\ MaxRows \in Nat /\ MaxRestarts \in Nat
ASSUME FlagsAssumption == PromptBroker \in BOOLEAN /\ DbMayFail \in BOOLEAN

VARIABLES
    \* the bot process
    mode,       \* TradingEngine._trading_mode
    pc,         \* where the engine thread stands
    todo,       \* symbols this loop (watchlist or close-out) has left
    sym,        \* symbol being worked on
    row,        \* trade row of the entry in progress
    wait,       \* which order the wait loop watches: limit, market or close
    ord,        \* id of that order
    polls,      \* polls left before its deadline
    price,      \* the wait returned a fill price
    snap,       \* positions returned by get_positions at the start of a close
    after,      \* what follows the close: the next tick, a mode switch, exit
    target,     \* mode a pending switch leads to
    sold,       \* some result of this close is a success
    interrupt,  \* _shutdown_event and poll_interrupt, set together
    restarts,   \* process starts so far, after the first
    \* the trades table
    rows, lastRow,
    \* the broker
    orders, lastOrder, pos

loopVars   == <<todo, sym, row>>
waitVars   == <<wait, ord, polls, price>>
closeVars  == <<snap, after, target, sold>>
procVars   == <<mode, interrupt, restarts>>
dbVars     == <<rows, lastRow>>
brokerVars == <<orders, lastOrder, pos>>
vars == <<pc, loopVars, waitVars, closeVars, procVars, dbVars, brokerVars>>

RowIds   == 1..MaxRows
OrderIds == 1..MaxOrders
Signed(side, n) == IF side = "BUY" THEN n ELSE 0 - n

\* A trades row as it is created; its order id and prices are NULL.
NewRow(s, side, status) ==
    [sym |-> s, side |-> side, status |-> status, oid |-> 0,
     filledPrice |-> FALSE, exitPrice |-> FALSE, pnl |-> FALSE]
NoRow == NewRow("none", "BUY", "none")
NoOrder == [sym |-> "none", side |-> "BUY", qty |-> 0, row |-> 0,
            kind |-> "none", state |-> "none"]

Alive == {"working", "cancelling"}            \* may still fill at the broker
Blocking == {"pending", "open", "filled", "dryrun"}

-----------------------------------------------------------------------------
Init ==
    /\ mode \in Modes
    /\ pc = "idle" /\ todo = {} /\ sym = "none" /\ row = 0
    /\ wait = "limit" /\ ord = 0 /\ polls = 0 /\ price = FALSE
    /\ snap = [s \in Symbols |-> 0] /\ after = "tick" /\ target = mode /\ sold = FALSE
    /\ interrupt = FALSE /\ restarts = 0
    /\ rows = [r \in RowIds |-> NoRow] /\ lastRow = 0
    /\ orders = [o \in OrderIds |-> NoOrder] /\ lastOrder = 0
    /\ pos = [s \in Symbols |-> 0]

-----------------------------------------------------------------------------
(* The trades table. *)

\* _update_trade: the update commits, or its failure is logged and swallowed.
UpdateRow(r, new) ==
    \/ rows' = [rows EXCEPT ![r] = new] /\ UNCHANGED lastRow
    \/ DbMayFail /\ UNCHANGED dbVars

\* Mutant: a row that has not reached the broker does not block.
HasOpenPosition_pendingForgotten(s) ==
    \E r \in RowIds : rows[r].sym = s /\ rows[r].status \in Blocking \ {"pending"}

\* _has_open_position: any blocking row of the symbol in today's session.
HasOpenPosition(s) ==
    \E r \in RowIds : rows[r].sym = s /\ rows[r].status \in Blocking

\* Mutant: the newest row of the symbol, whatever its status.
OpenRows_anyStatus(s) == {r \in RowIds : rows[r].sym = s}

\* The rows _mark_trade_closed selects from; it takes the newest.
OpenRows(s) ==
    {r \in RowIds : rows[r].sym = s /\ rows[r].status \in {"open", "filled"}}

-----------------------------------------------------------------------------
(* The broker, as the code in src/ uses it. *)

\* A new order. A prompt broker fills a market order as it arrives.
PlaceOrder(s, side, qty, r, kind) ==
    LET now == PromptBroker /\ kind = "MKT" IN
    /\ lastOrder < MaxOrders
    /\ lastOrder' = lastOrder + 1
    /\ orders' = [orders EXCEPT ![lastOrder + 1] =
           [sym |-> s, side |-> side, qty |-> qty, row |-> r, kind |-> kind,
            state |-> IF now THEN "filled" ELSE "working"]]
    /\ pos' = IF now THEN [pos EXCEPT ![s] = @ + Signed(side, qty)] ELSE pos

\* The broker fills an order, a cancel request for it notwithstanding.
BrokerFill(o) ==
    /\ orders[o].state \in Alive
    /\ orders' = [orders EXCEPT ![o].state = "filled"]
    /\ pos' = [pos EXCEPT ![orders[o].sym] = @ + Signed(orders[o].side, orders[o].qty)]
    /\ UNCHANGED <<pc, loopVars, waitVars, closeVars, procVars, dbVars, lastOrder>>

\* The broker confirms a cancel, or rejects the order.
BrokerCancel(o) ==
    /\ orders[o].state \in Alive
    /\ orders' = [orders EXCEPT ![o].state = "cancelled"]
    /\ UNCHANGED <<pc, loopVars, waitVars, closeVars, procVars, dbVars, lastOrder, pos>>

-----------------------------------------------------------------------------
(* The watchlist loop and execute(). *)

\* Orders the engine may still need for the close that ends the process.
Reserve(n) == lastOrder + n + Cardinality(Symbols) <= MaxOrders

\* Mutant: the loop does not look at the shutdown event.
BeginTick_evenAfterShutdown ==
    /\ pc = "idle" /\ pc' = "tick"
    /\ UNCHANGED <<loopVars, waitVars, closeVars, procVars, dbVars, brokerVars>>

\* run() looks at the shutdown event here only; a tick under way when SIGTERM
\* arrives does all its work. This tick finds the mode unchanged.
BeginTick ==
    /\ pc = "idle" /\ ~interrupt /\ pc' = "tick"
    /\ UNCHANGED <<loopVars, waitVars, closeVars, procVars, dbVars, brokerVars>>

\* The tick returns early (no trading day, market closed, opening buffer, no
\* approval), has nothing on its watchlist, closes in dryrun, or raises.
SkipTick ==
    /\ pc = "tick" /\ pc' = "idle"
    /\ UNCHANGED <<loopVars, waitVars, closeVars, procVars, dbVars, brokerVars>>

\* A tick reaches _run_signals with a non-empty watchlist.
StartSignals(watchlist) ==
    /\ pc = "tick" /\ watchlist # {}
    /\ todo' = watchlist
    /\ pc' = "signals"
    /\ UNCHANGED <<sym, row, waitVars, closeVars, procVars, dbVars, brokerVars>>

\* No trade for the symbol: blocked by an open position, no bars, no signal,
\* rejected by the risk manager, or its row could not be created.
SkipSymbol(s) ==
    /\ pc = "signals" /\ s \in todo
    /\ todo' = todo \ {s}
    /\ UNCHANGED <<pc, sym, row, waitVars, closeVars, procVars, dbVars, brokerVars>>

EndSignals ==
    /\ pc = "signals" /\ todo = {}
    /\ pc' = "idle"
    /\ UNCHANGED <<loopVars, waitVars, closeVars, procVars, dbVars, brokerVars>>

\* Mutant: the mode is not looked at once the row exists.
EnterSymbol_anyMode(s, side) ==
    /\ pc = "signals" /\ s \in todo
    /\ ~HasOpenPosition(s)
    /\ lastRow < MaxRows /\ Reserve(2)
    /\ lastRow' = lastRow + 1
    /\ rows' = [rows EXCEPT ![lastRow + 1] = NewRow(s, side, "pending")]
    /\ row' = lastRow + 1 /\ sym' = s /\ todo' = todo \ {s}
    /\ pc' = "limit"
    /\ UNCHANGED <<waitVars, closeVars, procVars, brokerVars>>

\* An approved signal: the trade row is committed before any order is sent.
EnterSymbol(s, side) ==
    /\ pc = "signals" /\ s \in todo
    /\ ~HasOpenPosition(s)
    /\ lastRow < MaxRows /\ Reserve(2)
    /\ lastRow' = lastRow + 1
    /\ rows' = [rows EXCEPT ![lastRow + 1] = NewRow(s, side, "pending")]
    /\ row' = lastRow + 1 /\ sym' = s /\ todo' = todo \ {s}
    /\ pc' = IF mode = "dryrun" THEN "dryrun" ELSE "limit"
    /\ UNCHANGED <<waitVars, closeVars, procVars, brokerVars>>

\* Dryrun: the order is logged, its row says so, nothing is sent.
LogDryrun ==
    /\ pc = "dryrun"
    /\ UpdateRow(row, [rows[row] EXCEPT !.status = "dryrun", !.filledPrice = TRUE])
    /\ pc' = "signals"
    /\ UNCHANGED <<loopVars, waitVars, closeVars, procVars, brokerVars>>

\* The wait loop starts on a new order.
StartWait(kind) ==
    /\ wait' = kind /\ ord' = lastOrder + 1 /\ polls' = MaxPolls /\ price' = FALSE

PlaceLimit ==
    /\ pc = "limit"
    /\ PlaceOrder(sym, rows[row].side, 1, row, "LMT")
    /\ StartWait("limit")
    /\ pc' = "placed"
    /\ UNCHANGED <<loopVars, closeVars, procVars, dbVars>>

PlaceLimitFails ==
    /\ pc = "limit" /\ ~PromptBroker
    /\ pc' = "failed"
    /\ UNCHANGED <<loopVars, waitVars, closeVars, procVars, dbVars, brokerVars>>

\* The row learns the broker's order id; the wait loop starts.
RecordOpen ==
    /\ pc = "placed"
    /\ UpdateRow(row, [rows[row] EXCEPT !.status = "open", !.oid = ord])
    /\ pc' = "poll"
    /\ UNCHANGED <<loopVars, waitVars, closeVars, procVars, brokerVars>>

\* Mutant: the limit order is left at the broker.
CancelLimit_skipped ==
    /\ pc = "cancel" /\ pc' = "market"
    /\ UNCHANGED <<loopVars, waitVars, closeVars, procVars, dbVars, brokerVars>>

\* Timeout: the limit order is cancelled. A failed call is only logged; a
\* request sent is final only with a prompt broker.
CancelLimit ==
    /\ pc = "cancel"
    /\ \/ /\ orders[ord].state = "working"
          /\ orders' = [orders EXCEPT ![ord].state =
                            IF PromptBroker THEN "cancelled" ELSE "cancelling"]
       \/ /\ orders[ord].state # "working" \/ ~PromptBroker
          /\ UNCHANGED orders
    /\ pc' = "market"
    /\ UNCHANGED <<loopVars, waitVars, closeVars, procVars, dbVars, lastOrder, pos>>

\* The market order that replaces the limit order.
PlaceMarket ==
    /\ pc = "market"
    /\ PlaceOrder(sym, rows[row].side, 1, row, "MKT")
    /\ StartWait("market")
    /\ pc' = "poll"
    /\ UNCHANGED <<loopVars, closeVars, procVars, dbVars>>

\* Mutant: a failed fallback starts the entry over.
PlaceMarketFails_retry ==
    /\ pc = "market" /\ ~PromptBroker
    /\ pc' = "limit"
    /\ UNCHANGED <<loopVars, waitVars, closeVars, procVars, dbVars, brokerVars>>

PlaceMarketFails ==
    /\ pc = "market" /\ ~PromptBroker
    /\ pc' = "failed"
    /\ UNCHANGED <<loopVars, waitVars, closeVars, procVars, dbVars, brokerVars>>

\* Mutant: the row keeps the id of the cancelled limit order.
RecordFill_limitId ==
    /\ pc = "fill"
    /\ UpdateRow(row, [rows[row] EXCEPT !.status = "filled", !.filledPrice = TRUE])
    /\ pc' = "signals"
    /\ UNCHANGED <<loopVars, waitVars, closeVars, procVars, brokerVars>>

\* The fill is recorded; after the fallback the row names the market order.
RecordFill ==
    /\ pc = "fill"
    /\ UpdateRow(row, [rows[row] EXCEPT !.status = "filled", !.filledPrice = TRUE,
                          !.oid = IF wait = "market" THEN ord ELSE @])
    /\ pc' = "signals"
    /\ UNCHANGED <<loopVars, waitVars, closeVars, procVars, brokerVars>>

RecordError ==
    /\ pc = "failed"
    /\ UpdateRow(row, [rows[row] EXCEPT !.status = "error"])
    /\ pc' = "signals"
    /\ UNCHANGED <<loopVars, waitVars, closeVars, procVars, brokerVars>>

-----------------------------------------------------------------------------
(* _wait_for_fill, on the order "ord". *)

\* Where the caller continues when the wait ends with or without a price.
WaitEnds(gotPrice) ==
    /\ price' = gotPrice
    /\ pc' = CASE wait = "close"              -> "closed"
               [] wait # "close" /\ gotPrice  -> "fill"
               [] wait = "limit" /\ ~gotPrice -> "cancel"
               [] OTHER                       -> "failed"

\* What a status poll may tell: the order's state; from a lagging broker an
\* error or an earlier state, or "Inactive" for a completed order that a
\* reconnect dropped from the client's list.
MaySee(s) ==
    \/ orders[ord].state = s
    \/ s = "working" /\ (~PromptBroker \/ orders[ord].state = "cancelling")
    \/ s = "cancelled" /\ ~PromptBroker /\ orders[ord].state = "filled"

PollFilled ==
    /\ pc = "poll" /\ polls > 0 /\ MaySee("filled")
    /\ WaitEnds(TRUE)
    /\ UNCHANGED <<wait, ord, polls, loopVars, closeVars, procVars, dbVars, brokerVars>>

PollDead ==
    /\ pc = "poll" /\ polls > 0 /\ MaySee("cancelled")
    /\ WaitEnds(FALSE)
    /\ UNCHANGED <<wait, ord, polls, loopVars, closeVars, procVars, dbVars, brokerVars>>

\* Mutant: the time spent is not counted.
PollAgain_uncounted ==
    /\ pc = "poll" /\ polls > 0 /\ MaySee("working") /\ ~interrupt
    /\ UNCHANGED vars

PollAgain ==
    /\ pc = "poll" /\ polls > 0 /\ MaySee("working") /\ ~interrupt
    /\ polls' = polls - 1
    /\ UNCHANGED <<pc, wait, ord, price, loopVars, closeVars, procVars, dbVars, brokerVars>>

PollInterrupted ==
    /\ pc = "poll" /\ polls > 0 /\ MaySee("working") /\ interrupt
    /\ WaitEnds(FALSE)
    /\ UNCHANGED <<wait, ord, polls, loopVars, closeVars, procVars, dbVars, brokerVars>>

PollDeadline ==
    /\ pc = "poll" /\ polls = 0
    /\ WaitEnds(FALSE)
    /\ UNCHANGED <<wait, ord, polls, loopVars, closeVars, procVars, dbVars, brokerVars>>

-----------------------------------------------------------------------------
(* close_all_positions() and what its three callers do afterwards. *)

\* The callers: the end-of-day window of a tick, a tick that begins with a mode
\* switch, and run() once the shutdown event is set.
CloseReason(why, newMode) ==
    \/ /\ why = "tick" /\ pc = "tick" /\ newMode = mode
       /\ Reserve(Cardinality(Symbols))
    \/ /\ why = "switch" /\ pc = "idle" /\ ~interrupt /\ newMode \in Modes \ {mode}
       /\ Reserve(Cardinality(Symbols))
    \/ why = "exit" /\ pc = "idle" /\ interrupt /\ newMode = mode

\* Outside dryrun the broker's positions are read once, then walked.
StartClose(why, newMode) ==
    /\ mode # "dryrun"
    /\ CloseReason(why, newMode)
    /\ after' = why /\ target' = newMode /\ sold' = FALSE
    /\ \/ snap' = pos
       \/ ~PromptBroker /\ snap' = [s \in Symbols |-> 0]   \* get_positions failed
    /\ todo' = {s \in Symbols : snap'[s] # 0}
    /\ pc' = "closing"
    /\ UNCHANGED <<sym, row, waitVars, procVars, dbVars, brokerVars>>

\* Dryrun holds nothing to close: the engine switches or exits at once.
StartCloseDryrun(why, newMode) ==
    /\ mode = "dryrun" /\ why # "tick"
    /\ CloseReason(why, newMode)
    /\ after' = why /\ target' = newMode /\ sold' = FALSE
    /\ pc' = "settled"
    /\ UNCHANGED <<loopVars, waitVars, snap, procVars, dbVars, brokerVars>>

\* Mutant: a symbol stays on the list once its close is sent.
PlaceClose_again(s) ==
    /\ pc = "closing" /\ s \in todo
    /\ PlaceOrder(s, IF snap[s] > 0 THEN "SELL" ELSE "BUY",
                  IF snap[s] > 0 THEN snap[s] ELSE 0 - snap[s], 0, "MKT")
    /\ StartWait("close")
    /\ sym' = s
    /\ pc' = "poll"
    /\ UNCHANGED <<todo, row, closeVars, procVars, dbVars>>

PlaceClose(s) ==
    /\ pc = "closing" /\ s \in todo
    /\ PlaceOrder(s, IF snap[s] > 0 THEN "SELL" ELSE "BUY",
                  IF snap[s] > 0 THEN snap[s] ELSE 0 - snap[s], 0, "MKT")
    /\ StartWait("close")
    /\ sym' = s /\ todo' = todo \ {s}
    /\ pc' = "poll"
    /\ UNCHANGED <<row, closeVars, procVars, dbVars>>

PlaceCloseFails(s) ==
    /\ pc = "closing" /\ s \in todo /\ ~PromptBroker
    /\ todo' = todo \ {s}
    /\ UNCHANGED <<pc, sym, row, waitVars, closeVars, procVars, dbVars, brokerVars>>

\* Mutant: the P&L is booked without the entry's fill price.
MarkClosed_noEntryPrice ==
    /\ pc = "closed"
    /\ \/ OpenRows(sym) = {} /\ UNCHANGED dbVars
       \/ \E r \in OpenRows(sym) :
              /\ \A q \in OpenRows(sym) : q <= r
              /\ UpdateRow(r, [rows[r] EXCEPT !.status = "closed", !.exitPrice = price,
                                  !.pnl = price])
    /\ sold' = (sold \/ price)
    /\ pc' = "closing"
    /\ UNCHANGED <<loopVars, waitVars, snap, after, target, procVars, brokerVars>>

\* _mark_trade_closed runs whether or not the close order was seen to fill.
MarkClosed ==
    /\ pc = "closed"
    /\ \/ OpenRows(sym) = {} /\ UNCHANGED dbVars
       \/ \E r \in OpenRows(sym) :
              /\ \A q \in OpenRows(sym) : q <= r
              /\ UpdateRow(r, [rows[r] EXCEPT !.status = "closed", !.exitPrice = price,
                                  !.pnl = price /\ rows[r].filledPrice])
    /\ sold' = (sold \/ price)
    /\ pc' = "closing"
    /\ UNCHANGED <<loopVars, waitVars, snap, after, target, procVars, brokerVars>>

\* Where run() or the tick goes on after each caller.
Onward == CASE after = "exit"   -> "stopped"
            [] after = "switch" -> "tick"
            [] after = "tick"   -> "idle"

\* Every position has been tried. After a success notify("trade_closed") formats
\* a pnl of None and raises, unless an alert setting is unreadable; the
\* exception abandons a mode switch (the tick goes on in the old mode), the rest
\* of the tick or of shutdown.
EndClose ==
    /\ pc = "closing" /\ todo = {}
    /\ pc' = "settled" \/ (sold /\ pc' = Onward)
    /\ UNCHANGED <<loopVars, waitVars, closeVars, procVars, dbVars, brokerVars>>

\* The caller continues: the tick returns, the switch connects its new broker
\* (or falls back to dryrun) and its tick goes on, or run() returns and the
\* process exits.
Settle ==
    /\ pc = "settled"
    /\ IF after = "switch" THEN mode' \in {target, "dryrun"} ELSE UNCHANGED mode
    /\ pc' = Onward
    /\ UNCHANGED <<loopVars, waitVars, closeVars, interrupt, restarts, dbVars, brokerVars>>

-----------------------------------------------------------------------------
(* The process. *)

\* SIGTERM or SIGINT: request_shutdown() and poll_interrupt.set().
Sigterm ==
    /\ pc \notin {"down", "stopped"} /\ ~interrupt
    /\ interrupt' = TRUE
    /\ UNCHANGED <<pc, mode, restarts, loopVars, waitVars, closeVars, dbVars, brokerVars>>

\* Where the thread may be inside a call that has no time limit: the client's
\* RequestTimeout is never set, so that the first use of a contract and the
\* account summary wait for the gateway's answer however long it is silent
\* (broker.py:190, 363: in a scan or in the fetches and alerts of a tick, between
\* two symbols, before a close order), and smtplib has no timeout (notifier.py:176:
\* the alerts after a fill and after a close).
Untimed == {"tick", "signals", "closing", "settled"}

\* Such a call is never answered.
Hang ==
    /\ pc \in Untimed /\ pc' = "hung"
    /\ UNCHANGED <<loopVars, waitVars, closeVars, procVars, dbVars, brokerVars>>

\* The process dies between two steps; the table and the broker remain.
Crash ==
    /\ pc \notin {"down", "stopped"} /\ restarts < MaxRestarts
    /\ pc' = "down"
    /\ UNCHANGED <<loopVars, waitVars, closeVars, procVars, dbVars, brokerVars>>

\* systemd or the operator starts it again; main() reads the mode anew.
Restart ==
    /\ pc \in {"down", "stopped"} /\ restarts < MaxRestarts /\ Reserve(0)
    /\ restarts' = restarts + 1
    /\ mode' \in Modes
    /\ pc' = "idle" /\ todo' = {} /\ sym' = "none" /\ row' = 0
    /\ wait' = "limit" /\ ord' = 0 /\ polls' = 0 /\ price' = FALSE
    /\ snap' = [s \in Symbols |-> 0] /\ after' = "tick" /\ target' = mode' /\ sold' = FALSE
    /\ interrupt' = FALSE
    /\ UNCHANGED <<dbVars, brokerVars>>

-----------------------------------------------------------------------------
Entry ==
    \/ BeginTick \/ SkipTick
    \/ \E w \in SUBSET Symbols : StartSignals(w)
    \/ \E s \in Symbols : SkipSymbol(s)
    \/ \E s \in Symbols, side \in EntrySides : EnterSymbol(s, side)
    \/ EndSignals \/ LogDryrun
    \/ PlaceLimit \/ PlaceLimitFails \/ RecordOpen \/ CancelLimit
    \/ PlaceMarket \/ PlaceMarketFails \/ RecordFill \/ RecordError

Poll == PollFilled \/ PollDead \/ PollAgain \/ PollInterrupted \/ PollDeadline

Close ==
    \/ \E why \in {"tick", "switch", "exit"}, m \in Modes :
           StartClose(why, m) \/ StartCloseDryrun(why, m)
    \/ \E s \in Symbols : PlaceClose(s) \/ PlaceCloseFails(s)
    \/ MarkClosed \/ EndClose \/ Settle

Engine == Entry \/ Poll \/ Close
Broker == \E o \in OrderIds : BrokerFill(o) \/ BrokerCancel(o)
Process == Sigterm \/ Hang \/ Crash \/ Restart

Next == Engine \/ Broker \/ Process

Spec == Init /\ [][Next]_vars

\* The thread runs on; Hang, which keeps it for ever, is the environment's choice.
FairSpec == Spec /\ WF_vars(Engine)

-----------------------------------------------------------------------------
(* Properties. *)

PCs == {"idle", "tick", "signals", "dryrun", "limit", "placed", "poll", "cancel", "market",
        "fill", "failed", "closing", "closed", "settled", "hung", "down", "stopped"}
Statuses == {"none", "pending", "open", "filled", "closed", "error", "dryrun"}
Names == Symbols \cup {"none"}
RowType == [sym : Names, side : {"BUY", "SELL"}, status : Statuses, oid : 0..MaxOrders,
            filledPrice : BOOLEAN, exitPrice : BOOLEAN, pnl : BOOLEAN]
OrderType == [sym : Names, side : {"BUY", "SELL"}, qty : Nat, row : 0..MaxRows,
              kind : {"none", "LMT", "MKT"},
              state : {"none", "working", "cancelling", "filled", "cancelled"}]

\* Type invariant of the process, the trades table and the broker.
TypeOK ==
    /\ mode \in Modes \cup {"dryrun"} /\ target \in Modes \cup {"dryrun"}
    /\ pc \in PCs /\ todo \subseteq Symbols /\ sym \in Names /\ row \in 0..MaxRows
    /\ wait \in {"limit", "market", "close"} /\ ord \in 0..MaxOrders
    /\ polls \in 0..MaxPolls /\ price \in BOOLEAN
    /\ snap \in [Symbols -> Int] /\ after \in {"tick", "switch", "exit"}
    /\ sold \in BOOLEAN /\ interrupt \in BOOLEAN /\ restarts \in 0..MaxRestarts
    /\ rows \in [RowIds -> RowType] /\ lastRow \in 0..MaxRows
    /\ orders \in [OrderIds -> OrderType] /\ lastOrder \in 0..MaxOrders
    /\ pos \in [Symbols -> Int]

EntryOrders(r) == {o \in OrderIds : orders[o].kind # "none" /\ orders[o].row = r}
Flat == \A s \in Symbols : pos[s] = 0
Quiet == \A o \in OrderIds : orders[o].state \notin Alive

\* A trade row that carries a fill price stands for an order of its own that
\* the broker filled, and the order id it stores, if it stores one, is the id
\* of that order: not the limit order that was cancelled before the fallback
\* (executor.py:253-273, 299-317), whatever failed or crashed in between.
FillsAreReal ==
    \A r \in RowIds : rows[r].filledPrice /\ rows[r].status # "dryrun" =>
        /\ \E o \in EntryOrders(r) : orders[o].state = "filled"
        /\ rows[r].oid # 0 =>
              orders[rows[r].oid].row = r /\ orders[rows[r].oid].state = "filled"

\* A realised P&L, which the risk manager's daily-loss limit adds up, is booked
\* only when an entry order of the row and, after it, a close order of its
\* symbol were both filled (eod_close.py:184-190): never on a timed-out close
\* and never on an entry whose fill nobody recorded.
PnlBackedByFills ==
    \A r \in RowIds : rows[r].pnl =>
        \E e \in EntryOrders(r), c \in OrderIds :
            /\ orders[e].state = "filled" /\ orders[c].state = "filled"
            /\ orders[c].row = 0 /\ orders[c].sym = rows[r].sym /\ e < c

\* At most two orders are ever sent for one row, and the second is the market
\* order of the fallback: no retry, crash or restart re-sends an entry
\* (executor.py:219-297).
EntrySentOnce ==
    \A r \in RowIds \ {0} :
        \A o, p \in EntryOrders(r) : o < p =>
            /\ orders[o].kind = "LMT" /\ orders[p].kind = "MKT"
            /\ \A q \in EntryOrders(r) : q \in {o, p}

\* Nothing reaches the broker while the engine is in dryrun, also in the step
\* of a tick that follows a mode switch (executor.py:174-196, eod_close.py:48).
DryrunSendsNothing == [][mode = "dryrun" => lastOrder' = lastOrder]_vars

Moves == {<<"none", "pending">>, <<"pending", "open">>, <<"pending", "filled">>,
          <<"pending", "error">>, <<"pending", "dryrun">>, <<"open", "filled">>,
          <<"open", "error">>, <<"open", "closed">>, <<"filled", "closed">>}

\* A trade row only moves forward: closed, error and dryrun are final, and
\* nothing returns to pending or open, through failures, crashes and restarts
\* (models.py:78-80 and every update of the status in executor.py, eod_close.py).
RowsMoveForward ==
    [][\A r \in RowIds : rows'[r].status # rows[r].status =>
           <<rows[r].status, rows'[r].status>> \in Moves]_vars

\* With a prompt broker the check at engine.py:508 works: a row is created for a
\* symbol only while the account holds none of it and no order for it can
\* still fill, across crashes, restarts and lost table updates.
EntersFlatOnly ==
    [][lastRow' # lastRow /\ mode # "dryrun" =>
           /\ pos[sym'] = 0
           /\ \A o \in OrderIds : orders[o].sym = sym' => orders[o].state \notin Alive]_vars

Abs(n) == IF n < 0 THEN 0 - n ELSE n

\* With a prompt broker a close order, when it fills, makes a position smaller: it
\* never turns one round or opens one, because the snapshot it was sized from is
\* still right (eod_close.py:81-102).
ClosesOnlyReduce ==
    [][\A o \in OrderIds :
           /\ orders'[o].kind # "none" /\ orders'[o].row = 0
           /\ orders'[o].state = "filled" /\ orders[o].state # "filled"
           => LET s == orders'[o].sym IN Abs(pos'[s]) < Abs(pos[s])]_vars

\* With a prompt broker the first process, if it does not crash, leaves the
\* account flat with nothing left to fill when it has shut down and whenever it
\* stands in dryrun between or at the start of ticks after a switch
\* (engine.py:216-220, 673-675). After a
\* crash it does not: nothing looks for the orders of the earlier process.
NoOvernightExposure ==
    restarts = 0 /\ (pc = "stopped" \/ (pc \in {"idle", "tick"} /\ mode = "dryrun"))
        => Flat /\ Quiet

\* A tick, and every entry and close in it, comes to an end whatever the broker
\* fills, answers or lets time out (executor.py:341-372), unless one of the calls
\* without a limit is never answered: the waits, the fallback and the close do not
\* keep the thread.
TicksEnd == pc \notin {"idle", "down", "stopped"} ~> pc \in {"idle", "hung", "down", "stopped"}

\* SIGTERM ends the process, through the rest of the tick under way, its entries
\* and the final close, unless one of the calls without a limit is never answered
\* (engine.py:88-102, __main__.py:29-34).
ShutdownEnds == interrupt ~> pc \in {"hung", "down", "stopped"}

-----------------------------------------------------------------------------
(* What the documentation says and the code does not do. *)

\* executor.py sizes one entry of one row: a row's shares are bought once.
OneFillPerRow ==
    \A r \in RowIds : \A o, p \in EntryOrders(r) :
        orders[o].state = "filled" /\ orders[p].state = "filled" => o = p

=============================================================================
