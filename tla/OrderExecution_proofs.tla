------------------------ MODULE OrderExecution_proofs ------------------------
(***************************************************************************)
(* Theorems of OrderExecution for every set of symbols and every bound:    *)
(* type correctness, and the safety properties that hold whatever the      *)
(* broker does, from one inductive invariant; with a prompt broker, from a *)
(* second one, what may be live, held and left behind.                     *)
(***************************************************************************)
EXTENDS OrderExecution, TLAPS

-----------------------------------------------------------------------------
(* The inductive invariant. *)

Sending == {"limit", "placed", "cancel", "market", "fill", "failed"}
Entering == pc \in Sending \cup {"dryrun"} \/ (pc = "poll" /\ wait # "close")
Watching == pc \in {"placed", "cancel", "fill"} \/ (pc = "poll" /\ wait # "close")
OnLimit  == pc \in {"placed", "cancel", "market"} \/ (pc = "poll" /\ wait = "limit")

\* An entry in progress has its row.
RowKnown == Entering => row \in RowIds

\* Orders are numbered from 1 without gaps; unused slots are empty.
OrderInv ==
    \A o \in OrderIds :
        /\ o > lastOrder => orders[o] = NoOrder
        /\ o <= lastOrder => orders[o].kind # "none" /\ orders[o].state # "none"
        /\ orders[o].row <= lastRow

\* So are rows; the order id a row stores is the id of one of its orders.
RowInv ==
    \A r \in RowIds :
        /\ r > lastRow => rows[r] = NoRow
        /\ rows[r].oid <= lastOrder
        /\ rows[r].oid # 0 => orders[rows[r].oid].row = r

\* What the engine thread knows where it stands.
LocalInv ==
    /\ Entering => row \in RowIds /\ row <= lastRow /\ ~rows[row].filledPrice
    /\ pc \in {"dryrun", "limit", "placed"} => rows[row].status = "pending"
    /\ Entering => rows[row].status \in {"pending", "open"}
    /\ pc \in {"dryrun", "limit"} => EntryOrders(row) = {} /\ rows[row].oid = 0
    /\ Watching => ord \in OrderIds /\ ord <= lastOrder /\ orders[ord].row = row
    /\ OnLimit => /\ ord \in OrderIds /\ EntryOrders(row) = {ord}
                  /\ orders[ord].kind = "LMT" /\ rows[row].oid \in {0, ord}
    /\ pc = "placed" => wait = "limit"
    /\ pc = "fill" => /\ orders[ord].state = "filled" /\ wait # "close"
                      /\ wait = "limit" => rows[row].oid \in {0, ord}
    /\ (pc = "poll" /\ wait = "close") \/ pc = "closed" =>
          ord \in OrderIds /\ ord = lastOrder /\ orders[ord].row = 0 /\ orders[ord].sym = sym
    /\ pc = "closed" /\ price => orders[ord].state = "filled"
    /\ pc \in Sending \cup {"poll", "closing", "closed"} => mode # "dryrun"

DataInv == OrderInv /\ RowInv /\ FillsAreReal /\ PnlBackedByFills /\ EntrySentOnce
IInv == TypeOK /\ RowKnown /\ DataInv /\ LocalInv
-----------------------------------------------------------------------------
(* Type correctness. *)

USE SidesAssumption, ModesAssumption, BoundsAssumption, FlagsAssumption
    DEF RowIds, OrderIds, Names, PCs, Statuses

LEMMA EmptyRecords == NoRow \in RowType /\ NoOrder \in OrderType
BY DEF NoRow, NewRow, NoOrder, RowType, OrderType

\* A row update keeps the table's type when the row written has the row type.
LEMMA UpdateRowType ==
    ASSUME NEW STATE r, NEW STATE new, r \in RowIds => new \in RowType,
           TypeOK, UpdateRow(r, new)
    PROVE  rows' \in [RowIds -> RowType] /\ lastRow' = lastRow
<1>1. rows \in [RowIds -> RowType]
  BY DEF TypeOK
<1>2. CASE r \in RowIds
  BY <1>1, <1>2 DEF UpdateRow, dbVars
<1>3. CASE r \notin RowIds
  BY <1>1, <1>3, Zenon DEF UpdateRow, dbVars
<1>4. QED
  BY <1>2, <1>3

\* A fill of d shares keeps the type of the positions.
LEMMA FillType ==
    ASSUME NEW STATE s, s \in Names, NEW STATE d, d \in Int, TypeOK
    PROVE  [pos EXCEPT ![s] = @ + d] \in [Symbols -> Int]
<1>1. pos \in [Symbols -> Int]
  BY DEF TypeOK
<1>2. CASE s \in Symbols
  <2>1. pos[s] + d \in Int
    BY <1>1, <1>2
  <2>2. QED
    BY <1>1, <1>2, <2>1
<1>3. CASE s \notin Symbols
  BY <1>1, <1>3, Zenon
<1>4. QED
  BY <1>2, <1>3

\* A new order keeps the types of the broker's state.
LEMMA PlaceOrderType ==
    ASSUME NEW STATE s, s \in Names, NEW STATE side, side \in {"BUY", "SELL"},
           NEW STATE qty, qty \in Nat, NEW STATE r, r \in 0..MaxRows,
           NEW CONSTANT kind \in {"LMT", "MKT"},
           TypeOK, PlaceOrder(s, side, qty, r, kind)
    PROVE  /\ orders' \in [OrderIds -> OrderType] /\ lastOrder' \in 0..MaxOrders
           /\ pos' \in [Symbols -> Int] /\ lastOrder' = lastOrder + 1
           /\ lastOrder + 1 \in OrderIds
<1>1. lastOrder + 1 \in OrderIds /\ lastOrder' = lastOrder + 1
  BY DEF PlaceOrder, TypeOK
<1>2. orders' \in [OrderIds -> OrderType]
  BY <1>1 DEF PlaceOrder, TypeOK, OrderType
<1>3. pos' \in [Symbols -> Int]
  <2>1. Signed(side, qty) \in Int
    BY DEF Signed
  <2>2. pos' = pos \/ pos' = [pos EXCEPT ![s] = @ + Signed(side, qty)]
    BY DEF PlaceOrder
  <2>3. QED
    BY <2>1, <2>2, FillType DEF TypeOK
<1>4. QED
  BY <1>1, <1>2, <1>3

\* So does the order of an entry, for one share of the row's symbol.
LEMMA PlaceEntryType ==
    ASSUME TypeOK, row \in RowIds, NEW CONSTANT kind \in {"LMT", "MKT"},
           PlaceOrder(sym, rows[row].side, 1, row, kind)
    PROVE  /\ orders' \in [OrderIds -> OrderType] /\ lastOrder' \in 0..MaxOrders
           /\ pos' \in [Symbols -> Int] /\ lastOrder' = lastOrder + 1
           /\ lastOrder + 1 \in OrderIds
<1>1. sym \in Names /\ row \in 0..MaxRows /\ rows[row].side \in {"BUY", "SELL"}
  BY DEF TypeOK, RowType
<1>2. lastOrder + 1 \in OrderIds /\ lastOrder' = lastOrder + 1
  BY DEF PlaceOrder, TypeOK
<1>3. orders' \in [OrderIds -> OrderType]
  <2>1. orders \in [OrderIds -> OrderType]
    BY DEF TypeOK
  <2>2. PICK st \in {"filled", "working"} : orders' = [orders EXCEPT ![lastOrder + 1] =
            [sym |-> sym, side |-> rows[row].side, qty |-> 1, row |-> row, kind |-> kind,
             state |-> st]]
    BY DEF PlaceOrder
  <2>3. [sym |-> sym, side |-> rows[row].side, qty |-> 1, row |-> row, kind |-> kind,
         state |-> st] \in OrderType
    BY <1>1 DEF OrderType
  <2>4. QED
    BY <1>2, <2>1, <2>2, <2>3
<1>4. pos' \in [Symbols -> Int]
  <2>1. Signed(rows[row].side, 1) \in Int
    BY DEF Signed
  <2>2. pos' = pos \/ pos' = [pos EXCEPT ![sym] = @ + Signed(rows[row].side, 1)]
    BY DEF PlaceOrder
  <2>3. QED
    BY <1>1, <2>1, <2>2, FillType DEF TypeOK
<1>5. QED
  BY <1>2, <1>3, <1>4

\* A change of one order's state keeps the orders' type.
LEMMA OrderStateType ==
    ASSUME NEW STATE o,
           NEW CONSTANT st \in {"none", "working", "cancelling", "filled", "cancelled"},
           TypeOK
    PROVE  [orders EXCEPT ![o].state = st] \in [OrderIds -> OrderType]
<1>1. orders \in [OrderIds -> OrderType]
  BY DEF TypeOK
<1>2. CASE o \in OrderIds
  <2>1. [orders[o] EXCEPT !.state = st] \in OrderType
    BY <1>1, <1>2 DEF OrderType
  <2>2. QED
    BY <1>1, <2>1
<1>3. CASE o \notin OrderIds
  BY <1>1, <1>3, Zenon
<1>4. QED
  BY <1>2, <1>3

\* A wait that starts on the next order is well typed.
LEMMA StartWaitType ==
    ASSUME NEW CONSTANT kind \in {"limit", "market", "close"},
           TypeOK, lastOrder + 1 \in OrderIds, StartWait(kind)
    PROVE  /\ wait' \in {"limit", "market", "close"} /\ ord' \in 0..MaxOrders
           /\ polls' \in 0..MaxPolls /\ price' \in BOOLEAN
<1>1. ord' \in 0..MaxOrders
  BY DEF StartWait, TypeOK
<1>2. polls' \in 0..MaxPolls
  BY DEF StartWait
<1>3. QED
  BY <1>1, <1>2 DEF StartWait

\* After a close the thread goes on between ticks, in its tick or not at all.
LEMMA OnwardPlaces == TypeOK => Onward \in {"idle", "tick", "stopped"}
BY DEF TypeOK, Onward

LEMMA InitType == Init => TypeOK /\ RowKnown
<1> SUFFICES ASSUME Init PROVE TypeOK /\ RowKnown
  OBVIOUS
<1>1. pc \in PCs /\ todo \subseteq Symbols /\ sym \in Names /\ row \in 0..MaxRows
  BY DEF Init
<1>2. /\ wait \in {"limit", "market", "close"} /\ price \in BOOLEAN
      /\ after \in {"tick", "switch", "exit"} /\ sold \in BOOLEAN /\ interrupt \in BOOLEAN
  BY DEF Init
<1>3. ord \in 0..MaxOrders /\ polls \in 0..MaxPolls /\ restarts \in 0..MaxRestarts
  BY DEF Init
<1>4. snap \in [Symbols -> Int] /\ pos \in [Symbols -> Int]
  BY DEF Init
<1>5. rows \in [RowIds -> RowType] /\ lastRow \in 0..MaxRows
  BY EmptyRecords DEF Init
<1>6. orders \in [OrderIds -> OrderType] /\ lastOrder \in 0..MaxOrders
  BY EmptyRecords DEF Init
<1>7. mode \in Modes \cup {"dryrun"} /\ target \in Modes \cup {"dryrun"}
  BY DEF Init
<1>8. RowKnown
  BY DEF Init, RowKnown, Entering, Sending
<1>9. QED
  BY <1>1, <1>2, <1>3, <1>4, <1>5, <1>6, <1>7, <1>8 DEF TypeOK

LEMMA NextType == TypeOK /\ RowKnown /\ [Next]_vars => TypeOK' /\ RowKnown'
<1> SUFFICES ASSUME TypeOK, RowKnown, [Next]_vars PROVE TypeOK' /\ RowKnown'
  OBVIOUS
<1> USE DEF loopVars, waitVars, closeVars, procVars, dbVars, brokerVars
<1>1. ASSUME NEW w \in SUBSET Symbols, StartSignals(w) PROVE TypeOK' /\ RowKnown'
  BY <1>1 DEF StartSignals, TypeOK, RowKnown, Entering, Sending
<1>2. ASSUME NEW s \in Symbols, SkipSymbol(s) PROVE TypeOK' /\ RowKnown'
  BY <1>2 DEF SkipSymbol, TypeOK, RowKnown, Entering, Sending
<1>3. ASSUME NEW s \in Symbols, NEW side \in EntrySides, EnterSymbol(s, side)
      PROVE TypeOK' /\ RowKnown'
  <2>1. NewRow(s, side, "pending") \in RowType
    BY DEF NewRow, RowType
  <2>2. lastRow + 1 \in RowIds
    BY <1>3 DEF EnterSymbol, TypeOK
  <2>3. rows' \in [RowIds -> RowType]
    <3>1. rows \in [RowIds -> RowType] /\ rows' = [rows EXCEPT ![lastRow + 1] = NewRow(s, side, "pending")]
      BY <1>3 DEF EnterSymbol, TypeOK
    <3>2. QED
      BY <2>1, <2>2, <3>1
  <2>4. lastRow' \in 0..MaxRows /\ row' \in RowIds /\ row' \in 0..MaxRows
    BY <1>3, <2>2 DEF EnterSymbol
  <2>5. sym' \in Names /\ todo' \subseteq Symbols /\ pc' \in PCs
    BY <1>3 DEF EnterSymbol, TypeOK
  <2>6. UNCHANGED <<waitVars, closeVars, procVars, brokerVars>>
    BY <1>3 DEF EnterSymbol
  <2>7. TypeOK'
    BY <2>3, <2>4, <2>5, <2>6 DEF TypeOK
  <2>8. RowKnown'
    BY <2>4 DEF RowKnown
  <2>9. QED
    BY <2>7, <2>8
<1>4. CASE EndSignals \/ BeginTick \/ SkipTick \/ Hang
  <2>1. /\ pc' \in {"idle", "tick", "hung"}
        /\ UNCHANGED <<loopVars, waitVars, closeVars, procVars, dbVars, brokerVars>>
    BY <1>4 DEF EndSignals, BeginTick, SkipTick, Hang
  <2>2. TypeOK'
    BY <2>1 DEF TypeOK
  <2>3. RowKnown'
    BY <2>1 DEF RowKnown, Entering, Sending
  <2>4. QED
    BY <2>2, <2>3
<1>5. CASE LogDryrun
  <2>1. row \in RowIds => [rows[row] EXCEPT !.status = "dryrun", !.filledPrice = TRUE] \in RowType
    <3>1. row \in RowIds => rows[row] \in RowType
      BY DEF TypeOK
    <3>2. QED
      BY <3>1 DEF RowType
  <2>2. rows' \in [RowIds -> RowType] /\ lastRow' = lastRow
    <3> DEFINE new == [rows[row] EXCEPT !.status = "dryrun", !.filledPrice = TRUE]
    <3>1. UpdateRow(row, new)
      BY <1>5 DEF LogDryrun
    <3>2. row \in RowIds => new \in RowType
      BY <2>1
    <3> HIDE DEF new
    <3>3. QED
      BY <3>1, <3>2, UpdateRowType
  <2>3. QED
    BY <1>5, <2>2 DEF LogDryrun, TypeOK, RowKnown, Entering, Sending
<1>6. CASE PlaceLimit
  <2>1. row \in RowIds /\ rows[row].side \in {"BUY", "SELL"}
    BY <1>6 DEF PlaceLimit, TypeOK, RowType, RowKnown, Entering, Sending
  <2>2. /\ orders' \in [OrderIds -> OrderType] /\ lastOrder' \in 0..MaxOrders
        /\ pos' \in [Symbols -> Int] /\ lastOrder + 1 \in OrderIds
    <3>1. PlaceOrder(sym, rows[row].side, 1, row, "LMT")
      BY <1>6 DEF PlaceLimit
    <3>2. QED
      BY <2>1, <3>1, PlaceEntryType
  <2>3. QED
    BY <1>6, <2>1, <2>2, StartWaitType DEF PlaceLimit, TypeOK, RowKnown, Entering, Sending
<1>7. CASE PlaceLimitFails
  BY <1>7 DEF PlaceLimitFails, TypeOK, RowKnown, Entering, Sending
<1>8. CASE RecordOpen
  <2>1. row \in RowIds => [rows[row] EXCEPT !.status = "open", !.oid = ord] \in RowType
    <3>1. row \in RowIds => rows[row] \in RowType /\ ord \in 0..MaxOrders
      BY DEF TypeOK
    <3>2. QED
      BY <3>1 DEF RowType
  <2>2. rows' \in [RowIds -> RowType] /\ lastRow' = lastRow
    <3> DEFINE new == [rows[row] EXCEPT !.status = "open", !.oid = ord]
    <3>1. UpdateRow(row, new)
      BY <1>8 DEF RecordOpen
    <3>2. row \in RowIds => new \in RowType
      BY <2>1
    <3> HIDE DEF new
    <3>3. QED
      BY <3>1, <3>2, UpdateRowType
  <2>3. QED
    BY <1>8, <2>2 DEF RecordOpen, TypeOK, RowKnown, Entering, Sending
<1>9. CASE CancelLimit
  <2>1. orders' \in [OrderIds -> OrderType]
    <3>1. \/ orders' = [orders EXCEPT ![ord].state = "cancelled"]
          \/ orders' = [orders EXCEPT ![ord].state = "cancelling"]
          \/ orders' = orders
      BY <1>9 DEF CancelLimit
    <3>2. /\ [orders EXCEPT ![ord].state = "cancelled"] \in [OrderIds -> OrderType]
          /\ [orders EXCEPT ![ord].state = "cancelling"] \in [OrderIds -> OrderType]
      BY OrderStateType
    <3>3. QED
      BY <3>1, <3>2 DEF TypeOK
  <2>2. QED
    BY <1>9, <2>1 DEF CancelLimit, TypeOK, RowKnown, Entering, Sending
<1>10. CASE PlaceMarket
  <2>1. row \in RowIds /\ rows[row].side \in {"BUY", "SELL"}
    BY <1>10 DEF PlaceMarket, TypeOK, RowType, RowKnown, Entering, Sending
  <2>2. /\ orders' \in [OrderIds -> OrderType] /\ lastOrder' \in 0..MaxOrders
        /\ pos' \in [Symbols -> Int] /\ lastOrder + 1 \in OrderIds
    <3>1. PlaceOrder(sym, rows[row].side, 1, row, "MKT")
      BY <1>10 DEF PlaceMarket
    <3>2. QED
      BY <2>1, <3>1, PlaceEntryType
  <2>3. QED
    BY <1>10, <2>1, <2>2, StartWaitType DEF PlaceMarket, TypeOK, RowKnown, Entering, Sending
<1>11. CASE PlaceMarketFails
  BY <1>11 DEF PlaceMarketFails, TypeOK, RowKnown, Entering, Sending
<1>12. CASE RecordFill
  <2>1. row \in RowIds => [rows[row] EXCEPT !.status = "filled", !.filledPrice = TRUE,
                          !.oid = IF wait = "market" THEN ord ELSE @] \in RowType
    <3>1. SUFFICES ASSUME row \in RowIds
                   PROVE  [rows[row] EXCEPT !.status = "filled", !.filledPrice = TRUE,
                              !.oid = IF wait = "market" THEN ord ELSE @] \in RowType
      OBVIOUS
    <3>2. rows[row] \in RowType /\ ord \in 0..MaxOrders
      BY <3>1 DEF TypeOK
    <3>3. CASE wait = "market"
      BY <3>2, <3>3 DEF RowType
    <3>4. CASE wait # "market"
      BY <3>2, <3>4 DEF RowType
    <3>5. QED
      BY <3>3, <3>4
  <2>2. rows' \in [RowIds -> RowType] /\ lastRow' = lastRow
    <3> DEFINE new == [rows[row] EXCEPT !.status = "filled", !.filledPrice = TRUE, !.oid = IF wait = "market" THEN ord ELSE @]
    <3>1. UpdateRow(row, new)
      BY <1>12 DEF RecordFill
    <3>2. row \in RowIds => new \in RowType
      BY <2>1
    <3> HIDE DEF new
    <3>3. QED
      BY <3>1, <3>2, UpdateRowType
  <2>3. QED
    BY <1>12, <2>2 DEF RecordFill, TypeOK, RowKnown, Entering, Sending
<1>13. CASE RecordError
  <2>1. row \in RowIds => [rows[row] EXCEPT !.status = "error"] \in RowType
    <3>1. row \in RowIds => rows[row] \in RowType
      BY DEF TypeOK
    <3>2. QED
      BY <3>1 DEF RowType
  <2>2. rows' \in [RowIds -> RowType] /\ lastRow' = lastRow
    <3> DEFINE new == [rows[row] EXCEPT !.status = "error"]
    <3>1. UpdateRow(row, new)
      BY <1>13 DEF RecordError
    <3>2. row \in RowIds => new \in RowType
      BY <2>1
    <3> HIDE DEF new
    <3>3. QED
      BY <3>1, <3>2, UpdateRowType
  <2>3. QED
    BY <1>13, <2>2 DEF RecordError, TypeOK, RowKnown, Entering, Sending
<1>14. CASE PollFilled
  BY <1>14 DEF PollFilled, TypeOK, RowKnown, Entering, Sending, WaitEnds
<1>15. CASE PollDead
  BY <1>15 DEF PollDead, TypeOK, RowKnown, Entering, Sending, WaitEnds
<1>16. CASE PollAgain
  BY <1>16 DEF PollAgain, TypeOK, RowKnown, Entering, Sending
<1>17. CASE PollInterrupted
  BY <1>17 DEF PollInterrupted, TypeOK, RowKnown, Entering, Sending, WaitEnds
<1>18. CASE PollDeadline
  BY <1>18 DEF PollDeadline, TypeOK, RowKnown, Entering, Sending, WaitEnds
<1>19. ASSUME NEW why \in {"tick", "switch", "exit"}, NEW m \in Modes, StartClose(why, m)
      PROVE TypeOK' /\ RowKnown'
  <2>1. snap' \in [Symbols -> Int] /\ todo' \subseteq Symbols
    BY <1>19 DEF StartClose, CloseReason, TypeOK
  <2>2. QED
    BY <1>19, <2>1 DEF StartClose, CloseReason, TypeOK, RowKnown, Entering, Sending
<1>20. ASSUME NEW why \in {"tick", "switch", "exit"}, NEW m \in Modes, StartCloseDryrun(why, m)
      PROVE TypeOK' /\ RowKnown'
  BY <1>20 DEF StartCloseDryrun, CloseReason, TypeOK, RowKnown, Entering, Sending
<1>21. ASSUME NEW s \in Symbols, PlaceClose(s) PROVE TypeOK' /\ RowKnown'
  <2>1. /\ (IF snap[s] > 0 THEN "SELL" ELSE "BUY") \in {"BUY", "SELL"}
        /\ (IF snap[s] > 0 THEN snap[s] ELSE 0 - snap[s]) \in Nat
    BY DEF TypeOK
  <2>2. 0 \in 0..MaxRows /\ s \in Names
    OBVIOUS
  <2>3. /\ orders' \in [OrderIds -> OrderType] /\ lastOrder' \in 0..MaxOrders
        /\ pos' \in [Symbols -> Int] /\ lastOrder + 1 \in OrderIds
    BY <1>21, <2>1, <2>2, PlaceOrderType DEF PlaceClose
  <2>4. StartWait("close")
    BY <1>21 DEF PlaceClose
  <2>5. /\ wait' \in {"limit", "market", "close"} /\ ord' \in 0..MaxOrders
        /\ polls' \in 0..MaxPolls /\ price' \in BOOLEAN
    BY <2>3, <2>4, StartWaitType
  <2>6. todo' \subseteq Symbols /\ sym' \in Names /\ pc' = "poll" /\ wait' = "close"
    BY <1>21 DEF PlaceClose, StartWait, TypeOK
  <2>7. UNCHANGED <<row, snap, after, target, sold, mode, interrupt, restarts, rows, lastRow>>
    BY <1>21 DEF PlaceClose
  <2>8. RowKnown'
    BY <2>6 DEF RowKnown, Entering, Sending
  <2>9. QED
    BY <2>3, <2>5, <2>6, <2>7, <2>8 DEF TypeOK
<1>22. ASSUME NEW s \in Symbols, PlaceCloseFails(s) PROVE TypeOK' /\ RowKnown'
  BY <1>22 DEF PlaceCloseFails, TypeOK, RowKnown, Entering, Sending
<1>23. CASE MarkClosed
  <2>1. ASSUME NEW r \in RowIds
        PROVE  [rows[r] EXCEPT !.status = "closed", !.exitPrice = price,
                   !.pnl = price /\ rows[r].filledPrice] \in RowType
    <3>1. rows[r] \in RowType /\ price \in BOOLEAN
      BY DEF TypeOK
    <3>2. (price /\ rows[r].filledPrice) \in BOOLEAN
      BY <3>1 DEF RowType
    <3>3. QED
      BY <3>1, <3>2 DEF RowType
  <2>2. rows' \in [RowIds -> RowType] /\ lastRow' = lastRow
    BY <1>23, <2>1, UpdateRowType DEF MarkClosed, OpenRows, TypeOK
  <2>3. sold' \in BOOLEAN
    BY <1>23 DEF MarkClosed, TypeOK
  <2>4. QED
    BY <1>23, <2>2, <2>3 DEF MarkClosed, TypeOK, RowKnown, Entering, Sending
<1>24. CASE EndClose
  BY <1>24 DEF EndClose, Onward, TypeOK, RowKnown, Entering, Sending
<1>25. CASE Settle
  BY <1>25 DEF Settle, Onward, TypeOK, RowKnown, Entering, Sending
<1>26. ASSUME NEW o \in OrderIds, BrokerFill(o) PROVE TypeOK' /\ RowKnown'
  <2>1. orders' \in [OrderIds -> OrderType]
    BY <1>26, OrderStateType DEF BrokerFill
  <2>2. orders[o].sym \in Names /\ Signed(orders[o].side, orders[o].qty) \in Int
    BY DEF TypeOK, OrderType, Signed
  <2>3. pos' \in [Symbols -> Int]
    BY <1>26, <2>2, FillType DEF BrokerFill
  <2>4. QED
    BY <1>26, <2>1, <2>3, SMTT(20) DEF BrokerFill, TypeOK, RowKnown, Entering, Sending
<1>27. ASSUME NEW o \in OrderIds, BrokerCancel(o) PROVE TypeOK' /\ RowKnown'
  <2>1. orders' \in [OrderIds -> OrderType]
    BY <1>27, OrderStateType DEF BrokerCancel
  <2>2. QED
    BY <1>27, <2>1 DEF BrokerCancel, TypeOK, RowKnown, Entering, Sending
<1>28. CASE Sigterm
  BY <1>28 DEF Sigterm, TypeOK, RowKnown, Entering, Sending
<1>29. CASE Crash
  BY <1>29 DEF Crash, TypeOK, RowKnown, Entering, Sending
<1>30. CASE Restart
  <2>1. snap' \in [Symbols -> Int] /\ todo' \subseteq Symbols
    BY <1>30 DEF Restart
  <2>2. ord' \in 0..MaxOrders /\ polls' \in 0..MaxPolls /\ restarts' \in 0..MaxRestarts
    BY <1>30 DEF Restart, TypeOK
  <2>3. mode' \in Modes \cup {"dryrun"} /\ target' \in Modes \cup {"dryrun"}
    BY <1>30 DEF Restart
  <2>4. UNCHANGED <<rows, lastRow, orders, lastOrder, pos>>
    BY <1>30 DEF Restart
  <2>5. /\ pc' = "idle" /\ sym' = "none" /\ row' = 0 /\ wait' = "limit" /\ price' = FALSE
        /\ after' = "tick" /\ sold' = FALSE /\ interrupt' = FALSE
    BY <1>30 DEF Restart
  <2>6. RowKnown'
    BY <2>5 DEF RowKnown, Entering, Sending
  <2>7. /\ pc' \in PCs /\ sym' \in Names /\ wait' \in {"limit", "market", "close"}
        /\ after' \in {"tick", "switch", "exit"}
    BY <2>5, Zenon
  <2>8. price' \in BOOLEAN /\ sold' \in BOOLEAN /\ interrupt' \in BOOLEAN
    BY <2>5, Zenon
  <2>9. row' \in 0..MaxRows
    BY <2>5
  <2>10. QED
    BY <2>1, <2>2, <2>3, <2>4, <2>6, <2>7, <2>8, <2>9 DEF TypeOK
<1>31. CASE UNCHANGED vars
  BY <1>31 DEF vars, TypeOK, RowKnown, Entering, Sending
<1>32. QED
  BY <1>1, <1>2, <1>3, <1>4, <1>5, <1>6, <1>7, <1>8, <1>9, <1>10, <1>11, <1>12,
     <1>13, <1>14, <1>15, <1>16, <1>17, <1>18, <1>19, <1>20, <1>21, <1>22, <1>23, <1>24,
     <1>25, <1>26, <1>27, <1>28, <1>29, <1>30, <1>31
     DEF Next, Engine, Entry, Poll, Close, Broker, Process

\* The type invariant holds of every instance (every handler of executor.py and
\* eod_close.py, every broker answer, every crash).
THEOREM TypeCorrect == Spec => []TypeOK
<1>1. Spec => [](TypeOK /\ RowKnown)
  BY InitType, NextType, PTL DEF Spec
<1>2. QED
  BY <1>1, PTL
-----------------------------------------------------------------------------
(* What the steps do to the table and to the orders. *)

\* A step that touches neither keeps what is known of both.
LEMMA DataUnchanged ==
    DataInv /\ UNCHANGED <<rows, lastRow, orders, lastOrder>> => DataInv'
BY DEF DataInv, OrderInv, RowInv, FillsAreReal, PnlBackedByFills, EntrySentOnce, EntryOrders

\* A step that only moves an order between states, and never away from filled.
LEMMA DataStateChange ==
    ASSUME TypeOK, DataInv, UNCHANGED <<rows, lastRow, lastOrder>>,
           \A o \in OrderIds :
               /\ orders'[o].row = orders[o].row /\ orders'[o].kind = orders[o].kind
               /\ orders'[o].sym = orders[o].sym
               /\ orders[o].state = "filled" => orders'[o].state = "filled"
               /\ orders[o].state = "none" => orders'[o] = orders[o]
               /\ orders[o].state # "none" => orders'[o].state # "none"
    PROVE  DataInv'
<1>1. OrderInv'
  BY DEF DataInv, OrderInv, NoOrder
<1>2. RowInv'
  <2>1. \A r \in RowIds : rows[r].oid \in 0..MaxOrders
    BY DEF TypeOK, RowType
  <2>2. QED
    BY <2>1 DEF DataInv, RowInv
<1>3. \A r : EntryOrders(r)' = EntryOrders(r)
  <2>1. \A o \in OrderIds : orders'[o].row = orders[o].row /\ orders'[o].kind = orders[o].kind
    OBVIOUS
  <2>2. QED
    BY ONLY <2>1, Zenon DEF EntryOrders
<1>4. FillsAreReal'
  <2>1. ASSUME NEW r \in RowIds PROVE rows[r].oid \in 0..MaxOrders
    BY DEF TypeOK, RowType
  <2>2. QED
    BY <1>3, <2>1 DEF DataInv, FillsAreReal, EntryOrders
<1>5. PnlBackedByFills'
  <2>1. SUFFICES ASSUME NEW r \in RowIds, rows[r].pnl
                 PROVE  \E e \in EntryOrders(r)', c \in OrderIds :
                           /\ orders'[e].state = "filled" /\ orders'[c].state = "filled"
                           /\ orders'[c].row = 0 /\ orders'[c].sym = rows[r].sym /\ e < c
    BY DEF PnlBackedByFills
  <2>2. PICK e \in EntryOrders(r), c \in OrderIds :
            /\ orders[e].state = "filled" /\ orders[c].state = "filled"
            /\ orders[c].row = 0 /\ orders[c].sym = rows[r].sym /\ e < c
    BY <2>1 DEF DataInv, PnlBackedByFills
  <2>3. e \in OrderIds /\ e \in EntryOrders(r)'
    BY <1>3, <2>2 DEF EntryOrders
  <2>4. QED
    BY <2>2, <2>3
<1>6. EntrySentOnce'
  BY <1>3 DEF DataInv, EntrySentOnce, EntryOrders
<1>7. QED
  BY <1>1, <1>2, <1>4, <1>5, <1>6 DEF DataInv

\* A step that writes one row, or loses the write.
LEMMA DataRowUpdate ==
    ASSUME TypeOK, DataInv, UNCHANGED <<orders, lastOrder>>,
           NEW STATE r, r \in RowIds, r <= lastRow, NEW STATE new, UpdateRow(r, new),
           new.oid <= lastOrder, new.oid # 0 => orders[new.oid].row = r,
           new.filledPrice /\ new.status # "dryrun" =>
               /\ \E o \in EntryOrders(r) : orders[o].state = "filled"
               /\ new.oid # 0 => orders[new.oid].state = "filled",
           new.pnl => \E e \in EntryOrders(r), c \in OrderIds :
               /\ orders[e].state = "filled" /\ orders[c].state = "filled"
               /\ orders[c].row = 0 /\ orders[c].sym = new.sym /\ e < c
    PROVE  DataInv'
<1>1. CASE UNCHANGED dbVars
  BY <1>1, DataUnchanged DEF dbVars
<1>2. CASE rows' = [rows EXCEPT ![r] = new] /\ UNCHANGED lastRow
  <2>1. /\ \A q \in RowIds : q # r => rows'[q] = rows[q]
        /\ rows'[r] = new
    BY <1>2 DEF TypeOK
  <2>2. OrderInv' /\ EntrySentOnce'
    BY <1>2 DEF DataInv, OrderInv, EntrySentOnce, EntryOrders
  <2>3. RowInv'
    BY <1>2, <2>1 DEF DataInv, RowInv, TypeOK
  <2>4. \A q : EntryOrders(q)' = EntryOrders(q)
    BY DEF EntryOrders
  <2>5. FillsAreReal'
    BY <2>1, <2>4 DEF DataInv, FillsAreReal
  <2>6. PnlBackedByFills'
    BY <2>1, <2>4 DEF DataInv, PnlBackedByFills
  <2>7. QED
    BY <2>2, <2>3, <2>5, <2>6 DEF DataInv
<1>3. QED
  BY <1>1, <1>2 DEF UpdateRow

\* A new order takes the next id; every other order keeps its slot.
LEMMA NewOrder ==
    ASSUME NEW STATE s, NEW STATE side, NEW STATE qty, NEW STATE r, NEW CONSTANT kind,
           TypeOK, PlaceOrder(s, side, qty, r, kind)
    PROVE  /\ lastOrder + 1 \in OrderIds /\ lastOrder' = lastOrder + 1
           /\ \A o \in OrderIds : o # lastOrder + 1 => orders'[o] = orders[o]
           /\ orders'[lastOrder + 1].sym = s /\ orders'[lastOrder + 1].row = r
           /\ orders'[lastOrder + 1].kind = kind
           /\ orders'[lastOrder + 1].state \in {"filled", "working"}
<1>1. lastOrder + 1 \in OrderIds /\ lastOrder' = lastOrder + 1
  BY DEF PlaceOrder, TypeOK
<1>2. QED
  BY <1>1 DEF PlaceOrder, TypeOK

\* An order for no row, or for a row with no order yet, or the market order that
\* follows the limit order of its row.
LEMMA DataNewOrder ==
    ASSUME NEW STATE s, NEW STATE side, NEW STATE qty, NEW STATE r, r \in 0..lastRow,
           NEW CONSTANT kind \in {"LMT", "MKT"},
           TypeOK, DataInv, PlaceOrder(s, side, qty, r, kind), UNCHANGED <<rows, lastRow>>,
           \/ r = 0
           \/ EntryOrders(r) = {}
           \/ kind = "MKT" /\ \E o \in OrderIds : EntryOrders(r) = {o} /\ orders[o].kind = "LMT"
    PROVE  /\ DataInv'
           /\ \A q : q # r => EntryOrders(q)' = EntryOrders(q)
           /\ \A q : q = r => EntryOrders(q)' = EntryOrders(q) \cup {lastOrder + 1}
<1> DEFINE n == lastOrder + 1
<1>1. /\ n \in OrderIds /\ lastOrder' = n
      /\ \A o \in OrderIds : o # n => orders'[o] = orders[o]
      /\ orders'[n].sym = s /\ orders'[n].row = r /\ orders'[n].kind = kind
      /\ orders'[n].state \in {"filled", "working"}
  BY NewOrder
<1>2. orders[n] = NoOrder /\ lastOrder \in Nat /\ lastRow \in Nat
  BY <1>1 DEF DataInv, OrderInv, TypeOK
<1>3. /\ \A q : q # r => EntryOrders(q)' = EntryOrders(q)
      /\ \A q : q = r => EntryOrders(q)' = EntryOrders(q) \cup {n}
  <2>1. orders[n].kind = "none" /\ orders'[n].kind # "none"
    BY <1>1, <1>2 DEF NoOrder
  <2>2. ASSUME NEW q
        PROVE  EntryOrders(q)' = {o \in OrderIds : orders'[o].kind # "none" /\ orders'[o].row = q}
    BY DEF EntryOrders
  <2>3. ASSUME NEW q, q # r PROVE EntryOrders(q)' = EntryOrders(q)
    BY <1>1, <2>1, <2>2, <2>3 DEF EntryOrders
  <2>4. ASSUME NEW q, q = r PROVE EntryOrders(q)' = EntryOrders(q) \cup {n}
    BY <1>1, <2>1, <2>2, <2>4 DEF EntryOrders
  <2>5. QED
    BY <2>3, <2>4
<1>4. OrderInv'
  BY <1>1, <1>2 DEF DataInv, OrderInv
<1>5. ASSUME NEW q \in RowIds, rows[q].oid # 0
      PROVE  rows[q].oid \in OrderIds /\ rows[q].oid # n
  BY <1>1, <1>2, <1>5 DEF DataInv, RowInv, TypeOK, RowType
<1>6. RowInv'
  BY <1>1, <1>2, <1>5 DEF DataInv, RowInv, TypeOK, RowType
<1>7. \A o \in OrderIds : orders[o].state = "filled" => o # n /\ orders'[o] = orders[o]
  BY <1>1, <1>2 DEF NoOrder
<1>8. \A q : EntryOrders(q) \subseteq EntryOrders(q)' /\ EntryOrders(q) \subseteq OrderIds
  BY <1>3 DEF EntryOrders
<1>9. FillsAreReal'
  BY <1>5, <1>7, <1>8 DEF DataInv, FillsAreReal
<1>10. PnlBackedByFills'
  BY <1>7, <1>8 DEF DataInv, PnlBackedByFills
<1>11. EntrySentOnce'
  <2> SUFFICES ASSUME NEW q \in RowIds \ {0}, NEW o \in EntryOrders(q)', NEW p \in EntryOrders(q)',
                      o < p
               PROVE  /\ orders'[o].kind = "LMT" /\ orders'[p].kind = "MKT"
                      /\ \A x \in EntryOrders(q)' : x \in {o, p}
    BY DEF EntrySentOnce
  <2>1. CASE q # r
    <3>1. /\ EntryOrders(q)' = EntryOrders(q)
          /\ \A x \in EntryOrders(q) : x \in OrderIds /\ x # n
      BY <1>2, <1>3, <2>1 DEF EntryOrders, NoOrder
    <3>2. QED
      BY <1>1, <3>1 DEF DataInv, EntrySentOnce
  <2>2. CASE q = r
    <3>1. CASE EntryOrders(r) = {}
      <4>1. o \in {n} /\ p \in {n}
        BY <1>3, <2>2, <3>1
      <4>2. QED
        BY <1>2, <4>1
    <3>2. CASE /\ kind = "MKT"
               /\ \E l \in OrderIds : EntryOrders(r) = {l} /\ orders[l].kind = "LMT"
      <4>1. PICK l \in OrderIds : EntryOrders(r) = {l} /\ orders[l].kind = "LMT"
        BY <3>2
      <4>2. l # n /\ l < n
        BY <1>1, <1>2, <4>1 DEF NoOrder, DataInv, OrderInv
      <4>3. o = l /\ p = n
        <5>1. o \in {l, n} /\ p \in {l, n}
          BY <1>3, <2>2, <4>1
        <5>2. QED
          BY <1>2, <4>2, <5>1
      <4>4. QED
        <5>1. EntryOrders(q)' = {l, n}
          BY <1>3, <2>2, <4>1
        <5>2. orders'[l].kind = "LMT" /\ orders'[n].kind = "MKT"
          BY <1>1, <3>2, <4>1, <4>2
        <5>3. QED
          BY <4>3, <5>1, <5>2
    <3>3. QED
      BY <2>2, <3>1, <3>2
  <2>3. QED
    BY <2>1, <2>2
<1>12. QED
  BY <1>3, <1>4, <1>6, <1>9, <1>10, <1>11 DEF DataInv
-----------------------------------------------------------------------------
(* The inductive invariant is preserved. *)

\* An order that moves between states keeps everything else.
LEMMA OneOrderMoves ==
    ASSUME TypeOK, NEW STATE o, o \in OrderIds, NEW CONSTANT st, st # "none",
           orders[o].state \notin {"filled", "none"},
           orders' = [orders EXCEPT ![o].state = st]
    PROVE  \A p \in OrderIds :
               /\ orders'[p].row = orders[p].row /\ orders'[p].kind = orders[p].kind
               /\ orders'[p].sym = orders[p].sym
               /\ orders[p].state = "filled" => orders'[p].state = "filled"
               /\ orders[p].state = "none" => orders'[p] = orders[p]
               /\ orders[p].state # "none" => orders'[p].state # "none"
<1>1. orders \in [OrderIds -> OrderType]
  BY DEF TypeOK
<1>2. \A p \in OrderIds : p # o => orders'[p] = orders[p]
  BY <1>1
<1>3. orders'[o] = [orders[o] EXCEPT !.state = st]
  BY <1>1
<1>4. /\ orders'[o].row = orders[o].row /\ orders'[o].kind = orders[o].kind
      /\ orders'[o].sym = orders[o].sym /\ orders'[o].state = st
  BY <1>1, <1>3 DEF OrderType
<1>5. QED
  BY <1>2, <1>4

LEMMA InitInv == Init => IInv
<1> SUFFICES ASSUME Init PROVE IInv
  OBVIOUS
<1>1. TypeOK /\ RowKnown
  BY InitType
<1>2. \A r : EntryOrders(r) = {}
  BY DEF Init, EntryOrders, NoOrder
<1>3. DataInv
  BY <1>2 DEF Init, DataInv, OrderInv, RowInv, FillsAreReal, PnlBackedByFills,
       EntrySentOnce,
              NoOrder, NoRow, NewRow
<1>4. LocalInv
  BY DEF Init, LocalInv, Entering, Watching, OnLimit, Sending
<1>5. QED
  BY <1>1, <1>3, <1>4 DEF IInv

LEMMA NextInv == IInv /\ [Next]_vars => IInv'
<1> SUFFICES ASSUME IInv, [Next]_vars PROVE DataInv' /\ LocalInv'
  BY NextType DEF IInv
<1> USE DEF loopVars, waitVars, closeVars, procVars, dbVars, brokerVars
<1>0. TypeOK /\ RowKnown /\ DataInv /\ LocalInv /\ TypeOK'
  BY NextType DEF IInv
<1>1. ASSUME NEW w \in SUBSET Symbols, StartSignals(w)
      PROVE DataInv' /\ LocalInv'
  <2>1. DataInv'
    BY <1>0, <1>1, DataUnchanged DEF StartSignals
  <2>2. EntryOrders(row)' = EntryOrders(row)
    BY <1>1 DEF StartSignals, EntryOrders
  <2>3. LocalInv'
    BY <1>0, <1>1, <2>2 DEF StartSignals, LocalInv, Entering, Watching, OnLimit, Sending
  <2>4. QED
    BY <2>1, <2>3
<1>2. ASSUME NEW s \in Symbols, SkipSymbol(s)
      PROVE DataInv' /\ LocalInv'
  <2>1. DataInv'
    BY <1>0, <1>2, DataUnchanged DEF SkipSymbol
  <2>2. EntryOrders(row)' = EntryOrders(row)
    BY <1>2 DEF SkipSymbol, EntryOrders
  <2>3. LocalInv'
    BY <1>0, <1>2, <2>2 DEF SkipSymbol, LocalInv, Entering, Watching, OnLimit, Sending
  <2>4. QED
    BY <2>1, <2>3
<1>3. ASSUME NEW s \in Symbols, NEW side \in EntrySides, EnterSymbol(s, side)
      PROVE DataInv' /\ LocalInv'
  <2> DEFINE r == lastRow + 1
  <2>1. /\ r \in RowIds /\ lastRow' = r /\ row' = r /\ UNCHANGED <<orders, lastOrder>>
        /\ rows'[r] = NewRow(s, side, "pending")
        /\ \A q \in RowIds : q # r => rows'[q] = rows[q]
    BY <1>0, <1>3 DEF EnterSymbol, TypeOK
  <2>2. /\ rows'[r].oid = 0 /\ rows'[r].filledPrice = FALSE /\ rows'[r].pnl = FALSE
        /\ rows'[r].status = "pending"
    BY <2>1 DEF NewRow
  <2>3. \A o \in OrderIds : orders[o].row <= lastRow /\ orders[o].row \in Int
    BY <1>0 DEF DataInv, OrderInv, TypeOK, OrderType
  <2>4. lastRow \in Int /\ lastOrder \in Nat
    BY <1>0 DEF TypeOK
  <2>5. /\ \A q : EntryOrders(q)' = EntryOrders(q)
        /\ EntryOrders(r) = {}
    BY <2>1, <2>3, <2>4 DEF EntryOrders
  <2>6. OrderInv' /\ EntrySentOnce'
    BY <1>0, <2>1, <2>3, <2>4, <2>5 DEF DataInv, OrderInv, EntrySentOnce
  <2>7. RowInv'
    BY <1>0, <2>1, <2>2, <2>4 DEF DataInv, RowInv
  <2>8. FillsAreReal' /\ PnlBackedByFills'
    BY <1>0, <2>1, <2>2, <2>5 DEF DataInv, FillsAreReal, PnlBackedByFills
  <2>9. EntryOrders(row)' = {}
    BY <2>1, <2>3, <2>4 DEF EntryOrders
  <2>10. pc' \in {"dryrun", "limit"} /\ (pc' = "limit" => mode' # "dryrun")
    BY <1>3 DEF EnterSymbol
  <2>11. LocalInv'
    BY <2>1, <2>2, <2>4, <2>9, <2>10 DEF LocalInv, Entering, Watching, OnLimit, Sending
  <2>12. QED
    BY <2>6, <2>7, <2>8, <2>11 DEF DataInv
<1>4. CASE EndSignals \/ BeginTick \/ SkipTick \/ Hang
  <2>1. DataInv'
    BY <1>0, <1>4, DataUnchanged DEF EndSignals, BeginTick, SkipTick, Hang, Untimed
  <2>2. EntryOrders(row)' = EntryOrders(row)
    BY <1>4 DEF EndSignals, BeginTick, SkipTick, Hang, Untimed, EntryOrders
  <2>3. LocalInv'
    BY <1>0, <1>4, <2>2 DEF EndSignals, BeginTick, SkipTick, Hang, Untimed, LocalInv,
         Entering, Watching, OnLimit, Sending
  <2>4. QED
    BY <2>1, <2>3
<1>5. CASE LogDryrun
  <2> DEFINE new == [rows[row] EXCEPT !.status = "dryrun", !.filledPrice = TRUE]
  <2>1. row \in RowIds /\ row <= lastRow /\ UpdateRow(row, new) /\ UNCHANGED <<orders, lastOrder>>
    BY <1>0, <1>5 DEF LogDryrun, LocalInv, Entering, Watching, OnLimit, Sending
  <2>2. rows[row] \in RowType /\ rows[row].oid <= lastOrder /\ lastOrder \in Nat
    <3>1. rows[row] \in RowType /\ lastOrder \in Nat
      BY <1>0, <2>1 DEF TypeOK
    <3>2. rows[row].oid <= lastOrder
      BY <1>0, <2>1 DEF DataInv, RowInv
    <3>3. QED
      BY <3>1, <3>2
  <2>3. new.oid <= lastOrder /\ (new.oid # 0 => orders[new.oid].row = row)
    BY <1>0, <1>5, <2>1, <2>2 DEF LogDryrun, DataInv, RowInv, LocalInv, Entering,
         Watching, OnLimit, Sending, RowType
  <2>4. new.filledPrice /\ new.status # "dryrun" =>
            /\ \E o \in EntryOrders(row) : orders[o].state = "filled"
            /\ new.oid # 0 => orders[new.oid].state = "filled"
    BY <1>0, <1>5, <2>1, <2>2 DEF LogDryrun, RowType, LocalInv, Entering, Sending
  <2>5. new.pnl => \E e \in EntryOrders(row), c \in OrderIds :
            /\ orders[e].state = "filled" /\ orders[c].state = "filled"
            /\ orders[c].row = 0 /\ orders[c].sym = new.sym /\ e < c
    BY <1>0, <2>1, <2>2 DEF DataInv, PnlBackedByFills, RowType
  <2>7. DataInv'
    BY <1>0, <2>1, <2>2, <2>3, <2>4, <2>5, DataRowUpdate
  <2>8. LocalInv'
    BY <1>5 DEF LogDryrun, LocalInv, Entering, Watching, OnLimit, Sending
  <2>9. QED
    BY <2>7, <2>8
<1>6. CASE PlaceLimit
  <2>1. /\ row \in 0..lastRow /\ row \in RowIds /\ row <= lastRow
        /\ PlaceOrder(sym, rows[row].side, 1, row, "LMT") /\ UNCHANGED <<rows, lastRow, row, mode>>
    BY <1>0, <1>6 DEF PlaceLimit, LocalInv, Entering, Watching, OnLimit, Sending, TypeOK
  <2>2. EntryOrders(row) = {}
    BY <1>0, <1>6 DEF PlaceLimit, LocalInv, Entering, Watching, OnLimit, Sending
  <2>3. /\ DataInv'
        /\ \A q : q = row => EntryOrders(q)' = EntryOrders(q) \cup {lastOrder + 1}
    BY <1>0, <2>1, <2>2, DataNewOrder
  <2>4. /\ lastOrder + 1 \in OrderIds /\ lastOrder' = lastOrder + 1
        /\ orders'[lastOrder + 1].row = row /\ orders'[lastOrder + 1].kind = "LMT"
    BY <1>0, <2>1, NewOrder
  <2>5. EntryOrders(row)' = {lastOrder + 1}
    <3>1. PICK q : q = row
      OBVIOUS
    <3>2. EntryOrders(q)' = {lastOrder + 1}
      BY <2>2, <2>3, <3>1
    <3>3. QED
      BY <2>1, <3>1, <3>2 DEF EntryOrders
  <2>6. pc' = "placed" /\ wait' = "limit" /\ ord' = lastOrder + 1 /\ mode' # "dryrun"
    BY <1>0, <1>6 DEF PlaceLimit, StartWait, LocalInv, Entering, Watching, OnLimit, Sending
  <2>7. rows'[row].status = "pending" /\ rows'[row].oid = 0 /\ ~rows'[row].filledPrice
    BY <1>0, <1>6, <2>1 DEF PlaceLimit, LocalInv, Entering, Watching, OnLimit, Sending
  <2>8. ord' <= lastOrder'
    BY <1>0, <2>4, <2>6 DEF TypeOK
  <2>9. LocalInv'
    BY <2>1, <2>4, <2>5, <2>6, <2>7, <2>8 DEF LocalInv, Entering, Watching, OnLimit, Sending
  <2>10. QED
    BY <2>3, <2>9
<1>7. CASE PlaceLimitFails
  <2>1. DataInv'
    BY <1>0, <1>7, DataUnchanged DEF PlaceLimitFails
  <2>2. EntryOrders(row)' = EntryOrders(row)
    BY <1>7 DEF PlaceLimitFails, EntryOrders
  <2>3. LocalInv'
    BY <1>0, <1>7, <2>2 DEF PlaceLimitFails, LocalInv, Entering, Watching, OnLimit, Sending
  <2>4. QED
    BY <2>1, <2>3
<1>8. CASE RecordOpen
  <2> DEFINE new == [rows[row] EXCEPT !.status = "open", !.oid = ord]
  <2>1. row \in RowIds /\ row <= lastRow /\ UpdateRow(row, new) /\ UNCHANGED <<orders, lastOrder>>
    BY <1>0, <1>8 DEF RecordOpen, LocalInv, Entering, Watching, OnLimit, Sending
  <2>2. rows[row] \in RowType /\ rows[row].oid <= lastOrder /\ lastOrder \in Nat
    <3>1. rows[row] \in RowType /\ lastOrder \in Nat
      BY <1>0, <2>1 DEF TypeOK
    <3>2. rows[row].oid <= lastOrder
      BY <1>0, <2>1 DEF DataInv, RowInv
    <3>3. QED
      BY <3>1, <3>2
  <2>3. new.oid <= lastOrder /\ (new.oid # 0 => orders[new.oid].row = row)
    BY <1>0, <1>8, <2>1, <2>2 DEF RecordOpen, DataInv, RowInv, LocalInv, Entering,
         Watching, OnLimit, Sending, RowType
  <2>4. new.filledPrice /\ new.status # "dryrun" =>
            /\ \E o \in EntryOrders(row) : orders[o].state = "filled"
            /\ new.oid # 0 => orders[new.oid].state = "filled"
    BY <1>0, <1>8, <2>1, <2>2 DEF RecordOpen, RowType, LocalInv, Entering, Sending
  <2>5. new.pnl => \E e \in EntryOrders(row), c \in OrderIds :
            /\ orders[e].state = "filled" /\ orders[c].state = "filled"
            /\ orders[c].row = 0 /\ orders[c].sym = new.sym /\ e < c
    BY <1>0, <2>1, <2>2 DEF DataInv, PnlBackedByFills, RowType
  <2>7. DataInv'
    BY <1>0, <2>1, <2>2, <2>3, <2>4, <2>5, DataRowUpdate
  <2>6. rows'[row] = new \/ rows'[row] = rows[row]
    BY <1>0, <2>1 DEF UpdateRow, TypeOK
  <2>61. /\ new.status = "open" /\ new.oid = ord /\ new.filledPrice = rows[row].filledPrice
    BY <2>2 DEF RowType
  <2>62. EntryOrders(row)' = EntryOrders(row)
    BY <1>8 DEF RecordOpen, EntryOrders
  <2>63. pc' = "poll" /\ wait = "limit" /\ UNCHANGED <<wait, ord, row, mode, lastOrder, orders, lastRow>>
    BY <1>0, <1>8 DEF RecordOpen, UpdateRow, LocalInv, Entering, Watching, OnLimit, Sending
  <2>64. /\ ~rows[row].filledPrice /\ rows[row].status = "pending" /\ rows[row].oid \in {0, ord}
         /\ ord \in OrderIds /\ ord <= lastOrder /\ orders[ord].row = row /\ orders[ord].kind = "LMT"
         /\ EntryOrders(row) = {ord} /\ mode # "dryrun"
    BY <1>0, <1>8 DEF RecordOpen, LocalInv, Entering, Watching, OnLimit, Sending
  <2>8. LocalInv'
    BY <2>1, <2>6, <2>61, <2>62, <2>63, <2>64 DEF LocalInv, Entering, Watching, OnLimit,
         Sending
  <2>9. QED
    BY <2>7, <2>8
<1>9. CASE CancelLimit
  <2>1. /\ \A o \in OrderIds :
              /\ orders'[o].row = orders[o].row /\ orders'[o].kind = orders[o].kind
              /\ orders'[o].sym = orders[o].sym
              /\ orders[o].state = "filled" => orders'[o].state = "filled"
              /\ orders[o].state = "none" => orders'[o] = orders[o]
              /\ orders[o].state # "none" => orders'[o].state # "none"
        /\ UNCHANGED <<rows, lastRow, lastOrder, row, ord, wait, mode>>
    <3>1. UNCHANGED <<rows, lastRow, lastOrder, row, ord, wait, mode>> /\ ord \in OrderIds
      BY <1>0, <1>9 DEF CancelLimit, LocalInv, Entering, Watching, OnLimit, Sending
    <3>2. CASE UNCHANGED orders
      BY <3>1, <3>2
    <3>3. CASE /\ orders[ord].state = "working"
               /\ \/ orders' = [orders EXCEPT ![ord].state = "cancelled"]
                  \/ orders' = [orders EXCEPT ![ord].state = "cancelling"]
      <4>1. orders[ord].state \notin {"filled", "none"}
        BY <3>3
      <4>2. CASE orders' = [orders EXCEPT ![ord].state = "cancelled"]
        BY <1>0, <3>1, <4>1, <4>2, OneOrderMoves
      <4>3. CASE orders' = [orders EXCEPT ![ord].state = "cancelling"]
        BY <1>0, <3>1, <4>1, <4>3, OneOrderMoves
      <4>4. QED
        BY <3>3, <4>2, <4>3
    <3>4. QED
      BY <1>9, <3>2, <3>3 DEF CancelLimit
  <2>2. DataInv'
    BY <1>0, <2>1, DataStateChange
  <2>3. EntryOrders(row)' = EntryOrders(row)
    BY <2>1 DEF EntryOrders
  <2>4. pc' = "market"
    BY <1>9 DEF CancelLimit
  <2>5. LocalInv'
    BY <1>0, <1>9, <2>1, <2>3, <2>4 DEF CancelLimit, LocalInv, Entering, Watching,
         OnLimit, Sending
  <2>6. QED
    BY <2>2, <2>5
<1>10. CASE PlaceMarket
  <2>1. /\ row \in 0..lastRow /\ row \in RowIds /\ row <= lastRow
        /\ PlaceOrder(sym, rows[row].side, 1, row, "MKT") /\ UNCHANGED <<rows, lastRow, row, mode>>
    BY <1>0, <1>10 DEF PlaceMarket, LocalInv, Entering, Watching, OnLimit, Sending, TypeOK
  <2>2. \E o \in OrderIds : EntryOrders(row) = {o} /\ orders[o].kind = "LMT"
    BY <1>0, <1>10 DEF PlaceMarket, LocalInv, Entering, Watching, OnLimit, Sending
  <2>3. /\ DataInv'
        /\ \A q : q = row => EntryOrders(q)' = EntryOrders(q) \cup {lastOrder + 1}
    BY <1>0, <2>1, <2>2, DataNewOrder
  <2>4. /\ lastOrder + 1 \in OrderIds /\ lastOrder' = lastOrder + 1
        /\ orders'[lastOrder + 1].row = row /\ orders'[lastOrder + 1].kind = "MKT"
    BY <1>0, <2>1, NewOrder
  <2>5. pc' = "poll" /\ wait' = "market" /\ ord' = lastOrder + 1 /\ mode' # "dryrun"
    BY <1>0, <1>10 DEF PlaceMarket, StartWait, LocalInv, Entering, Watching, OnLimit,
         Sending
  <2>6. rows'[row].status \in {"pending", "open"} /\ ~rows'[row].filledPrice
    BY <1>0, <1>10, <2>1 DEF PlaceMarket, LocalInv, Entering, Watching, OnLimit, Sending
  <2>7. ord' <= lastOrder'
    BY <1>0, <2>4, <2>5 DEF TypeOK
  <2>8. LocalInv'
    BY <2>1, <2>4, <2>5, <2>6, <2>7 DEF LocalInv, Entering, Watching, OnLimit, Sending
  <2>9. QED
    BY <2>3, <2>8
<1>11. CASE PlaceMarketFails
  <2>1. DataInv'
    BY <1>0, <1>11, DataUnchanged DEF PlaceMarketFails
  <2>2. EntryOrders(row)' = EntryOrders(row)
    BY <1>11 DEF PlaceMarketFails, EntryOrders
  <2>3. LocalInv'
    BY <1>0, <1>11, <2>2 DEF PlaceMarketFails, LocalInv, Entering, Watching, OnLimit,
         Sending
  <2>4. QED
    BY <2>1, <2>3
<1>12. CASE RecordFill
  <2> DEFINE new == [rows[row] EXCEPT !.status = "filled", !.filledPrice = TRUE,
                           !.oid = IF wait = "market" THEN ord ELSE @]
  <2>1. row \in RowIds /\ row <= lastRow /\ UpdateRow(row, new) /\ UNCHANGED <<orders, lastOrder>>
    BY <1>0, <1>12 DEF RecordFill, LocalInv, Entering, Watching, OnLimit, Sending
  <2>2. rows[row] \in RowType /\ rows[row].oid <= lastOrder /\ lastOrder \in Nat
    <3>1. rows[row] \in RowType /\ lastOrder \in Nat
      BY <1>0, <2>1 DEF TypeOK
    <3>2. rows[row].oid <= lastOrder
      BY <1>0, <2>1 DEF DataInv, RowInv
    <3>3. QED
      BY <3>1, <3>2
  <2>3. new.oid <= lastOrder /\ (new.oid # 0 => orders[new.oid].row = row)
    BY <1>0, <1>12, <2>1, <2>2 DEF RecordFill, DataInv, RowInv, LocalInv, Entering,
         Watching, OnLimit, Sending, RowType
  <2>4. new.filledPrice /\ new.status # "dryrun" =>
            /\ \E o \in EntryOrders(row) : orders[o].state = "filled"
            /\ new.oid # 0 => orders[new.oid].state = "filled"
    <3>1. ord \in EntryOrders(row) /\ orders[ord].state = "filled" /\ wait \in {"limit", "market"}
      BY <1>0, <1>12 DEF RecordFill, DataInv, OrderInv, EntryOrders, TypeOK, LocalInv,
           Watching
    <3>2. new.oid \in {0, ord}
      BY <1>0, <1>12, <2>2, <3>1 DEF RecordFill, LocalInv, RowType
    <3>3. QED
      BY <3>1, <3>2
  <2>5. new.pnl => \E e \in EntryOrders(row), c \in OrderIds :
            /\ orders[e].state = "filled" /\ orders[c].state = "filled"
            /\ orders[c].row = 0 /\ orders[c].sym = new.sym /\ e < c
    BY <1>0, <2>1, <2>2 DEF DataInv, PnlBackedByFills, RowType
  <2>7. DataInv'
    BY <1>0, <2>1, <2>2, <2>3, <2>4, <2>5, DataRowUpdate
  <2>8. LocalInv'
    BY <1>12 DEF RecordFill, LocalInv, Entering, Watching, OnLimit, Sending
  <2>9. QED
    BY <2>7, <2>8
<1>13. CASE RecordError
  <2> DEFINE new == [rows[row] EXCEPT !.status = "error"]
  <2>1. row \in RowIds /\ row <= lastRow /\ UpdateRow(row, new) /\ UNCHANGED <<orders, lastOrder>>
    BY <1>0, <1>13 DEF RecordError, LocalInv, Entering, Watching, OnLimit, Sending
  <2>2. rows[row] \in RowType /\ rows[row].oid <= lastOrder /\ lastOrder \in Nat
    <3>1. rows[row] \in RowType /\ lastOrder \in Nat
      BY <1>0, <2>1 DEF TypeOK
    <3>2. rows[row].oid <= lastOrder
      BY <1>0, <2>1 DEF DataInv, RowInv
    <3>3. QED
      BY <3>1, <3>2
  <2>3. new.oid <= lastOrder /\ (new.oid # 0 => orders[new.oid].row = row)
    BY <1>0, <1>13, <2>1, <2>2 DEF RecordError, DataInv, RowInv, LocalInv, Entering,
         Watching, OnLimit, Sending, RowType
  <2>4. new.filledPrice /\ new.status # "dryrun" =>
            /\ \E o \in EntryOrders(row) : orders[o].state = "filled"
            /\ new.oid # 0 => orders[new.oid].state = "filled"
    BY <1>0, <1>13, <2>1, <2>2 DEF RecordError, RowType, LocalInv, Entering, Sending
  <2>5. new.pnl => \E e \in EntryOrders(row), c \in OrderIds :
            /\ orders[e].state = "filled" /\ orders[c].state = "filled"
            /\ orders[c].row = 0 /\ orders[c].sym = new.sym /\ e < c
    BY <1>0, <2>1, <2>2 DEF DataInv, PnlBackedByFills, RowType
  <2>7. DataInv'
    BY <1>0, <2>1, <2>2, <2>3, <2>4, <2>5, DataRowUpdate
  <2>8. LocalInv'
    BY <1>13 DEF RecordError, LocalInv, Entering, Watching, OnLimit, Sending
  <2>9. QED
    BY <2>7, <2>8
<1>14. CASE PollFilled
  <2>1. DataInv'
    BY <1>0, <1>14, DataUnchanged DEF PollFilled
  <2>2. EntryOrders(row)' = EntryOrders(row)
    BY <1>14 DEF PollFilled, EntryOrders
  <2>3. LocalInv'
    BY <1>0, <1>14, <2>2 DEF PollFilled, LocalInv, Entering, Watching, OnLimit, Sending,
         WaitEnds, MaySee, TypeOK
  <2>4. QED
    BY <2>1, <2>3
<1>15. CASE PollDead
  <2>1. DataInv'
    BY <1>0, <1>15, DataUnchanged DEF PollDead
  <2>2. EntryOrders(row)' = EntryOrders(row)
    BY <1>15 DEF PollDead, EntryOrders
  <2>3. LocalInv'
    BY <1>0, <1>15, <2>2 DEF PollDead, LocalInv, Entering, Watching, OnLimit, Sending,
         WaitEnds, TypeOK
  <2>4. QED
    BY <2>1, <2>3
<1>16. CASE PollAgain
  <2>1. DataInv'
    BY <1>0, <1>16, DataUnchanged DEF PollAgain
  <2>2. EntryOrders(row)' = EntryOrders(row)
    BY <1>16 DEF PollAgain, EntryOrders
  <2>3. LocalInv'
    BY <1>0, <1>16, <2>2 DEF PollAgain, LocalInv, Entering, Watching, OnLimit, Sending
  <2>4. QED
    BY <2>1, <2>3
<1>17. CASE PollInterrupted
  <2>1. DataInv'
    BY <1>0, <1>17, DataUnchanged DEF PollInterrupted
  <2>2. EntryOrders(row)' = EntryOrders(row)
    BY <1>17 DEF PollInterrupted, EntryOrders
  <2>3. LocalInv'
    BY <1>0, <1>17, <2>2 DEF PollInterrupted, LocalInv, Entering, Watching, OnLimit,
         Sending, WaitEnds, TypeOK
  <2>4. QED
    BY <2>1, <2>3
<1>18. CASE PollDeadline
  <2>1. DataInv'
    BY <1>0, <1>18, DataUnchanged DEF PollDeadline
  <2>2. EntryOrders(row)' = EntryOrders(row)
    BY <1>18 DEF PollDeadline, EntryOrders
  <2>3. LocalInv'
    BY <1>0, <1>18, <2>2 DEF PollDeadline, LocalInv, Entering, Watching, OnLimit,
         Sending, WaitEnds, TypeOK
  <2>4. QED
    BY <2>1, <2>3
<1>19. ASSUME NEW why \in {"tick", "switch", "exit"}, NEW m \in Modes, StartClose(why, m)
      PROVE DataInv' /\ LocalInv'
  <2>1. DataInv'
    BY <1>0, <1>19, DataUnchanged DEF StartClose, CloseReason
  <2>2. EntryOrders(row)' = EntryOrders(row)
    BY <1>19 DEF StartClose, CloseReason, EntryOrders
  <2>3. LocalInv'
    BY <1>0, <1>19, <2>2 DEF StartClose, CloseReason, LocalInv, Entering, Watching,
         OnLimit, Sending
  <2>4. QED
    BY <2>1, <2>3
<1>20. ASSUME NEW why \in {"tick", "switch", "exit"}, NEW m \in Modes, StartCloseDryrun(why, m)
      PROVE DataInv' /\ LocalInv'
  <2>1. DataInv'
    BY <1>0, <1>20, DataUnchanged DEF StartCloseDryrun, CloseReason
  <2>2. EntryOrders(row)' = EntryOrders(row)
    BY <1>20 DEF StartCloseDryrun, CloseReason, EntryOrders
  <2>3. LocalInv'
    BY <1>0, <1>20, <2>2 DEF StartCloseDryrun, CloseReason, LocalInv, Entering, Watching,
         OnLimit, Sending
  <2>4. QED
    BY <2>1, <2>3
<1>21. ASSUME NEW s \in Symbols, PlaceClose(s) PROVE DataInv' /\ LocalInv'
  <2> DEFINE side == IF snap[s] > 0 THEN "SELL" ELSE "BUY"
             qty == IF snap[s] > 0 THEN snap[s] ELSE 0 - snap[s]
  <2>1. PlaceOrder(s, side, qty, 0, "MKT") /\ UNCHANGED <<rows, lastRow>> /\ 0 \in 0..lastRow
    BY <1>0, <1>21 DEF PlaceClose, TypeOK
  <2>2. DataInv'
    BY <1>0, <2>1, DataNewOrder
  <2>3. /\ lastOrder + 1 \in OrderIds /\ lastOrder' = lastOrder + 1
        /\ orders'[lastOrder + 1].row = 0 /\ orders'[lastOrder + 1].sym = s
    BY <1>0, <2>1, NewOrder
  <2>4. /\ pc' = "poll" /\ wait' = "close" /\ ord' = lastOrder + 1 /\ sym' = s
        /\ mode' = mode /\ mode # "dryrun"
    BY <1>0, <1>21 DEF PlaceClose, StartWait, LocalInv, Entering, Watching, OnLimit, Sending
  <2>5. LocalInv'
    BY <2>3, <2>4 DEF LocalInv, Entering, Watching, OnLimit, Sending
  <2>6. QED
    BY <2>2, <2>5
<1>22. ASSUME NEW s \in Symbols, PlaceCloseFails(s)
      PROVE DataInv' /\ LocalInv'
  <2>1. DataInv'
    BY <1>0, <1>22, DataUnchanged DEF PlaceCloseFails
  <2>2. EntryOrders(row)' = EntryOrders(row)
    BY <1>22 DEF PlaceCloseFails, EntryOrders
  <2>3. LocalInv'
    BY <1>0, <1>22, <2>2 DEF PlaceCloseFails, LocalInv, Entering, Watching, OnLimit, Sending
  <2>4. QED
    BY <2>1, <2>3
<1>23. CASE MarkClosed
  <2>1. pc' = "closing" /\ mode' = mode /\ mode # "dryrun" /\ UNCHANGED <<orders, lastOrder>>
    BY <1>0, <1>23 DEF MarkClosed, LocalInv, Entering, Watching, OnLimit, Sending
  <2>2. LocalInv'
    BY <2>1 DEF LocalInv, Entering, Watching, OnLimit, Sending
  <2>3. CASE UNCHANGED dbVars
    BY <1>0, <2>1, <2>2, <2>3, DataUnchanged
  <2>4. ASSUME NEW r \in OpenRows(sym),
               UpdateRow(r, [rows[r] EXCEPT !.status = "closed", !.exitPrice = price,
                               !.pnl = price /\ rows[r].filledPrice])
        PROVE  DataInv'
    <3> DEFINE new == [rows[r] EXCEPT !.status = "closed", !.exitPrice = price,
                          !.pnl = price /\ rows[r].filledPrice]
    <3>1. /\ r \in RowIds /\ rows[r] \in RowType /\ rows[r].sym = sym
          /\ rows[r].status \in {"open", "filled"}
      BY <1>0 DEF OpenRows, TypeOK
    <3>2. r <= lastRow
      BY <1>0, <3>1 DEF DataInv, RowInv, NoRow, NewRow, TypeOK
    <3>3. /\ new.oid = rows[r].oid /\ new.filledPrice = rows[r].filledPrice /\ new.sym = sym
          /\ new.pnl = (price /\ rows[r].filledPrice)
      BY <3>1 DEF RowType
    <3>10. UpdateRow(r, new)
      BY <2>4
    <3> HIDE DEF new
    <3>4. new.oid <= lastOrder /\ (new.oid # 0 => orders[new.oid].row = r)
      BY <1>0, <3>1, <3>3 DEF DataInv, RowInv
    <3>5. rows[r].filledPrice =>
              /\ \E o \in EntryOrders(r) : orders[o].state = "filled"
              /\ rows[r].oid # 0 => orders[rows[r].oid].state = "filled"
      BY <1>0, <3>1 DEF DataInv, FillsAreReal
    <3>6. /\ ord \in OrderIds /\ ord = lastOrder /\ orders[ord].row = 0 /\ orders[ord].sym = sym
          /\ price => orders[ord].state = "filled"
      BY <1>0, <1>23 DEF MarkClosed, LocalInv
    <3>7. \A e \in EntryOrders(r) : e < ord
      BY <1>0, <3>1, <3>6 DEF EntryOrders, DataInv, OrderInv, NoOrder, TypeOK
    <3>8. new.pnl => \E e \in EntryOrders(r), c \in OrderIds :
              /\ orders[e].state = "filled" /\ orders[c].state = "filled"
              /\ orders[c].row = 0 /\ orders[c].sym = new.sym /\ e < c
      <4>1. SUFFICES ASSUME new.pnl
                     PROVE  \E e \in EntryOrders(r), c \in OrderIds :
                         /\ orders[e].state = "filled" /\ orders[c].state = "filled"
                         /\ orders[c].row = 0 /\ orders[c].sym = new.sym /\ e < c
        OBVIOUS
      <4>2. PICK e \in EntryOrders(r) : orders[e].state = "filled"
        BY <3>3, <3>5, <4>1
      <4>3. orders[ord].state = "filled"
        BY <3>3, <3>6, <4>1
      <4>4. QED
        BY <3>3, <3>6, <3>7, <4>2, <4>3
    <3>9. QED
      <4>1. new.filledPrice /\ new.status # "dryrun" =>
                /\ \E o \in EntryOrders(r) : orders[o].state = "filled"
                /\ new.oid # 0 => orders[new.oid].state = "filled"
        BY <3>3, <3>5
      <4>2. QED
        BY <1>0, <2>1, <3>1, <3>2, <3>4, <3>8, <3>10, <4>1, DataRowUpdate
  <2>5. QED
    BY <1>23, <2>2, <2>3, <2>4 DEF MarkClosed
<1>24. CASE EndClose
  <2>1. DataInv'
    BY <1>0, <1>24, DataUnchanged DEF EndClose
  <2>2. EntryOrders(row)' = EntryOrders(row)
    BY <1>24 DEF EndClose, EntryOrders
  <2>3. LocalInv'
    BY OnwardPlaces, <1>0, <1>24, <2>2 DEF EndClose, LocalInv, Entering, Watching, OnLimit,
         Sending
  <2>4. QED
    BY <2>1, <2>3
<1>25. CASE Settle
  <2>1. DataInv'
    BY <1>0, <1>25, DataUnchanged DEF Settle
  <2>2. EntryOrders(row)' = EntryOrders(row)
    BY <1>25 DEF Settle, EntryOrders
  <2>3. LocalInv'
    BY OnwardPlaces, <1>0, <1>25, <2>2 DEF Settle, LocalInv, Entering, Watching, OnLimit,
         Sending
  <2>4. QED
    BY <2>1, <2>3
<1>26. ASSUME NEW o \in OrderIds, BrokerFill(o) PROVE DataInv' /\ LocalInv'
  <2>1. /\ \A p \in OrderIds :
              /\ orders'[p].row = orders[p].row /\ orders'[p].kind = orders[p].kind
              /\ orders'[p].sym = orders[p].sym
              /\ orders[p].state = "filled" => orders'[p].state = "filled"
              /\ orders[p].state = "none" => orders'[p] = orders[p]
              /\ orders[p].state # "none" => orders'[p].state # "none"
        /\ UNCHANGED <<rows, lastRow, lastOrder, row, ord, wait, mode, pc, price, sym>>
    <3>1. /\ orders[o].state \notin {"filled", "none"}
          /\ \/ orders' = [orders EXCEPT ![o].state = "filled"]
             \/ orders' = [orders EXCEPT ![o].state = "cancelled"]
      BY <1>26 DEF BrokerFill, Alive
    <3>2. UNCHANGED <<rows, lastRow, lastOrder, row, ord, wait, mode, pc, price, sym>>
      BY <1>26 DEF BrokerFill
    <3>3. CASE orders' = [orders EXCEPT ![o].state = "filled"]
      BY <1>0, <3>1, <3>2, <3>3, OneOrderMoves
    <3>4. CASE orders' = [orders EXCEPT ![o].state = "cancelled"]
      BY <1>0, <3>1, <3>2, <3>4, OneOrderMoves
    <3>5. QED
      BY <3>1, <3>3, <3>4
  <2>2. DataInv'
    BY <1>0, <2>1, DataStateChange
  <2>3. EntryOrders(row)' = EntryOrders(row)
    BY <2>1 DEF EntryOrders
  <2>4. LocalInv'
    BY <1>0, <2>1, <2>3 DEF LocalInv, Entering, Watching, OnLimit, Sending
  <2>5. QED
    BY <2>2, <2>4
<1>27. ASSUME NEW o \in OrderIds, BrokerCancel(o) PROVE DataInv' /\ LocalInv'
  <2>1. /\ \A p \in OrderIds :
              /\ orders'[p].row = orders[p].row /\ orders'[p].kind = orders[p].kind
              /\ orders'[p].sym = orders[p].sym
              /\ orders[p].state = "filled" => orders'[p].state = "filled"
              /\ orders[p].state = "none" => orders'[p] = orders[p]
              /\ orders[p].state # "none" => orders'[p].state # "none"
        /\ UNCHANGED <<rows, lastRow, lastOrder, row, ord, wait, mode, pc, price, sym>>
    <3>1. /\ orders[o].state \notin {"filled", "none"}
          /\ \/ orders' = [orders EXCEPT ![o].state = "filled"]
             \/ orders' = [orders EXCEPT ![o].state = "cancelled"]
      BY <1>27 DEF BrokerCancel, Alive
    <3>2. UNCHANGED <<rows, lastRow, lastOrder, row, ord, wait, mode, pc, price, sym>>
      BY <1>27 DEF BrokerCancel
    <3>3. CASE orders' = [orders EXCEPT ![o].state = "filled"]
      BY <1>0, <3>1, <3>2, <3>3, OneOrderMoves
    <3>4. CASE orders' = [orders EXCEPT ![o].state = "cancelled"]
      BY <1>0, <3>1, <3>2, <3>4, OneOrderMoves
    <3>5. QED
      BY <3>1, <3>3, <3>4
  <2>2. DataInv'
    BY <1>0, <2>1, DataStateChange
  <2>3. EntryOrders(row)' = EntryOrders(row)
    BY <2>1 DEF EntryOrders
  <2>4. LocalInv'
    BY <1>0, <2>1, <2>3 DEF LocalInv, Entering, Watching, OnLimit, Sending
  <2>5. QED
    BY <2>2, <2>4
<1>28. CASE Sigterm
  <2>1. DataInv'
    BY <1>0, <1>28, DataUnchanged DEF Sigterm
  <2>2. EntryOrders(row)' = EntryOrders(row)
    BY <1>28 DEF Sigterm, EntryOrders
  <2>3. LocalInv'
    BY <1>0, <1>28, <2>2 DEF Sigterm, LocalInv, Entering, Watching, OnLimit, Sending
  <2>4. QED
    BY <2>1, <2>3
<1>29. CASE Crash
  <2>1. DataInv'
    BY <1>0, <1>29, DataUnchanged DEF Crash
  <2>2. EntryOrders(row)' = EntryOrders(row)
    BY <1>29 DEF Crash, EntryOrders
  <2>3. LocalInv'
    BY <1>0, <1>29, <2>2 DEF Crash, LocalInv, Entering, Watching, OnLimit, Sending
  <2>4. QED
    BY <2>1, <2>3
<1>30. CASE Restart
  <2>1. DataInv'
    BY <1>0, <1>30, DataUnchanged DEF Restart
  <2>3. LocalInv'
    BY <1>0, <1>30 DEF Restart, LocalInv, Entering, Watching, OnLimit, Sending
  <2>4. QED
    BY <2>1, <2>3
<1>31. CASE UNCHANGED vars
  <2>1. DataInv'
    BY <1>0, <1>31, DataUnchanged DEF vars
  <2>2. EntryOrders(row)' = EntryOrders(row)
    BY <1>31 DEF vars, EntryOrders
  <2>3. QED
    BY <1>0, <1>31, <2>1, <2>2 DEF vars, LocalInv, Entering, Watching, OnLimit, Sending
<1>32. QED
  BY <1>1, <1>2, <1>3, <1>4, <1>5, <1>6, <1>7, <1>8, <1>9, <1>10, <1>11, <1>12,
     <1>13, <1>14, <1>15, <1>16, <1>17, <1>18, <1>19, <1>20, <1>21, <1>22, <1>23, <1>24,
     <1>25, <1>26, <1>27, <1>28, <1>29, <1>30, <1>31
     DEF Next, Engine, Entry, Poll, Close, Broker, Process
-----------------------------------------------------------------------------
(* The theorems. *)

LEMMA Invariance == Spec => []IInv
BY InitInv, NextInv, PTL DEF Spec

\* Whatever the broker does, a recorded fill happened and the stored order id is
\* its order's (executor.py:253-273, 299-317).
THEOREM RecordedFillsAreReal == Spec => []FillsAreReal
<1>1. IInv => FillsAreReal
  BY DEF IInv, DataInv
<1>2. QED
  BY <1>1, Invariance, PTL

\* A realised P&L rests on a filled entry and a later filled close
\* (eod_close.py:184-190).
THEOREM PnlIsRealised == Spec => []PnlBackedByFills
<1>1. IInv => PnlBackedByFills
  BY DEF IInv, DataInv
<1>2. QED
  BY <1>1, Invariance, PTL

\* No row is entered more than once: one limit order, then at most one market
\* order (executor.py:219-297).
THEOREM NoEntryIsRepeated == Spec => []EntrySentOnce
<1>1. IInv => EntrySentOnce
  BY DEF IInv, DataInv
<1>2. QED
  BY <1>1, Invariance, PTL

\* In dryrun no order is sent (executor.py:174-196, eod_close.py:48).
THEOREM DryrunIsSilent == Spec => DryrunSendsNothing
<1>1. IInv /\ [Next]_vars => (mode = "dryrun" => lastOrder' = lastOrder)
  <2> SUFFICES ASSUME IInv, [Next]_vars, mode = "dryrun" PROVE lastOrder' = lastOrder
    OBVIOUS
  <2> USE DEF loopVars, waitVars, closeVars, procVars, dbVars, brokerVars
  <2>1. pc \notin Sending \cup {"poll", "closing", "closed"}
    BY DEF IInv, LocalInv
  <2>2. CASE Entry
    BY <2>1, <2>2 DEF Entry, Sending, StartSignals, SkipSymbol, EnterSymbol, EndSignals,
         BeginTick, SkipTick,
       LogDryrun, PlaceLimit, PlaceLimitFails, RecordOpen, CancelLimit, PlaceMarket,
       PlaceMarketFails, RecordFill, RecordError
  <2>3. CASE Poll
    BY <2>3 DEF Poll, PollFilled, PollDead, PollAgain, PollInterrupted, PollDeadline
  <2>4. CASE Close
    BY <2>1, <2>4 DEF Close, StartClose, StartCloseDryrun, PlaceClose, PlaceCloseFails,
       MarkClosed, EndClose, Settle
  <2>5. CASE Broker
    BY <2>5 DEF Broker, BrokerFill, BrokerCancel
  <2>6. CASE Process
    BY <2>6 DEF Process, Sigterm, Hang, Untimed, Crash, Restart
  <2>7. CASE UNCHANGED vars
    BY <2>7 DEF vars
  <2>8. QED
    BY <2>2, <2>3, <2>4, <2>5, <2>6, <2>7 DEF Next, Engine
<1>2. QED
  BY <1>1, Invariance, PTL DEF Spec, DryrunSendsNothing

\* The move a row update makes is the move of the row it writes.
LEMMA UpdateMoves ==
    ASSUME TypeOK, NEW STATE r, r \in RowIds, NEW STATE new, UpdateRow(r, new),
           <<rows[r].status, new.status>> \in Moves
    PROVE  \A q \in RowIds : rows'[q].status # rows[q].status =>
               <<rows[q].status, rows'[q].status>> \in Moves
<1>1. rows \in [RowIds -> RowType]
  BY DEF TypeOK
<1>2. CASE UNCHANGED dbVars
  BY <1>2 DEF dbVars
<1>3. CASE rows' = [rows EXCEPT ![r] = new]
  <2>1. rows'[r] = new /\ \A q \in RowIds : q # r => rows'[q] = rows[q]
    BY <1>1, <1>3
  <2>2. QED
    BY <2>1
<1>4. QED
  BY <1>2, <1>3 DEF UpdateRow

\* A trade row only moves forward through its life (models.py:78-80).
THEOREM RowsNeverGoBack == Spec => RowsMoveForward
<1>1. IInv /\ [Next]_vars =>
          \A r \in RowIds : rows'[r].status # rows[r].status =>
              <<rows[r].status, rows'[r].status>> \in Moves
  <2> SUFFICES ASSUME IInv, [Next]_vars
               PROVE  \A r \in RowIds : rows'[r].status # rows[r].status =>
                          <<rows[r].status, rows'[r].status>> \in Moves
    OBVIOUS
  <2> DEFINE Forward == \A r \in RowIds : rows'[r].status # rows[r].status =>
                            <<rows[r].status, rows'[r].status>> \in Moves
  <2> USE DEF loopVars, waitVars, closeVars, procVars, dbVars, brokerVars
  <2>0. TypeOK /\ DataInv /\ LocalInv
    BY DEF IInv
  <2>1. ASSUME UNCHANGED rows PROVE Forward
    BY <2>1
  <2>2. ASSUME NEW s \in Symbols, NEW side \in EntrySides, EnterSymbol(s, side) PROVE Forward
    <3>1. /\ lastRow + 1 \in RowIds /\ rows[lastRow + 1] = NoRow
          /\ rows'[lastRow + 1] = NewRow(s, side, "pending")
          /\ \A q \in RowIds : q # lastRow + 1 => rows'[q] = rows[q]
      BY <2>0, <2>2 DEF EnterSymbol, TypeOK, DataInv, RowInv
    <3>2. QED
      BY <3>1 DEF NoRow, NewRow, Moves
  <2>3. ASSUME pc \in {"dryrun", "placed", "fill", "failed"}
        PROVE  /\ row \in RowIds /\ rows[row] \in RowType
               /\ rows[row].status \in {"pending", "open"}
               /\ pc \in {"dryrun", "placed"} => rows[row].status = "pending"
    BY <2>0, <2>3 DEF LocalInv, Entering, Sending, TypeOK
  <2>4. CASE LogDryrun
    <3> DEFINE new == [rows[row] EXCEPT !.status = "dryrun", !.filledPrice = TRUE]
    <3>1. new.status = "dryrun" /\ row \in RowIds /\ rows[row].status = "pending"
      BY <2>3, <2>4 DEF LogDryrun, RowType
    <3>2. UpdateRow(row, new) /\ <<rows[row].status, new.status>> \in Moves
      BY <2>4, <3>1 DEF LogDryrun, Moves
    <3>3. QED
      BY <2>0, <3>1, <3>2, UpdateMoves
  <2>5. CASE RecordOpen
    <3> DEFINE new == [rows[row] EXCEPT !.status = "open", !.oid = ord]
    <3>1. new.status = "open" /\ row \in RowIds /\ rows[row].status = "pending"
      BY <2>3, <2>5 DEF RecordOpen, RowType
    <3>2. UpdateRow(row, new) /\ <<rows[row].status, new.status>> \in Moves
      BY <2>5, <3>1 DEF RecordOpen, Moves
    <3>3. QED
      BY <2>0, <3>1, <3>2, UpdateMoves
  <2>6. CASE RecordFill
    <3> DEFINE new == [rows[row] EXCEPT !.status = "filled", !.filledPrice = TRUE,
                           !.oid = IF wait = "market" THEN ord ELSE @]
    <3>1. new.status = "filled" /\ row \in RowIds /\ rows[row].status \in {"pending", "open"}
      BY <2>3, <2>6 DEF RecordFill, RowType
    <3>2. UpdateRow(row, new) /\ <<rows[row].status, new.status>> \in Moves
      BY <2>6, <3>1 DEF RecordFill, Moves
    <3>3. QED
      BY <2>0, <3>1, <3>2, UpdateMoves
  <2>7. CASE RecordError
    <3> DEFINE new == [rows[row] EXCEPT !.status = "error"]
    <3>1. new.status = "error" /\ row \in RowIds /\ rows[row].status \in {"pending", "open"}
      BY <2>3, <2>7 DEF RecordError, RowType
    <3>2. UpdateRow(row, new) /\ <<rows[row].status, new.status>> \in Moves
      BY <2>7, <3>1 DEF RecordError, Moves
    <3>3. QED
      BY <2>0, <3>1, <3>2, UpdateMoves
  <2>8. CASE MarkClosed
    <3>1. ASSUME NEW r \in OpenRows(sym),
                 UpdateRow(r, [rows[r] EXCEPT !.status = "closed", !.exitPrice = price,
                                 !.pnl = price /\ rows[r].filledPrice])
          PROVE  Forward
      <4> DEFINE new == [rows[r] EXCEPT !.status = "closed", !.exitPrice = price,
                            !.pnl = price /\ rows[r].filledPrice]
      <4>1. new.status = "closed" /\ r \in RowIds /\ rows[r].status \in {"open", "filled"}
        BY <2>0 DEF OpenRows, TypeOK, RowType
      <4>2. <<rows[r].status, new.status>> \in Moves
        BY <4>1 DEF Moves
      <4>3. QED
        BY <2>0, <3>1, <4>1, <4>2, UpdateMoves
    <3>2. QED
      BY <2>1, <2>8, <3>1 DEF MarkClosed
  <2>9. CASE Entry
    BY <2>1, <2>2, <2>4, <2>5, <2>6, <2>7, <2>9 DEF Entry, StartSignals, SkipSymbol,
         EndSignals, BeginTick, SkipTick,
       PlaceLimit, PlaceLimitFails, CancelLimit, PlaceMarket, PlaceMarketFails
  <2>10. CASE Poll
    BY <2>1, <2>10 DEF Poll, PollFilled, PollDead, PollAgain, PollInterrupted, PollDeadline
  <2>11. CASE Close
    BY <2>1, <2>8, <2>11 DEF Close, StartClose, StartCloseDryrun, PlaceClose,
         PlaceCloseFails,
       EndClose, Settle
  <2>12. CASE Broker
    BY <2>1, <2>12 DEF Broker, BrokerFill, BrokerCancel
  <2>13. CASE Process
    BY <2>1, <2>13 DEF Process, Sigterm, Hang, Untimed, Crash, Restart
  <2>14. CASE UNCHANGED vars
    BY <2>1, <2>14 DEF vars
  <2>15. QED
    BY <2>9, <2>10, <2>11, <2>12, <2>13, <2>14 DEF Next, Engine
<1>2. QED
  BY <1>1, Invariance, PTL DEF Spec, RowsMoveForward
-----------------------------------------------------------------------------
(* What holds with a prompt broker: one live order at most for a symbol, and *)
(* only while nothing of it is held; whatever is live or held has a row that *)
(* blocks a second entry.                                                    *)

OnLive  == pc \in {"placed", "cancel"} \/ (pc = "poll" /\ wait = "limit")
Closing == pc \in {"closing", "closed"} \/ (pc = "poll" /\ wait = "close")

LiveOrders(s) == {o \in OrderIds : orders[o].sym = s /\ orders[o].state \in Alive}

\* A live order is an entry order, the only one of a symbol nothing is held of.
LiveInv ==
    \A o \in OrderIds : orders[o].state \in Alive =>
        /\ orders[o].state = "working" /\ orders[o].row # 0 /\ orders[o].sym \in Symbols
        /\ pos[orders[o].sym] = 0 /\ HasOpenPosition(orders[o].sym)
        /\ LiveOrders(orders[o].sym) = {o}

\* What is held is known to the trades table.
HeldInv == \A s \in Symbols : pos[s] # 0 => HasOpenPosition(s)

\* What the engine thread may rely on where it stands.
PromptLocal ==
    /\ pc # "failed"
    /\ Entering => sym \in Symbols /\ rows[row].sym = sym
    /\ pc = "limit" => pos[sym] = 0
    /\ pc \in {"limit", "market"} => LiveOrders(sym) = {}
    /\ OnLive => LiveOrders(sym) \subseteq {ord}
    /\ pc = "poll" /\ wait # "limit" => orders[ord].state = "filled" /\ polls > 0
    /\ Closing => \A s \in todo : snap[s] = pos[s] /\ pos[s] # 0
    /\ Closing /\ pc # "closing" => sym \in Symbols /\ pos[sym] = 0 /\ LiveOrders(sym) = {}

\* The process that started first and did not crash: nothing is live but the
\* order it waits for, and what its close has dealt with is flat.
FirstRun ==
    restarts = 0 /\ pc # "down" =>
        /\ \A o \in OrderIds : orders[o].state \in Alive => OnLive /\ o = ord
        /\ Closing => \A s \in Symbols \ todo : pos[s] = 0
        /\ pc \in {"settled", "stopped"} \/ mode = "dryrun" => Flat

PromptInv == LiveInv /\ HeldInv /\ PromptLocal /\ FirstRun

\* A step that leaves the broker alone and unblocks nothing that is held or live.
LEMMA BrokerUnchanged ==
    ASSUME LiveInv, HeldInv, UNCHANGED <<orders, pos>>,
           \A s \in Symbols : (pos[s] # 0 \/ LiveOrders(s) # {}) /\ HasOpenPosition(s)
                                 => HasOpenPosition(s)'
    PROVE  LiveInv' /\ HeldInv' /\ (\A s : LiveOrders(s)' = LiveOrders(s)) /\ Flat' = Flat
<1>1. \A s : LiveOrders(s)' = LiveOrders(s)
  BY Zenon DEF LiveOrders
<1>2. Flat' = Flat
  BY DEF Flat
<1>3. LiveInv'
  <2>1. SUFFICES ASSUME NEW o \in OrderIds, NEW t, t = orders[o].sym, orders[o].state \in Alive
                 PROVE  /\ orders[o].state = "working" /\ orders[o].row # 0
                        /\ t \in Symbols /\ pos[t] = 0 /\ HasOpenPosition(t)'
                        /\ LiveOrders(t) = {o}
    BY <1>1, Zenon DEF LiveInv, HasOpenPosition
  <2>2. /\ orders[o].state = "working" /\ orders[o].row # 0
        /\ t \in Symbols /\ pos[t] = 0 /\ HasOpenPosition(t) /\ LiveOrders(t) = {o}
    BY <2>1, Zenon DEF LiveInv
  <2>3. QED
    BY <2>2
<1>4. HeldInv'
  BY DEF HeldInv
<1>5. QED
  BY <1>1, <1>2, <1>3, <1>4

\* A row that keeps its symbol and still blocks unblocks nothing.
LEMMA RowStillBlocks ==
    ASSUME TypeOK, NEW STATE r, r \in RowIds, NEW STATE new, UpdateRow(r, new),
           new.sym = rows[r].sym, new.status \in Blocking
    PROVE  \A s \in Symbols : HasOpenPosition(s) => HasOpenPosition(s)'
<1>1. rows \in [RowIds -> RowType]
  BY DEF TypeOK
<1>2. CASE UNCHANGED dbVars
  BY <1>2 DEF dbVars, HasOpenPosition
<1>3. CASE rows' = [rows EXCEPT ![r] = new]
  <2>1. rows'[r] = new /\ \A q \in RowIds : q # r => rows'[q] = rows[q]
    BY <1>1, <1>3
  <2>2. QED
    BY <2>1 DEF HasOpenPosition
<1>4. QED
  BY <1>2, <1>3 DEF UpdateRow

\* What blocks does not depend on anything but the table.
LEMMA TableUnchanged ==
    UNCHANGED rows => \A s \in Symbols : HasOpenPosition(s) => HasOpenPosition(s)'
BY DEF HasOpenPosition

\* The row of an entry in progress blocks its symbol.
LEMMA EntryBlocks ==
    ASSUME LocalInv, PromptLocal, Entering PROVE HasOpenPosition(sym)
BY DEF LocalInv, PromptLocal, HasOpenPosition, Blocking

\* A live order that is filled or cancelled: only its symbol's position moves.
LEMMA OrderEnds ==
    ASSUME TypeOK, LiveInv, HeldInv, UNCHANGED rows,
           NEW STATE o, o \in OrderIds, orders[o].state \in Alive,
           NEW CONSTANT st \in {"filled", "cancelled"},
           orders' = [orders EXCEPT ![o].state = st],
           \A t \in Symbols : t # orders[o].sym => pos'[t] = pos[t]
    PROVE  /\ LiveInv' /\ HeldInv' /\ (\A s : LiveOrders(s)' = LiveOrders(s) \ {o})
           /\ orders'[o].state = st /\ \A p \in OrderIds : p # o => orders'[p] = orders[p]
<1>1. /\ orders'[o] = [orders[o] EXCEPT !.state = st]
      /\ \A p \in OrderIds : p # o => orders'[p] = orders[p]
  BY DEF TypeOK
<1>2. orders'[o].sym = orders[o].sym /\ orders'[o].state = st
  BY <1>1 DEF TypeOK, OrderType
<1>3. ASSUME NEW s PROVE LiveOrders(s)' = LiveOrders(s) \ {o}
  <2>1. \A p \in OrderIds : p \in LiveOrders(s)' <=> p \in LiveOrders(s) /\ p # o
    BY <1>1, <1>2 DEF LiveOrders, Alive
  <2>2. QED
    BY <2>1 DEF LiveOrders
<1>4. \A s \in Symbols : HasOpenPosition(s) => HasOpenPosition(s)'
  BY TableUnchanged
<1>5. LiveInv'
  <2>1. SUFFICES ASSUME NEW p \in OrderIds, NEW t, t = orders'[p].sym, orders'[p].state \in Alive
                 PROVE  /\ orders'[p].state = "working" /\ orders'[p].row # 0
                        /\ t \in Symbols /\ pos'[t] = 0 /\ HasOpenPosition(t)'
                        /\ LiveOrders(t)' = {p}
    BY DEF LiveInv, LiveOrders, HasOpenPosition
  <2>2. p # o /\ orders'[p] = orders[p]
    BY <1>1, <1>2, <2>1 DEF Alive
  <2>3. /\ orders[p].state = "working" /\ orders[p].row # 0 /\ t \in Symbols
        /\ pos[t] = 0 /\ HasOpenPosition(t) /\ LiveOrders(t) = {p}
    BY <2>1, <2>2 DEF LiveInv
  <2>4. t # orders[o].sym
    BY <2>2, <2>3 DEF LiveOrders
  <2>5. LiveOrders(t)' = {p}
    BY <1>3, <2>2, <2>3
  <2>6. HasOpenPosition(t)'
    BY <1>4, <2>3
  <2>7. QED
    BY <2>2, <2>3, <2>4, <2>5, <2>6
<1>6. HeldInv'
  <2>1. HasOpenPosition(orders[o].sym)
    BY DEF LiveInv
  <2>2. QED
    BY <1>4, <2>1 DEF HeldInv
<1>7. QED
  BY <1>1, <1>2, <1>3, <1>5, <1>6

\* The slot of a new order was empty.
LEMMA OrderSlot ==
    TypeOK /\ OrderInv /\ lastOrder + 1 \in OrderIds => orders[lastOrder + 1].state = "none"
BY DEF OrderInv, TypeOK, NoOrder

\* What becomes of a new order, and of the position, with a prompt broker.
LEMMA PromptOrder ==
    ASSUME TypeOK, PromptBroker, NEW STATE s, NEW STATE side, NEW STATE qty, NEW STATE r,
           NEW CONSTANT kind, PlaceOrder(s, side, qty, r, kind)
    PROVE  /\ kind = "MKT" => /\ orders'[lastOrder + 1].state = "filled"
                              /\ pos' = [pos EXCEPT ![s] = @ + Signed(side, qty)]
           /\ kind # "MKT" => orders'[lastOrder + 1].state = "working" /\ pos' = pos
<1>1. lastOrder + 1 \in OrderIds /\ orders \in [OrderIds -> OrderType]
  BY DEF TypeOK, PlaceOrder
<1>2. CASE kind = "MKT"
  BY <1>1, <1>2 DEF PlaceOrder
<1>3. CASE kind # "MKT"
  BY <1>1, <1>3 DEF PlaceOrder
<1>4. QED
  BY <1>2, <1>3

\* A market order fills as it arrives: nothing is live afterwards that was not.
LEMMA MarketPlaced ==
    ASSUME TypeOK, OrderInv, LiveInv, HeldInv, PromptBroker, UNCHANGED rows,
           NEW STATE s, s \in Symbols, NEW STATE side, NEW STATE qty, NEW STATE r,
           PlaceOrder(s, side, qty, r, "MKT"), LiveOrders(s) = {}, HasOpenPosition(s)
    PROVE  /\ LiveInv' /\ HeldInv' /\ (\A t : LiveOrders(t)' = LiveOrders(t))
           /\ orders'[lastOrder + 1].state = "filled"
           /\ \A p \in OrderIds : orders'[p].state \in Alive => orders[p].state \in Alive
<1> DEFINE n == lastOrder + 1
<1>1. /\ n \in OrderIds /\ orders[n].state = "none" /\ orders'[n].state = "filled"
      /\ \A p \in OrderIds : p # n => orders'[p] = orders[p]
      /\ \A t \in Symbols : t # s => pos'[t] = pos[t]
  <2>1. pos' = [pos EXCEPT ![s] = @ + Signed(side, qty)] /\ orders'[n].state = "filled"
    BY PromptOrder
  <2>2. \A t \in Symbols : t # s => pos'[t] = pos[t]
    BY <2>1 DEF TypeOK
  <2>3. /\ n \in OrderIds /\ orders[n].state = "none"
        /\ \A p \in OrderIds : p # n => orders'[p] = orders[p]
    BY NewOrder, OrderSlot
  <2>4. QED
    BY <2>1, <2>2, <2>3
<1> HIDE DEF n
<1>2. ASSUME NEW t PROVE LiveOrders(t)' = LiveOrders(t)
  <2>1. \A p \in OrderIds : p \in LiveOrders(t)' <=> p \in LiveOrders(t)
    BY <1>1 DEF LiveOrders, Alive
  <2>2. QED
    BY <2>1 DEF LiveOrders
<1>3. \A t \in Symbols : HasOpenPosition(t) => HasOpenPosition(t)'
  BY TableUnchanged
<1>4. LiveInv'
  <2>1. SUFFICES ASSUME NEW p \in OrderIds, NEW t, t = orders'[p].sym, orders'[p].state \in Alive
                 PROVE  /\ orders'[p].state = "working" /\ orders'[p].row # 0
                        /\ t \in Symbols /\ pos'[t] = 0 /\ HasOpenPosition(t)'
                        /\ LiveOrders(t)' = {p}
    BY DEF LiveInv, LiveOrders, HasOpenPosition
  <2>2. p # n /\ orders'[p] = orders[p]
    BY <1>1, <2>1 DEF Alive
  <2>3. /\ orders[p].state = "working" /\ orders[p].row # 0 /\ t \in Symbols
        /\ pos[t] = 0 /\ HasOpenPosition(t) /\ LiveOrders(t) = {p}
    BY <2>1, <2>2 DEF LiveInv
  <2>4. t # s
    BY <2>3
  <2>5. QED
    BY <1>1, <1>2, <1>3, <2>2, <2>3, <2>4
<1>5. HeldInv'
  BY <1>1, <1>3 DEF HeldInv
<1>6. \A p \in OrderIds : orders'[p].state \in Alive => orders[p].state \in Alive
  BY <1>1 DEF Alive
<1>7. QED
  BY <1>1, <1>2, <1>4, <1>5, <1>6 DEF n

\* The limit order of an entry becomes the one live order of its symbol.
LEMMA LimitPlaced ==
    ASSUME TypeOK, OrderInv, LiveInv, HeldInv, PromptBroker, UNCHANGED rows,
           NEW STATE s, s \in Symbols, NEW STATE side, NEW STATE qty,
           NEW STATE r, r # 0, PlaceOrder(s, side, qty, r, "LMT"),
           LiveOrders(s) = {}, HasOpenPosition(s), pos[s] = 0
    PROVE  /\ LiveInv' /\ HeldInv' /\ pos' = pos
           /\ \A t : t = s => LiveOrders(t)' = {lastOrder + 1}
           /\ \A p \in OrderIds : orders'[p].state \in Alive =>
                  p = lastOrder + 1 \/ orders[p].state \in Alive
<1> DEFINE n == lastOrder + 1
<1>1. /\ n \in OrderIds /\ orders[n].state = "none" /\ pos' = pos
      /\ orders'[n].state = "working" /\ orders'[n].sym = s /\ orders'[n].row = r
      /\ \A p \in OrderIds : p # n => orders'[p] = orders[p]
  <2>1. pos' = pos /\ orders'[n].state = "working"
    BY PromptOrder
  <2>2. /\ n \in OrderIds /\ orders[n].state = "none"
        /\ \A p \in OrderIds : p # n => orders'[p] = orders[p]
        /\ orders'[n].sym = s /\ orders'[n].row = r
    BY NewOrder, OrderSlot
  <2>3. QED
    BY <2>1, <2>2
<1> HIDE DEF n
<1>2. ASSUME NEW t, t = s PROVE LiveOrders(t)' = {n}
  <2>1. \A p \in OrderIds : p \in LiveOrders(t)' <=> p = n
    BY <1>1, <1>2 DEF LiveOrders, Alive
  <2>2. QED
    BY <1>1, <2>1 DEF LiveOrders
<1>3. ASSUME NEW t, t # s PROVE LiveOrders(t)' = LiveOrders(t)
  <2>1. \A p \in OrderIds : p \in LiveOrders(t)' <=> p \in LiveOrders(t)
    BY <1>1, <1>3 DEF LiveOrders, Alive
  <2>2. QED
    BY <2>1 DEF LiveOrders
<1>4. \A t \in Symbols : HasOpenPosition(t) => HasOpenPosition(t)'
  BY TableUnchanged
<1>5. LiveInv'
  <2>1. SUFFICES ASSUME NEW p \in OrderIds, NEW t, t = orders'[p].sym, orders'[p].state \in Alive
                 PROVE  /\ orders'[p].state = "working" /\ orders'[p].row # 0
                        /\ t \in Symbols /\ pos'[t] = 0 /\ HasOpenPosition(t)'
                        /\ LiveOrders(t)' = {p}
    BY DEF LiveInv, LiveOrders, HasOpenPosition
  <2>2. CASE p = n
    <3>1. t = s
      BY <1>1, <2>1, <2>2
    <3>2. LiveOrders(t)' = {p} /\ HasOpenPosition(t)'
      BY <1>2, <1>4, <2>2, <3>1
    <3>3. QED
      BY <1>1, <2>2, <3>1, <3>2
  <2>3. CASE p # n
    <3>1. orders'[p] = orders[p]
      BY <1>1, <2>3
    <3>2. /\ orders[p].state = "working" /\ orders[p].row # 0 /\ t \in Symbols
          /\ pos[t] = 0 /\ HasOpenPosition(t) /\ LiveOrders(t) = {p}
      BY <2>1, <3>1 DEF LiveInv
    <3>3. LiveOrders(t)' = {p} /\ HasOpenPosition(t)'
      BY <1>3, <1>4, <3>2
    <3>4. QED
      BY <1>1, <3>1, <3>2, <3>3
  <2>4. QED
    BY <2>2, <2>3
<1>6. HeldInv'
  BY <1>1, <1>4 DEF HeldInv
<1>7. QED
  BY <1>1, <1>2, <1>5, <1>6 DEF n

LEMMA NextPrompt == PromptBroker /\ IInv /\ PromptInv /\ [Next]_vars => PromptInv'
<1> SUFFICES ASSUME PromptBroker, IInv, PromptInv, [Next]_vars PROVE PromptInv'
  OBVIOUS
<1> USE DEF loopVars, waitVars, closeVars, procVars, dbVars, brokerVars
<1>0. /\ TypeOK /\ LocalInv /\ OrderInv /\ RowInv /\ LiveInv /\ HeldInv
      /\ PromptLocal /\ FirstRun
  BY DEF IInv, DataInv, PromptInv
<1>same. ASSUME UNCHANGED <<rows, orders, pos>>
      PROVE  LiveInv' /\ HeldInv' /\ (\A s : LiveOrders(s)' = LiveOrders(s)) /\ Flat' = Flat
  BY <1>0, <1>same, TableUnchanged, BrokerUnchanged
<1>1. ASSUME NEW w \in SUBSET Symbols, StartSignals(w) PROVE PromptInv'
  <2>1. UNCHANGED <<rows, orders, pos>>
    BY <1>1 DEF StartSignals
  <2>2. PromptLocal'
    BY <1>0, <1>1, <1>same, <2>1 DEF StartSignals, PromptLocal, Entering, Sending,
         OnLive, Closing
  <2>3. FirstRun'
    BY <1>0, <1>1, <1>same, <2>1
       DEF StartSignals, PromptLocal, FirstRun, Entering, Sending, OnLive, Closing
  <2>4. QED
    BY <1>same, <2>1, <2>2, <2>3 DEF PromptInv
<1>2. ASSUME NEW s \in Symbols, SkipSymbol(s) PROVE PromptInv'
  <2>1. UNCHANGED <<rows, orders, pos>>
    BY <1>2 DEF SkipSymbol
  <2>2. PromptLocal'
    BY <1>0, <1>2, <1>same, <2>1 DEF SkipSymbol, PromptLocal, Entering, Sending, OnLive,
         Closing
  <2>3. FirstRun'
    BY <1>0, <1>2, <1>same, <2>1
       DEF SkipSymbol, PromptLocal, FirstRun, Entering, Sending, OnLive, Closing
  <2>4. QED
    BY <1>same, <2>1, <2>2, <2>3 DEF PromptInv
<1>3. ASSUME NEW s \in Symbols, NEW side \in EntrySides, EnterSymbol(s, side) PROVE PromptInv'
  <2>1. /\ lastRow + 1 \in RowIds /\ rows[lastRow + 1].status = "none"
        /\ rows'[lastRow + 1].sym = s /\ sym' = s /\ row' = lastRow + 1
        /\ \A q \in RowIds : q # lastRow + 1 => rows'[q] = rows[q]
        /\ ~HasOpenPosition(s) /\ pc = "signals" /\ pc' \in {"dryrun", "limit"}
        /\ UNCHANGED <<orders, pos, restarts, mode, wait>>
    BY <1>0, <1>3 DEF EnterSymbol, TypeOK, RowInv, NoRow, NewRow
  <2>2. \A t \in Symbols : HasOpenPosition(t) => HasOpenPosition(t)'
    BY <2>1 DEF HasOpenPosition, Blocking
  <2>3. LiveInv' /\ HeldInv' /\ (\A t : LiveOrders(t)' = LiveOrders(t)) /\ Flat' = Flat
    BY <1>0, <2>1, <2>2, BrokerUnchanged
  <2>4. pos[s] = 0
    BY <1>0, <2>1 DEF HeldInv
  <2>5. LiveOrders(s) = {}
    BY <1>0, <2>1 DEF LiveInv, LiveOrders
  <2>6. PromptLocal'
    BY <2>1, <2>3, <2>4, <2>5 DEF PromptLocal, Entering, Sending, OnLive, Closing
  <2>7. FirstRun'
    BY <1>0, <2>1, <2>3 DEF FirstRun, Entering, Sending, OnLive, Closing
  <2>8. QED
    BY <2>3, <2>6, <2>7 DEF PromptInv
<1>4. CASE EndSignals \/ BeginTick \/ SkipTick \/ Hang
  <2>1. UNCHANGED <<rows, orders, pos>>
    BY <1>4 DEF EndSignals, BeginTick, SkipTick, Hang, Untimed
  <2>2. PromptLocal'
    BY <1>0, <1>4, <1>same, <2>1 DEF EndSignals, BeginTick, SkipTick, Hang, Untimed,
         PromptLocal, Entering, Sending, OnLive, Closing
  <2>3. FirstRun'
    BY <1>0, <1>4, <1>same, <2>1
       DEF EndSignals, BeginTick, SkipTick, Hang, Untimed, PromptLocal, FirstRun,
       Entering, Sending, OnLive, Closing
  <2>4. QED
    BY <1>same, <2>1, <2>2, <2>3 DEF PromptInv
<1>5. CASE LogDryrun
  <2> DEFINE new == [rows[row] EXCEPT !.status = "dryrun", !.filledPrice = TRUE]
  <2>1. row \in RowIds /\ new.sym = rows[row].sym /\ new.status \in Blocking
    BY <1>0, <1>5 DEF LogDryrun, TypeOK, RowType, LocalInv, Entering, Sending, Blocking
  <2>2. UpdateRow(row, new)
    BY <1>5 DEF LogDryrun
  <2> HIDE DEF new
  <2>3. \A s \in Symbols : HasOpenPosition(s) => HasOpenPosition(s)'
    BY <1>0, <2>1, <2>2, RowStillBlocks
  <2>4. rows'[row].sym = rows[row].sym
    BY <1>0, <2>1, <2>2 DEF UpdateRow, TypeOK
  <2>5. UNCHANGED <<orders, pos, restarts, mode, wait, ord, row, sym, todo, polls, snap>>
    BY <1>5 DEF LogDryrun
  <2>6. LiveInv' /\ HeldInv' /\ (\A s : LiveOrders(s)' = LiveOrders(s)) /\ Flat' = Flat
    BY <1>0, <2>3, <2>5, BrokerUnchanged
  <2>7. PromptLocal'
    BY <1>0, <1>5, <2>4, <2>5, <2>6
       DEF LogDryrun, PromptLocal, LocalInv, Entering, Sending, OnLive, Closing
  <2>8. FirstRun'
    BY <1>0, <1>5, <2>5, <2>6
       DEF LogDryrun, PromptLocal, LocalInv, FirstRun, Entering, Sending, OnLive, Closing
  <2>9. QED
    BY <2>6, <2>7, <2>8 DEF PromptInv
<1>6. CASE PlaceLimit
  <2>1. /\ PlaceOrder(sym, rows[row].side, 1, row, "LMT") /\ pc' = "placed" /\ pc = "limit"
        /\ wait' = "limit" /\ ord' = lastOrder + 1
        /\ UNCHANGED <<rows, restarts, mode, row, sym, todo, snap>>
    BY <1>6 DEF PlaceLimit, StartWait
  <2>2. sym \in Symbols /\ row # 0 /\ pos[sym] = 0 /\ LiveOrders(sym) = {} /\ HasOpenPosition(sym)
    BY <1>0, <2>1, EntryBlocks DEF PromptLocal, LocalInv, Entering, Sending
  <2>3. /\ LiveInv' /\ HeldInv' /\ pos' = pos
        /\ \A t : t = sym => LiveOrders(t)' = {lastOrder + 1}
        /\ \A p \in OrderIds : orders'[p].state \in Alive =>
               p = lastOrder + 1 \/ orders[p].state \in Alive
    BY <1>0, <2>1, <2>2, LimitPlaced
  <2>4. LiveOrders(sym)' \subseteq {ord'}
    BY <2>1, <2>3 DEF LiveOrders
  <2>5. PromptLocal'
    BY <1>0, <2>1, <2>3, <2>4 DEF PromptLocal, Entering, Sending, OnLive, Closing
  <2>6. FirstRun'
    BY <1>0, <2>1, <2>3 DEF FirstRun, LocalInv, Sending, OnLive, Closing
  <2>7. QED
    BY <2>3, <2>5, <2>6 DEF PromptInv
<1>7. CASE PlaceLimitFails \/ PlaceMarketFails \/ RecordError
  BY <1>0, <1>7 DEF PlaceLimitFails, PlaceMarketFails, RecordError, PromptLocal
<1>8. CASE RecordOpen
  <2> DEFINE new == [rows[row] EXCEPT !.status = "open", !.oid = ord]
  <2>1. row \in RowIds /\ new.sym = rows[row].sym /\ new.status \in Blocking
    BY <1>0, <1>8 DEF RecordOpen, TypeOK, RowType, LocalInv, Entering, Sending, Blocking
  <2>2. UpdateRow(row, new)
    BY <1>8 DEF RecordOpen
  <2> HIDE DEF new
  <2>3. \A s \in Symbols : HasOpenPosition(s) => HasOpenPosition(s)'
    BY <1>0, <2>1, <2>2, RowStillBlocks
  <2>4. rows'[row].sym = rows[row].sym
    BY <1>0, <2>1, <2>2 DEF UpdateRow, TypeOK
  <2>5. UNCHANGED <<orders, pos, restarts, mode, wait, ord, row, sym, todo, polls, snap>>
    BY <1>8 DEF RecordOpen
  <2>6. LiveInv' /\ HeldInv' /\ (\A s : LiveOrders(s)' = LiveOrders(s)) /\ Flat' = Flat
    BY <1>0, <2>3, <2>5, BrokerUnchanged
  <2>7. PromptLocal'
    BY <1>0, <1>8, <2>4, <2>5, <2>6
       DEF RecordOpen, PromptLocal, LocalInv, Entering, Sending, OnLive, Closing
  <2>8. FirstRun'
    BY <1>0, <1>8, <2>5, <2>6
       DEF RecordOpen, PromptLocal, LocalInv, FirstRun, Entering, Sending, OnLive, Closing
  <2>9. QED
    BY <2>6, <2>7, <2>8 DEF PromptInv
<1>9. CASE CancelLimit
  <2>1. /\ pc = "cancel" /\ pc' = "market" /\ ord \in OrderIds
        /\ UNCHANGED <<rows, pos, restarts, mode, row, sym, todo, snap, ord, wait>>
    BY <1>0, <1>9 DEF CancelLimit, LocalInv, OnLimit
  <2>2. LiveOrders(sym) \subseteq {ord}
    BY <1>0, <2>1 DEF PromptLocal, OnLive
  <2>3. CASE orders[ord].state = "working"
    <3>1. orders' = [orders EXCEPT ![ord].state = "cancelled"] /\ orders[ord].state \in Alive
      BY <1>9, <2>3 DEF CancelLimit, Alive
    <3>2. /\ LiveInv' /\ HeldInv' /\ (\A s : LiveOrders(s)' = LiveOrders(s) \ {ord})
          /\ orders'[ord].state = "cancelled"
          /\ \A p \in OrderIds : p # ord => orders'[p] = orders[p]
      BY <1>0, <2>1, <3>1, OrderEnds
    <3>3. LiveOrders(sym)' = {}
      BY <2>1, <2>2, <3>2
    <3>4. PromptLocal'
      BY <1>0, <2>1, <3>2, <3>3 DEF PromptLocal, Entering, Sending, OnLive, Closing
    <3>5. FirstRun'
      BY <1>0, <2>1, <3>2 DEF FirstRun, LocalInv, Sending, OnLive, Closing, Alive
    <3>6. QED
      BY <3>2, <3>4, <3>5 DEF PromptInv
  <2>4. CASE orders[ord].state # "working"
    <3>1. UNCHANGED orders
      BY <1>9, <2>4 DEF CancelLimit
    <3>2. orders[ord].state \notin Alive
      BY <1>0, <2>1, <2>4 DEF LiveInv
    <3>3. LiveOrders(sym) = {}
      BY <2>2, <3>2 DEF LiveOrders
    <3>4. PromptLocal'
      BY <1>0, <1>same, <2>1, <3>1, <3>3 DEF PromptLocal, Entering, Sending, OnLive, Closing
    <3>5. FirstRun'
      BY <1>0, <2>1, <3>1, <3>2 DEF FirstRun, LocalInv, Sending, OnLive, Closing
    <3>6. QED
      BY <1>same, <2>1, <3>1, <3>4, <3>5 DEF PromptInv
  <2>5. QED
    BY <2>3, <2>4
<1>10. CASE PlaceMarket
  <2>1. /\ PlaceOrder(sym, rows[row].side, 1, row, "MKT") /\ pc' = "poll" /\ pc = "market"
        /\ wait' = "market" /\ ord' = lastOrder + 1 /\ polls' = MaxPolls
        /\ UNCHANGED <<rows, restarts, mode, row, sym, todo, snap>>
    BY <1>10 DEF PlaceMarket, StartWait
  <2>2. sym \in Symbols /\ LiveOrders(sym) = {} /\ HasOpenPosition(sym)
    BY <1>0, <2>1, EntryBlocks DEF PromptLocal, LocalInv, Entering, Sending
  <2>3. /\ LiveInv' /\ HeldInv' /\ orders'[lastOrder + 1].state = "filled"
        /\ \A p \in OrderIds : orders'[p].state \in Alive => orders[p].state \in Alive
    BY <1>0, <2>1, <2>2, MarketPlaced
  <2>4. PromptLocal'
    BY <1>0, <2>1, <2>3 DEF PromptLocal, Entering, Sending, OnLive, Closing
  <2>5. FirstRun'
    BY <1>0, <2>1, <2>3 DEF FirstRun, LocalInv, Sending, OnLive, Closing
  <2>6. QED
    BY <2>3, <2>4, <2>5 DEF PromptInv
<1>12. CASE RecordFill
  <2> DEFINE new == [rows[row] EXCEPT !.status = "filled", !.filledPrice = TRUE,
                         !.oid = IF wait = "market" THEN ord ELSE @]
  <2>1. row \in RowIds /\ new.sym = rows[row].sym /\ new.status \in Blocking
    BY <1>0, <1>12 DEF RecordFill, TypeOK, RowType, LocalInv, Entering, Sending, Blocking
  <2>2. UpdateRow(row, new)
    BY <1>12 DEF RecordFill
  <2> HIDE DEF new
  <2>3. \A s \in Symbols : HasOpenPosition(s) => HasOpenPosition(s)'
    BY <1>0, <2>1, <2>2, RowStillBlocks
  <2>4. rows'[row].sym = rows[row].sym
    BY <1>0, <2>1, <2>2 DEF UpdateRow, TypeOK
  <2>5. UNCHANGED <<orders, pos, restarts, mode, wait, ord, row, sym, todo, polls, snap>>
    BY <1>12 DEF RecordFill
  <2>6. LiveInv' /\ HeldInv' /\ (\A s : LiveOrders(s)' = LiveOrders(s)) /\ Flat' = Flat
    BY <1>0, <2>3, <2>5, BrokerUnchanged
  <2>7. PromptLocal'
    BY <1>0, <1>12, <2>4, <2>5, <2>6
       DEF RecordFill, PromptLocal, LocalInv, Entering, Sending, OnLive, Closing
  <2>8. FirstRun'
    BY <1>0, <1>12, <2>5, <2>6
       DEF RecordFill, PromptLocal, LocalInv, FirstRun, Entering, Sending, OnLive, Closing
  <2>9. QED
    BY <2>6, <2>7, <2>8 DEF PromptInv
<1>14. CASE PollFilled
  <2>1. UNCHANGED <<rows, orders, pos>>
    BY <1>14 DEF PollFilled
  <2>2. PromptLocal'
    BY <1>0, <1>14, <1>same, <2>1 DEF PollFilled, PromptLocal, Entering, Sending, OnLive,
         Closing, WaitEnds, MaySee
  <2>3. FirstRun'
    BY <1>0, <1>14, <1>same, <2>1
       DEF PollFilled, PromptLocal, FirstRun, Entering, Sending, OnLive, Closing,
       WaitEnds, MaySee, Alive
  <2>4. QED
    BY <1>same, <2>1, <2>2, <2>3 DEF PromptInv
<1>15. CASE PollDead
  <2>1. UNCHANGED <<rows, orders, pos>>
    BY <1>15 DEF PollDead
  <2>2. PromptLocal'
    BY <1>0, <1>15, <1>same, <2>1 DEF PollDead, PromptLocal, Entering, Sending, OnLive,
         Closing, WaitEnds, MaySee
  <2>3. FirstRun'
    BY <1>0, <1>15, <1>same, <2>1
       DEF PollDead, PromptLocal, FirstRun, Entering, Sending, OnLive, Closing, WaitEnds,
       MaySee
  <2>4. QED
    BY <1>same, <2>1, <2>2, <2>3 DEF PromptInv
<1>16. CASE PollAgain
  <2>1. UNCHANGED <<rows, orders, pos>>
    BY <1>16 DEF PollAgain
  <2>2. PromptLocal'
    BY <1>0, <1>16, <1>same, <2>1 DEF PollAgain, PromptLocal, Entering, Sending, OnLive,
         Closing, WaitEnds, MaySee
  <2>3. FirstRun'
    BY <1>0, <1>16, <1>same, <2>1
       DEF PollAgain, PromptLocal, FirstRun, Entering, Sending, OnLive, Closing,
       WaitEnds, MaySee
  <2>4. QED
    BY <1>same, <2>1, <2>2, <2>3 DEF PromptInv
<1>17. CASE PollInterrupted
  <2>1. UNCHANGED <<rows, orders, pos>>
    BY <1>17 DEF PollInterrupted
  <2>2. PromptLocal'
    BY <1>0, <1>17, <1>same, <2>1 DEF PollInterrupted, PromptLocal, Entering, Sending,
         OnLive, Closing, WaitEnds, MaySee
  <2>3. FirstRun'
    BY <1>0, <1>17, <1>same, <2>1
       DEF PollInterrupted, PromptLocal, FirstRun, Entering, Sending, OnLive, Closing,
       WaitEnds, MaySee
  <2>4. QED
    BY <1>same, <2>1, <2>2, <2>3 DEF PromptInv
<1>18. CASE PollDeadline
  <2>1. UNCHANGED <<rows, orders, pos>>
    BY <1>18 DEF PollDeadline
  <2>2. PromptLocal'
    BY <1>0, <1>18, <1>same, <2>1 DEF PollDeadline, PromptLocal, Entering, Sending,
         OnLive, Closing, WaitEnds, MaySee
  <2>3. FirstRun'
    BY <1>0, <1>18, <1>same, <2>1
       DEF PollDeadline, PromptLocal, FirstRun, Entering, Sending, OnLive, Closing,
       WaitEnds, MaySee
  <2>4. QED
    BY <1>same, <2>1, <2>2, <2>3 DEF PromptInv
<1>19. ASSUME NEW why \in {"tick", "switch", "exit"}, NEW m \in Modes, StartClose(why, m) PROVE PromptInv'
  <2>1. UNCHANGED <<rows, orders, pos>>
    BY <1>19 DEF StartClose, CloseReason
  <2>2. PromptLocal'
    BY <1>0, <1>19, <1>same, <2>1 DEF StartClose, CloseReason, PromptLocal, Entering,
         Sending, OnLive, Closing, Flat
  <2>3. FirstRun'
    BY <1>0, <1>19, <1>same, <2>1
       DEF StartClose, CloseReason, PromptLocal, FirstRun, Entering, Sending, OnLive,
       Closing, Flat
  <2>4. QED
    BY <1>same, <2>1, <2>2, <2>3 DEF PromptInv
<1>20. ASSUME NEW why \in {"tick", "switch", "exit"}, NEW m \in Modes, StartCloseDryrun(why, m) PROVE PromptInv'
  <2>1. UNCHANGED <<rows, orders, pos>>
    BY <1>20 DEF StartCloseDryrun, CloseReason
  <2>2. PromptLocal'
    BY <1>0, <1>20, <1>same, <2>1 DEF StartCloseDryrun, CloseReason, PromptLocal,
         Entering, Sending, OnLive, Closing
  <2>3. FirstRun'
    BY <1>0, <1>20, <1>same, <2>1
       DEF StartCloseDryrun, CloseReason, PromptLocal, FirstRun, Entering, Sending,
       OnLive, Closing
  <2>4. QED
    BY <1>same, <2>1, <2>2, <2>3 DEF PromptInv
<1>21. ASSUME NEW s \in Symbols, PlaceClose(s) PROVE PromptInv'
  <2> DEFINE side == IF snap[s] > 0 THEN "SELL" ELSE "BUY"
             qty  == IF snap[s] > 0 THEN snap[s] ELSE 0 - snap[s]
  <2>1. /\ PlaceOrder(s, side, qty, 0, "MKT") /\ pc' = "poll" /\ pc = "closing"
        /\ wait' = "close" /\ ord' = lastOrder + 1 /\ polls' = MaxPolls
        /\ sym' = s /\ s \in todo /\ todo' = todo \ {s}
        /\ UNCHANGED <<rows, restarts, mode, row, snap>>
    BY <1>21 DEF PlaceClose, StartWait
  <2>2. snap[s] = pos[s] /\ pos[s] # 0 /\ pos[s] \in Int
    BY <1>0, <2>1 DEF PromptLocal, Closing, TypeOK
  <2>3. LiveOrders(s) = {} /\ HasOpenPosition(s)
    BY <1>0, <2>2 DEF LiveInv, HeldInv, LiveOrders
  <2>4. Signed(side, qty) = 0 - pos[s]
    BY <2>2 DEF Signed
  <2> HIDE DEF side, qty
  <2>5. /\ LiveInv' /\ HeldInv' /\ (\A t : LiveOrders(t)' = LiveOrders(t))
        /\ orders'[lastOrder + 1].state = "filled"
        /\ \A p \in OrderIds : orders'[p].state \in Alive => orders[p].state \in Alive
    BY <1>0, <2>1, <2>3, MarketPlaced
  <2>6. pos' = [pos EXCEPT ![s] = @ + Signed(side, qty)]
    BY <1>0, <2>1, PromptOrder
  <2>7. pos'[s] = 0 /\ \A t \in Symbols : t # s => pos'[t] = pos[t]
    BY <1>0, <2>2, <2>4, <2>6 DEF TypeOK
  <2>8. LiveOrders(s)' = {}
    BY <2>3, <2>5
  <2>9. PromptLocal'
    BY <1>0, <2>1, <2>5, <2>7, <2>8 DEF PromptLocal, Entering, Sending, OnLive, Closing,
         TypeOK
  <2>10. FirstRun'
    BY <1>0, <2>1, <2>5, <2>7 DEF FirstRun, LocalInv, Sending, OnLive, Closing
  <2>11. QED
    BY <2>5, <2>9, <2>10 DEF PromptInv
<1>22. ASSUME NEW s \in Symbols, PlaceCloseFails(s) PROVE PromptInv'
  BY <1>22 DEF PlaceCloseFails
<1>23. CASE MarkClosed
  <2>1. /\ pc = "closed" /\ pc' = "closing" /\ sym \in Symbols
        /\ pos[sym] = 0 /\ LiveOrders(sym) = {}
        /\ UNCHANGED <<orders, pos, restarts, mode, wait, ord, row, sym, todo, polls, snap>>
    BY <1>0, <1>23 DEF MarkClosed, PromptLocal, Closing
  <2>2. \A s \in Symbols : (pos[s] # 0 \/ LiveOrders(s) # {}) /\ HasOpenPosition(s)
                                => HasOpenPosition(s)'
    <3>1. SUFFICES ASSUME NEW s \in Symbols, s # sym, HasOpenPosition(s)
                   PROVE  HasOpenPosition(s)'
      BY <2>1
    <3>2. PICK q \in RowIds : rows[q].sym = s /\ rows[q].status \in Blocking
      BY <3>1 DEF HasOpenPosition
    <3>3. rows'[q] = rows[q]
      BY <1>0, <1>23, <3>1, <3>2 DEF MarkClosed, OpenRows, UpdateRow, TypeOK
    <3>4. QED
      BY <3>2, <3>3 DEF HasOpenPosition
  <2>3. LiveInv' /\ HeldInv' /\ (\A s : LiveOrders(s)' = LiveOrders(s)) /\ Flat' = Flat
    BY <1>0, <2>1, <2>2, BrokerUnchanged
  <2>4. PromptLocal'
    BY <1>0, <2>1, <2>3 DEF PromptLocal, Entering, Sending, OnLive, Closing
  <2>5. FirstRun'
    BY <1>0, <2>1, <2>3 DEF FirstRun, LocalInv, Sending, OnLive, Closing
  <2>6. QED
    BY <2>3, <2>4, <2>5 DEF PromptInv
<1>24. CASE EndClose
  <2>1. UNCHANGED <<rows, orders, pos>>
    BY <1>24 DEF EndClose
  <2>2. PromptLocal'
    BY OnwardPlaces, <1>0, <1>24, <1>same, <2>1 DEF EndClose, PromptLocal, Entering,
         Sending,
         OnLive, Closing, Flat
  <2>3. FirstRun'
    BY OnwardPlaces, <1>0, <1>24, <1>same, <2>1
       DEF EndClose, PromptLocal, FirstRun, Entering, Sending, OnLive, Closing, Flat
  <2>4. QED
    BY <1>same, <2>1, <2>2, <2>3 DEF PromptInv
<1>25. CASE Settle
  <2>1. UNCHANGED <<rows, orders, pos>>
    BY <1>25 DEF Settle
  <2>2. PromptLocal'
    BY OnwardPlaces, <1>0, <1>25, <1>same, <2>1 DEF Settle, PromptLocal, Entering, Sending,
         OnLive, Closing
  <2>3. FirstRun'
    BY OnwardPlaces, <1>0, <1>25, <1>same, <2>1
       DEF Settle, PromptLocal, FirstRun, Entering, Sending, OnLive, Closing
  <2>4. QED
    BY <1>same, <2>1, <2>2, <2>3 DEF PromptInv
<1>26. ASSUME NEW o \in OrderIds, BrokerFill(o) PROVE PromptInv'
  <2>1. /\ orders[o].state \in Alive /\ orders' = [orders EXCEPT ![o].state = "filled"]
        /\ \A t \in Symbols : t # orders[o].sym => pos'[t] = pos[t]
        /\ UNCHANGED <<pc, restarts, mode, row, rows, sym, todo, snap, ord, wait, polls>>
    BY <1>0, <1>26 DEF BrokerFill, TypeOK
  <2>2. /\ LiveInv' /\ HeldInv' /\ (\A s : LiveOrders(s)' = LiveOrders(s) \ {o})
        /\ orders'[o].state = "filled" /\ \A p \in OrderIds : p # o => orders'[p] = orders[p]
    BY <1>0, <2>1, OrderEnds
  <2>3. pos[orders[o].sym] = 0 /\ o \in LiveOrders(orders[o].sym)
    BY <1>0, <2>1 DEF LiveInv, LiveOrders
  <2>4. \A s \in Symbols : pos[s] # 0 \/ LiveOrders(s) = {} => pos'[s] = pos[s]
    BY <2>1, <2>3
  <2>5. pc = "poll" /\ wait # "limit" => o # ord
    BY <1>0, <2>1 DEF PromptLocal, Alive
  <2>6. PromptLocal'
    BY <1>0, <2>1, <2>2, <2>4, <2>5 DEF PromptLocal, Entering, Sending, OnLive, Closing,
         TypeOK
  <2>7. FirstRun'
    BY <1>0, <2>1, <2>2 DEF FirstRun, LocalInv, Sending, OnLive, Closing, Alive
  <2>8. QED
    BY <2>2, <2>6, <2>7 DEF PromptInv
<1>27. ASSUME NEW o \in OrderIds, BrokerCancel(o) PROVE PromptInv'
  <2>1. /\ orders[o].state \in Alive /\ orders' = [orders EXCEPT ![o].state = "cancelled"]
        /\ \A t \in Symbols : t # orders[o].sym => pos'[t] = pos[t]
        /\ UNCHANGED <<pc, restarts, mode, row, rows, sym, todo, snap, ord, wait, polls>>
    BY <1>0, <1>27 DEF BrokerCancel, TypeOK
  <2>2. /\ LiveInv' /\ HeldInv' /\ (\A s : LiveOrders(s)' = LiveOrders(s) \ {o})
        /\ orders'[o].state = "cancelled" /\ \A p \in OrderIds : p # o => orders'[p] = orders[p]
    BY <1>0, <2>1, OrderEnds
  <2>3. pos[orders[o].sym] = 0 /\ o \in LiveOrders(orders[o].sym)
    BY <1>0, <2>1 DEF LiveInv, LiveOrders
  <2>4. \A s \in Symbols : pos[s] # 0 \/ LiveOrders(s) = {} => pos'[s] = pos[s]
    BY <2>1, <2>3
  <2>5. pc = "poll" /\ wait # "limit" => o # ord
    BY <1>0, <2>1 DEF PromptLocal, Alive
  <2>6. PromptLocal'
    BY <1>0, <2>1, <2>2, <2>4, <2>5 DEF PromptLocal, Entering, Sending, OnLive, Closing,
         TypeOK
  <2>7. FirstRun'
    BY <1>0, <2>1, <2>2 DEF FirstRun, LocalInv, Sending, OnLive, Closing, Alive
  <2>8. QED
    BY <2>2, <2>6, <2>7 DEF PromptInv
<1>28. CASE Sigterm
  <2>1. UNCHANGED <<rows, orders, pos>>
    BY <1>28 DEF Sigterm
  <2>2. PromptLocal'
    BY <1>0, <1>28, <1>same, <2>1 DEF Sigterm, PromptLocal, Entering, Sending, OnLive,
         Closing
  <2>3. FirstRun'
    BY <1>0, <1>28, <1>same, <2>1
       DEF Sigterm, PromptLocal, FirstRun, Entering, Sending, OnLive, Closing
  <2>4. QED
    BY <1>same, <2>1, <2>2, <2>3 DEF PromptInv
<1>29. CASE Crash
  <2>1. UNCHANGED <<rows, orders, pos>>
    BY <1>29 DEF Crash
  <2>2. PromptLocal'
    BY <1>0, <1>29, <1>same, <2>1 DEF Crash, PromptLocal, Entering, Sending, OnLive, Closing
  <2>3. FirstRun'
    BY <1>0, <1>29, <1>same, <2>1
       DEF Crash, PromptLocal, FirstRun, Entering, Sending, OnLive, Closing
  <2>4. QED
    BY <1>same, <2>1, <2>2, <2>3 DEF PromptInv
<1>30. CASE Restart
  <2>1. UNCHANGED <<rows, orders, pos>>
    BY <1>30 DEF Restart
  <2>2. PromptLocal'
    BY <1>0, <1>30, <1>same, <2>1 DEF Restart, PromptLocal, Entering, Sending, OnLive,
         Closing
  <2>3. FirstRun'
    BY <1>0, <1>30, <1>same, <2>1
       DEF Restart, FirstRun, TypeOK
  <2>4. QED
    BY <1>same, <2>1, <2>2, <2>3 DEF PromptInv
<1>31. CASE UNCHANGED vars
  <2>1. UNCHANGED <<rows, orders, pos>>
    BY <1>31 DEF vars
  <2>2. PromptLocal'
    BY <1>0, <1>31, <1>same, <2>1 DEF vars, PromptLocal, Entering, Sending, OnLive, Closing
  <2>3. FirstRun'
    BY <1>0, <1>31, <1>same, <2>1
       DEF vars, PromptLocal, FirstRun, Entering, Sending, OnLive, Closing
  <2>4. QED
    BY <1>same, <2>1, <2>2, <2>3 DEF PromptInv
<1>32. QED
  BY <1>1, <1>2, <1>3, <1>4, <1>5, <1>6, <1>7, <1>8, <1>9, <1>10, <1>12, <1>14, <1>15,
     <1>16, <1>17, <1>18, <1>19, <1>20, <1>21, <1>22, <1>23, <1>24, <1>25, <1>26, <1>27,
     <1>28, <1>29, <1>30, <1>31 DEF Next, Engine, Entry, Poll, Close, Broker, Process

LEMMA InitPrompt == Init => PromptInv
<1> SUFFICES ASSUME Init PROVE PromptInv
  OBVIOUS
<1>1. /\ \A o \in OrderIds : orders[o].state \notin Alive
      /\ \A s \in Symbols : pos[s] = 0
      /\ pc = "idle"
  BY DEF Init, NoOrder, Alive
<1>2. LiveInv
  BY <1>1 DEF LiveInv
<1>3. HeldInv
  BY <1>1 DEF HeldInv
<1>4. PromptLocal
  BY <1>1 DEF PromptLocal, Entering, Sending, OnLive, Closing
<1>5. FirstRun
  BY <1>1 DEF FirstRun, Closing, Flat
<1>6. QED
  BY <1>2, <1>3, <1>4, <1>5 DEF PromptInv

LEMMA PromptInvariance == ASSUME PromptBroker PROVE Spec => [](IInv /\ PromptInv)
<1>1. IInv /\ PromptInv /\ [Next]_vars => PromptInv'
  BY NextPrompt
<1>2. QED
  BY InitInv, NextInv, InitPrompt, <1>1, PTL DEF Spec

\* With a prompt broker, the first process leaves nothing held and nothing to fill
\* when it has stopped, and whenever it stands idle in dryrun (engine.py:216-220,
\* 673-675), if it did not crash before.
THEOREM FirstProcessEndsFlat == ASSUME PromptBroker PROVE Spec => []NoOvernightExposure
<1>1. PromptInv => NoOvernightExposure
  <2> SUFFICES ASSUME PromptInv, restarts = 0, pc = "stopped" \/ (pc \in {"idle", "tick"} /\ mode = "dryrun")
               PROVE  Flat /\ Quiet
    BY DEF NoOvernightExposure
  <2>1. Flat /\ \A o \in OrderIds : orders[o].state \in Alive => OnLive
    BY DEF PromptInv, FirstRun
  <2>2. QED
    BY <2>1 DEF OnLive, Quiet
<1>2. QED
  BY <1>1, PromptInvariance, PTL

\* With a prompt broker a row is created for a symbol only while none of it is held
\* and nothing is live for it: the check at engine.py:508 suffices, whatever crashed
\* and whatever update of the table was lost.
THEOREM EntriesStartFlat == ASSUME PromptBroker PROVE Spec => EntersFlatOnly
<1> DEFINE A == lastRow' # lastRow /\ mode # "dryrun" =>
                  /\ pos[sym'] = 0
                  /\ \A o \in OrderIds : orders[o].sym = sym' => orders[o].state \notin Alive
<1>1. IInv /\ PromptInv /\ [Next]_vars => A
  <2> SUFFICES ASSUME IInv, PromptInv, [Next]_vars, lastRow' # lastRow
               PROVE  /\ pos[sym'] = 0
                      /\ \A o \in OrderIds : orders[o].sym = sym' => orders[o].state \notin Alive
    OBVIOUS
  <2> USE DEF loopVars, waitVars, closeVars, procVars, dbVars, brokerVars
  <2>1. PICK s \in Symbols, side \in EntrySides : EnterSymbol(s, side)
    <3>1. CASE Entry
      BY <3>1 DEF Entry, StartSignals, SkipSymbol, EndSignals, BeginTick, SkipTick,
           LogDryrun, PlaceLimit,
         PlaceLimitFails, RecordOpen, CancelLimit, PlaceMarket, PlaceMarketFails,
         RecordFill,
         RecordError, UpdateRow
    <3>2. CASE Poll
      BY <3>2 DEF Poll, PollFilled, PollDead, PollAgain, PollInterrupted, PollDeadline
    <3>3. CASE Close
      BY <3>3 DEF Close, StartClose, StartCloseDryrun, PlaceClose, PlaceCloseFails,
         MarkClosed, EndClose, Settle, UpdateRow
    <3>4. CASE Broker
      BY <3>4 DEF Broker, BrokerFill, BrokerCancel
    <3>5. CASE Process
      BY <3>5 DEF Process, Sigterm, Hang, Untimed, Crash, Restart
    <3>6. CASE UNCHANGED vars
      BY <3>6 DEF vars
    <3>7. QED
      BY <3>1, <3>2, <3>3, <3>4, <3>5, <3>6 DEF Next, Engine
  <2>2. sym' = s /\ ~HasOpenPosition(s)
    BY <2>1 DEF EnterSymbol
  <2>3. QED
    BY <2>2 DEF PromptInv, HeldInv, LiveInv
<1>2. QED
  BY <1>1, PromptInvariance, PTL DEF Spec, EntersFlatOnly

\* With a prompt broker a close order that fills reduces the position it was sized
\* from: no fill came between the snapshot and it (eod_close.py:81-102).
THEOREM CloseOrdersReduce == ASSUME PromptBroker PROVE Spec => ClosesOnlyReduce
<1> DEFINE Closes(o) == /\ orders'[o].kind # "none" /\ orders'[o].row = 0
                        /\ orders'[o].state = "filled" /\ orders[o].state # "filled"
           A == \A o \in OrderIds :
                   Closes(o) => LET s == orders'[o].sym IN Abs(pos'[s]) < Abs(pos[s])
<1>1. IInv /\ PromptInv /\ [Next]_vars => A
  <2> SUFFICES ASSUME IInv, PromptInv, [Next]_vars, NEW o \in OrderIds, Closes(o),
                      NEW s, s = orders'[o].sym
               PROVE  Abs(pos'[s]) < Abs(pos[s])
    OBVIOUS
  <2> USE DEF loopVars, waitVars, closeVars, procVars, dbVars, brokerVars
  <2>1. /\ TypeOK /\ LocalInv /\ OrderInv /\ LiveInv /\ PromptLocal
    BY DEF IInv, DataInv, PromptInv
  <2>2. ASSUME NEW t \in Symbols, PlaceClose(t) PROVE Abs(pos'[s]) < Abs(pos[s])
    <3> DEFINE side == IF snap[t] > 0 THEN "SELL" ELSE "BUY"
               qty  == IF snap[t] > 0 THEN snap[t] ELSE 0 - snap[t]
    <3>1. PlaceOrder(t, side, qty, 0, "MKT") /\ pc = "closing" /\ t \in todo
      BY <2>2 DEF PlaceClose
    <3>2. snap[t] = pos[t] /\ pos[t] # 0 /\ pos[t] \in Int
      BY <2>1, <3>1 DEF PromptLocal, Closing, TypeOK
    <3>3. Signed(side, qty) = 0 - pos[t]
      BY <3>2 DEF Signed
    <3> HIDE DEF side, qty
    <3>4. pos' = [pos EXCEPT ![t] = @ + Signed(side, qty)]
      BY <2>1, <3>1, PromptOrder
    <3>5. pos'[t] = 0
      BY <2>1, <3>2, <3>3, <3>4 DEF TypeOK
    <3>6. /\ orders'[lastOrder + 1].sym = t
          /\ \A p \in OrderIds : p # lastOrder + 1 => orders'[p] = orders[p]
      BY <2>1, <3>1, NewOrder
    <3>7. s = t
      BY <3>6
    <3>8. QED
      BY <3>2, <3>5, <3>7 DEF Abs
  <2>3. CASE PlaceLimit \/ PlaceMarket
    <3>1. PICK kind \in {"LMT", "MKT"} : PlaceOrder(sym, rows[row].side, 1, row, kind)
      BY <2>3 DEF PlaceLimit, PlaceMarket
    <3>2. row # 0
      BY <2>1, <2>3 DEF PlaceLimit, PlaceMarket, LocalInv, Entering, Sending
    <3>3. /\ orders'[lastOrder + 1].row = row
          /\ \A p \in OrderIds : p # lastOrder + 1 => orders'[p] = orders[p]
      BY <2>1, <3>1, NewOrder
    <3>4. QED
      BY <3>2, <3>3
  <2>4. ASSUME NEW p \in OrderIds, BrokerFill(p) \/ BrokerCancel(p)
        PROVE  Abs(pos'[s]) < Abs(pos[s])
    <3>1. orders[p].row # 0
      BY <2>1, <2>4 DEF BrokerFill, BrokerCancel, LiveInv
    <3>2. orders'[p].row = orders[p].row /\ \A q \in OrderIds : q # p => orders'[q] = orders[q]
      <4>1. PICK st \in {"filled", "cancelled"} : orders' = [orders EXCEPT ![p].state = st]
        BY <2>4 DEF BrokerFill, BrokerCancel
      <4>2. QED
        BY <2>1, <4>1 DEF TypeOK, OrderType
    <3>3. QED
      BY <3>1, <3>2
  <2>5. CASE CancelLimit
    <3>1. orders' = orders \/ orders' = [orders EXCEPT ![ord].state = "cancelled"]
      BY <2>5 DEF CancelLimit
    <3>2. ASSUME orders' = [orders EXCEPT ![ord].state = "cancelled"] PROVE FALSE
      <4>1. o # ord
        BY <2>1, <3>2 DEF TypeOK, OrderType
      <4>2. QED
        BY <2>1, <3>2, <4>1 DEF TypeOK
    <3>3. QED
      BY <3>1, <3>2
  <2>6. CASE UNCHANGED orders
    BY <2>6
  <2>7. CASE Entry
    BY <2>3, <2>5, <2>6, <2>7 DEF Entry, StartSignals, SkipSymbol, EnterSymbol,
         EndSignals, BeginTick, SkipTick,
       LogDryrun, PlaceLimitFails, RecordOpen, PlaceMarketFails, RecordFill, RecordError
  <2>8. CASE Poll
    BY <2>6, <2>8 DEF Poll, PollFilled, PollDead, PollAgain, PollInterrupted, PollDeadline
  <2>9. CASE Close
    BY <2>2, <2>6, <2>9 DEF Close, StartClose, StartCloseDryrun, PlaceCloseFails,
       MarkClosed, EndClose, Settle
  <2>10. CASE Broker
    BY <2>4, <2>10 DEF Broker
  <2>11. CASE Process
    BY <2>6, <2>11 DEF Process, Sigterm, Hang, Untimed, Crash, Restart
  <2>12. CASE UNCHANGED vars
    BY <2>6, <2>12 DEF vars
  <2>13. QED
    BY <2>7, <2>8, <2>9, <2>10, <2>11, <2>12 DEF Next, Engine
<1>2. QED
  BY <1>1, PromptInvariance, PTL DEF Spec, ClosesOnlyReduce
=============================================================================
