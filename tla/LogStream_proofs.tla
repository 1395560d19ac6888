-------------------------- MODULE LogStream_proofs --------------------------
(***************************************************************************)
(* For any processes, queue and number of records: the types of the log    *)
(* pipeline, the order of the rows, and that the way out forgets nothing.  *)
(* For any clients, limits and times: the bound on failed logins, and what *)
(* a token opens.  For any batch: that a stream sends its rows in order    *)
(* and leaves out none but late ones.                                      *)
(***************************************************************************)
EXTENDS LogStream, FiniteSetTheorems, SequenceTheorems, WellFoundedInduction, TLAPS

Fates == {"open", "committed", "gone"}
Row == [proc : Procs, rec : Nat, state : Fates]
Busy(p) == worker[p] \in {"writing", "committing"}
Stored(p, r) == \E i \in DOMAIN rows :
    rows[i].proc = p /\ rows[i].rec = r /\ rows[i].state = "committed"

\* Of a queue: its records are in order; they are above h; those behind a stop
\* mark are above c.
Elems(s) == {s[i] : i \in 1..Len(s)}
Ordered(s) == \A i, j \in 1..Len(s) : i < j /\ s[i] # Stop /\ s[j] # Stop => s[i] < s[j]
Above(s, h) == \A j \in 1..Len(s) : s[j] # Stop => h < s[j]
Behind(s, c) == \A i, j \in 1..Len(s) : i < j /\ s[i] = Stop /\ s[j] # Stop => c < s[j]

\* There is a place for each call of close() that is still to put its mark.
MainInv == \A p \in Procs :
    /\ main[p] = "running" => closes[p] = 0
    /\ main[p] = "closing" => closes[p] < Closes

\* A process queues its records in order, after the one being written.
QueueOK(p) ==
    /\ Ordered(queue[p])
    /\ Busy(p) => holding[p] # Stop /\ Above(queue[p], holding[p])

\* A row is older than what is queued and not newer than what is being written.
RowsOK(p) == \A i \in DOMAIN rows : rows[i].proc = p =>
    /\ 1 <= rows[i].rec /\ rows[i].rec <= sent[p] /\ Above(queue[p], rows[i].rec)
    /\ worker[p] = "writing" => rows[i].rec < holding[p]
    /\ worker[p] = "committing" => rows[i].rec <= holding[p]
    /\ rows[i].state = "open" => worker[p] = "committing" /\ rows[i].rec = holding[p]

\* Behind a stop mark are only records logged after the first of them.
MarksOK(p) ==
    /\ worker[p] = "ended" \/ Stop \in Elems(queue[p]) => closes[p] > 0
    /\ Behind(queue[p], closedAt[p])

\* While the worker lives each record is lost, stored, being written, or queued.
FateOK(p) ==
    /\ worker[p] \in {"idle", "writing", "committing"} => \A r \in 1..sent[p] :
          \/ r \in lost[p] \/ Stored(p, r)
          \/ Busy(p) /\ holding[p] = r
          \/ r \in Elems(queue[p])
    /\ worker[p] = "committing" => \E i \in DOMAIN rows :
          rows[i].proc = p /\ rows[i].rec = holding[p] /\ rows[i].state = "open"
    /\ worker[p] = "ended" => \A r \in 1..closedAt[p] : r \in lost[p] \/ Stored(p, r)

DataOK(p) == QueueOK(p) /\ RowsOK(p) /\ MarksOK(p) /\ FateOK(p)

\* Rows are inserted in the order of the records, whatever becomes of them.
InsertedInOrder == \A i, j \in DOMAIN rows :
    i < j /\ rows[i].proc = rows[j].proc => rows[i].rec < rows[j].rec

DataInv == InsertedInOrder /\ \A p \in Procs : DataOK(p)
IInv == TypeOK /\ MainInv /\ DataInv

-----------------------------------------------------------------------------
(* Queues. *)

\* A record above all others may go to the end of a queue.
LEMMA AppendRecord ==
    ASSUME NEW s \in Seq(Nat), NEW r \in Nat, r # Stop, \A i \in 1..Len(s) : s[i] < r,
           NEW h \in Nat, h < r
    PROVE  /\ Ordered(s) => Ordered(Append(s, r))
           /\ Above(s, h) => Above(Append(s, r), h)
           /\ Behind(s, h) => Behind(Append(s, r), h)
<1> DEFINE t == Append(s, r)
<1>1. Len(t) = Len(s) + 1 /\ t[Len(s) + 1] = r /\ \A i \in 1..Len(s) : t[i] = s[i]
  OBVIOUS
<1>2. \A i \in 1..Len(s) : s[i] \in Nat
  OBVIOUS
<1> HIDE DEF t
<1>3. ASSUME NEW i \in 1..Len(t), NEW j \in 1..Len(t), i < j
      PROVE  i \in 1..Len(s) /\ t[i] = s[i] /\ ((j \in 1..Len(s) /\ t[j] = s[j]) \/ t[j] = r)
  BY <1>1, <1>3
<1>4. Ordered(s) => Ordered(t)
  <2> SUFFICES ASSUME Ordered(s), NEW i \in 1..Len(t), NEW j \in 1..Len(t), i < j,
                      t[i] # Stop, t[j] # Stop
               PROVE  t[i] < t[j]
    BY DEF Ordered
  <2> QED
    BY <1>3 DEF Ordered
<1>5. Above(s, h) => Above(t, h)
  BY <1>1 DEF Above
<1>6. Behind(s, h) => Behind(t, h)
  <2> SUFFICES ASSUME Behind(s, h), NEW i \in 1..Len(t), NEW j \in 1..Len(t), i < j,
                      t[i] = Stop, t[j] # Stop
               PROVE  h < t[j]
    BY DEF Behind
  <2> QED
    BY <1>3 DEF Behind
<1> QED
  BY <1>4, <1>5, <1>6 DEF t

\* A stop mark at the end disturbs none of it.
LEMMA AppendMark ==
    ASSUME NEW s \in Seq(Nat), NEW h \in Nat
    PROVE  /\ Ordered(s) => Ordered(Append(s, Stop))
           /\ Above(s, h) => Above(Append(s, Stop), h)
           /\ Behind(s, h) => Behind(Append(s, Stop), h)
<1> DEFINE t == Append(s, Stop)
<1>1. Len(t) = Len(s) + 1 /\ t[Len(s) + 1] = Stop /\ \A i \in 1..Len(s) : t[i] = s[i]
  BY DEF Stop
<1> HIDE DEF t
<1>2. Ordered(s) => Ordered(t)
  BY <1>1 DEF Ordered
<1>3. Above(s, h) => Above(t, h)
  BY <1>1 DEF Above
<1>4. Behind(s, h) => Behind(t, h)
  BY <1>1 DEF Behind
<1> QED
  BY <1>2, <1>3, <1>4 DEF t

LEMMA AppendElems ==
    ASSUME NEW s \in Seq(Nat), NEW r \in Nat
    PROVE  Elems(Append(s, r)) = Elems(s) \cup {r}
<1>1. Len(Append(s, r)) = Len(s) + 1 /\ Append(s, r)[Len(s) + 1] = r
      /\ \A i \in 1..Len(s) : Append(s, r)[i] = s[i]
  OBVIOUS
<1> QED
  BY <1>1 DEF Elems

\* Behind the oldest element the order stays; an oldest record is below the
\* others, and an oldest mark has only late records behind it.
LEMMA TailOrder ==
    ASSUME NEW s \in Seq(Nat), s # <<>>
    PROVE  /\ Tail(s) \in Seq(Nat) /\ Head(s) \in Nat /\ Head(s) \in Elems(s)
           /\ Ordered(s) => Ordered(Tail(s))
           /\ Ordered(s) /\ Head(s) # Stop => Above(Tail(s), Head(s))
           /\ \A h \in Nat : Above(s, h) => Above(Tail(s), h)
           /\ \A h \in Nat : Above(s, h) /\ Head(s) # Stop => h < Head(s)
           /\ \A h \in Nat : Behind(s, h) => Behind(Tail(s), h)
           /\ \A h \in Nat : Behind(s, h) /\ Head(s) = Stop => Above(Tail(s), h)
<1> DEFINE t == Tail(s)
<1>1. Len(s) \in Nat \ {0} /\ Len(t) = Len(s) - 1 /\ Head(s) = s[1] /\ t \in Seq(Nat)
  OBVIOUS
<1>2. \A i \in 1..Len(t) : i + 1 \in 1..Len(s) /\ t[i] = s[i + 1]
  OBVIOUS
<1>3. 1 \in 1..Len(s) /\ s[1] \in Nat
  OBVIOUS
<1> HIDE DEF t
<1>4. Ordered(s) => Ordered(t)
  <2> SUFFICES ASSUME Ordered(s), NEW i \in 1..Len(t), NEW j \in 1..Len(t), i < j,
                      t[i] # Stop, t[j] # Stop
               PROVE  t[i] < t[j]
    BY DEF Ordered
  <2>1. i + 1 < j + 1 /\ t[i] = s[i + 1] /\ t[j] = s[j + 1]
    BY <1>2
  <2> QED
    BY <1>2, <2>1 DEF Ordered
<1>5. Ordered(s) /\ Head(s) # Stop => Above(t, Head(s))
  <2> SUFFICES ASSUME Ordered(s), s[1] # Stop, NEW j \in 1..Len(t), t[j] # Stop
               PROVE  s[1] < t[j]
    BY <1>1 DEF Above
  <2>1. 1 < j + 1 /\ j + 1 \in 1..Len(s) /\ t[j] = s[j + 1]
    BY <1>2
  <2> QED
    BY <1>3, <2>1 DEF Ordered
<1>6. ASSUME NEW h \in Nat
      PROVE  /\ Above(s, h) => Above(t, h)
             /\ Above(s, h) /\ Head(s) # Stop => h < Head(s)
  BY <1>1, <1>2, <1>3 DEF Above
<1>7. ASSUME NEW h \in Nat, Behind(s, h)
      PROVE  Behind(t, h) /\ (Head(s) = Stop => Above(t, h))
  <2>1. ASSUME NEW i \in 1..Len(t), NEW j \in 1..Len(t), i < j, t[i] = Stop, t[j] # Stop
        PROVE  h < t[j]
    <3>1. i + 1 < j + 1 /\ t[i] = s[i + 1] /\ t[j] = s[j + 1]
      BY <1>2, <2>1
    <3> QED
      BY <1>2, <1>7, <2>1, <3>1 DEF Behind
  <2>2. ASSUME NEW j \in 1..Len(t), s[1] = Stop, t[j] # Stop
        PROVE  h < t[j]
    <3>1. 1 < j + 1 /\ t[j] = s[j + 1] /\ j + 1 \in 1..Len(s)
      BY <1>2
    <3> QED
      BY <1>3, <1>7, <2>2, <3>1 DEF Behind
  <2> QED
    BY <1>1, <2>1, <2>2 DEF Behind, Above
<1>8. Head(s) \in Elems(s)
  BY <1>1, <1>3 DEF Elems
<1> QED
  BY <1>1, <1>3, <1>4, <1>5, <1>6, <1>7, <1>8 DEF t

LEMMA TailFacts ==
    ASSUME NEW s \in Seq(Nat), s # <<>>
    PROVE  /\ Len(s) \in Nat \ {0} /\ Len(Tail(s)) = Len(s) - 1 /\ Head(s) = s[1]
           /\ \A i \in 1..Len(Tail(s)) : i + 1 \in 1..Len(s) /\ Tail(s)[i] = s[i + 1]
OBVIOUS

LEMMA TailElems ==
    ASSUME NEW s \in Seq(Nat), s # <<>>
    PROVE  Elems(s) = {Head(s)} \cup Elems(Tail(s))
<1> DEFINE t == Tail(s)
<1>1. Len(s) \in Nat \ {0} /\ Len(t) = Len(s) - 1 /\ Head(s) = s[1] /\ 1 \in 1..Len(s)
  OBVIOUS
<1>2. \A i \in 1..Len(t) : i + 1 \in 1..Len(s) /\ t[i] = s[i + 1]
  OBVIOUS
<1> HIDE DEF t
<1>3. ASSUME NEW i \in 1..Len(s), i # 1 PROVE s[i] \in Elems(t)
  <2>1. i - 1 \in 1..Len(t) /\ t[i - 1] = s[i]
    BY <1>1, <1>2, <1>3
  <2> QED
    BY <2>1 DEF Elems
<1>4. Elems(t) \subseteq Elems(s)
  BY <1>2 DEF Elems
<1>5. Elems(s) \subseteq {s[1]} \cup Elems(t)
  BY <1>3 DEF Elems
<1>6. s[1] \in Elems(s)
  BY <1>1 DEF Elems
<1> QED
  BY <1>1, <1>4, <1>5, <1>6 DEF t

-----------------------------------------------------------------------------
\* The end of a transaction changes the state of open rows and nothing else.
LEMMA OrphansRows ==
    ASSUME rows \in Seq(Row), NEW p \in Procs, NEW fate \in {"gone", "committed"},
           Orphans(p, fate)
    PROVE  /\ rows' \in Seq(Row) /\ Len(rows') = Len(rows) /\ DOMAIN rows' = DOMAIN rows
           /\ \A i \in DOMAIN rows :
                 /\ rows'[i].proc = rows[i].proc /\ rows'[i].rec = rows[i].rec
                 /\ rows[i].state # "open" => rows'[i].state = rows[i].state
                 /\ rows[i].proc # p => rows'[i].state = rows[i].state
                 /\ rows[i].proc = p => rows'[i].state # "open"
                 /\ rows[i].proc = p /\ rows[i].state = "open" => rows'[i].state = fate
<1>1. \A i \in DOMAIN rows : rows[i] \in Row
  OBVIOUS
<1>2. rows' = [i \in 1..Len(rows) |->
                  IF rows[i].proc = p /\ rows[i].state = "open"
                  THEN [rows[i] EXCEPT !.state = fate] ELSE rows[i]]
  BY DEF Orphans
<1>3. ASSUME NEW i \in DOMAIN rows
      PROVE  /\ rows'[i] \in Row
             /\ rows'[i].proc = rows[i].proc /\ rows'[i].rec = rows[i].rec
             /\ rows'[i].state = IF rows[i].proc = p /\ rows[i].state = "open"
                                 THEN fate ELSE rows[i].state
  <2>1. i \in 1..Len(rows) /\ rows[i] \in Row
    BY <1>1
  <2>2. CASE rows[i].proc = p /\ rows[i].state = "open"
    <3>1. rows'[i] = [rows[i] EXCEPT !.state = fate]
      BY <1>2, <2>1, <2>2
    <3> QED
      BY <2>1, <2>2, <3>1 DEF Row, Fates
  <2>3. CASE ~(rows[i].proc = p /\ rows[i].state = "open")
    <3>1. rows'[i] = rows[i]
      BY <1>2, <2>1, <2>3
    <3> QED
      BY <2>1, <2>3, <3>1
  <2> QED
    BY <2>2, <2>3
<1>4. rows' \in Seq(Row) /\ Len(rows') = Len(rows) /\ DOMAIN rows' = DOMAIN rows
  <2>1. \A i \in 1..Len(rows) : rows'[i] \in Row
    BY <1>3
  <2> QED
    BY <1>2, <2>1
<1> QED
  BY <1>3, <1>4

\* What emit() does to the queue and to the record it loses.
LEMMA EmitEffect ==
    ASSUME TypeOK, NEW p \in Procs, Emit(p)
    PROVE  /\ sent[p] + 1 \in 0..bound.records[p]
           /\ \/ lost' = [lost EXCEPT ![p] = @ \cup {sent[p] + 1}] /\ queue' = queue
              \/ /\ queue' = [queue EXCEPT ![p] = Append(@, sent[p] + 1)] /\ lost' = lost
                 /\ Len(queue[p]) < QueueMax
           /\ sent' = [sent EXCEPT ![p] = @ + 1]
           /\ UNCHANGED <<worker, holding, rows, bound, closedAt>>
<1>1. sent[p] + 1 \in 0..bound.records[p] /\ sent'[p] = sent[p] + 1
  <2>1. sent[p] \in Nat /\ bound.records[p] \in Nat
    BY ProcsAssumption DEF TypeOK
  <2>2. sent[p] < bound.records[p] /\ sent' = [sent EXCEPT ![p] = @ + 1]
    BY DEF Emit
  <2> QED
    BY <2>1, <2>2 DEF TypeOK
<1>2. CASE Full(p)
  BY <1>1, <1>2 DEF Emit
<1>3. CASE ~Full(p)
  <2>1. QueueMax \in Nat /\ Len(queue[p]) \in Nat
    BY SizeAssumption DEF TypeOK
  <2>2. Len(queue[p]) < QueueMax
    BY <1>3, <2>1 DEF Full
  <2> QED
    BY <1>1, <1>3, <2>2 DEF Emit
<1> QED
  BY <1>2, <1>3

\* The types of one process, in the form the steps below use.
LEMMA Types ==
    ASSUME TypeOK, NEW p \in Procs
    PROVE  /\ sent[p] \in Nat /\ holding[p] \in Nat /\ closedAt[p] \in Nat /\ closes[p] \in Nat
           /\ closedAt[p] <= sent[p] /\ holding[p] <= sent[p] /\ queue[p] \in Seq(Nat)
           /\ \A i \in 1..Len(queue[p]) : queue[p][i] < sent[p] + 1
<1>1. queue[p] \in Seq(Nat) /\ sent[p] \in Nat /\ \A i \in 1..Len(queue[p]) : queue[p][i] <= sent[p]
  BY DEF TypeOK
<1>2. \A i \in 1..Len(queue[p]) : queue[p][i] < sent[p] + 1
  BY <1>1
<1>3. holding[p] \in Nat /\ closedAt[p] \in Nat /\ closes[p] \in Nat
      /\ closedAt[p] <= sent[p] /\ holding[p] <= sent[p]
  <2>1. closes \in [Procs -> 0..3] /\ holding \in [Procs -> Nat] /\ closedAt \in [Procs -> Nat]
    BY DEF TypeOK, Closes
  <2>2. closedAt[p] <= sent[p] /\ holding[p] <= sent[p]
    BY DEF TypeOK
  <2> QED
    BY <2>1, <2>2
<1> QED
  BY <1>1, <1>2, <1>3

LEMMA RowTypes ==
    ASSUME TypeOK
    PROVE  /\ DOMAIN rows = 1..Len(rows) /\ Len(rows) \in Nat /\ rows \in Seq(Row)
           /\ \A i \in DOMAIN rows : rows[i].rec \in Nat /\ rows[i].proc \in Procs
<1>1. rows \in Seq(Row)
  BY DEF TypeOK, Row, Fates
<1>2. \A i \in 1..Len(rows) : rows[i] \in Row
  BY <1>1
<1> QED
  BY <1>1, <1>2 DEF Row

\* A step that leaves a process and its rows alone.
LEMMA Frame ==
    ASSUME NEW q \in Procs, DataOK(q),
           queue'[q] = queue[q], worker'[q] = worker[q], holding'[q] = holding[q],
           sent'[q] = sent[q], lost'[q] = lost[q], closes'[q] = closes[q],
           closedAt'[q] = closedAt[q], DOMAIN rows \subseteq DOMAIN rows',
           \A i \in DOMAIN rows' : rows'[i].proc = q => i \in DOMAIN rows,
           \A i \in DOMAIN rows : rows'[i].proc = rows[i].proc /\ rows'[i].rec = rows[i].rec,
           \A i \in DOMAIN rows : rows[i].proc = q => rows'[i].state = rows[i].state
    PROVE  DataOK(q)'
<1>1. QueueOK(q)'
  BY DEF DataOK, QueueOK, Busy, Ordered, Above
<1>2. RowsOK(q)'
  BY DEF DataOK, RowsOK, Above
<1>3. MarksOK(q)'
  BY DEF DataOK, MarksOK, Elems, Behind
<1>4. FateOK(q)'
  <2>1. \A r : Stored(q, r) => Stored(q, r)'
    BY DEF Stored
  <2>2. worker[q] = "committing" => \E i \in DOMAIN rows' :
            rows'[i].proc = q /\ rows'[i].rec = holding[q] /\ rows'[i].state = "open"
    BY DEF DataOK, FateOK
  <2> QED
    BY <2>1, <2>2 DEF DataOK, FateOK, Busy, Elems
<1> QED
  BY <1>1, <1>2, <1>3, <1>4 DEF DataOK

\* What is logged goes behind everything else of its process.
LEMMA EmitStep ==
    ASSUME TypeOK, DataInv, NEW p \in Procs, Emit(p), closes' = closes
    PROVE  DataInv'
<1>1. UNCHANGED <<worker, holding, rows, closedAt>>
  BY EmitEffect
<1>2. \A q \in Procs \ {p} : queue'[q] = queue[q] /\ lost'[q] = lost[q] /\ sent'[q] = sent[q]
  <2>1. sent' = [sent EXCEPT ![p] = @ + 1]
        /\ (queue' = queue \/ queue' = [queue EXCEPT ![p] = Append(@, sent[p] + 1)])
        /\ (lost' = lost \/ lost' = [lost EXCEPT ![p] = @ \cup {sent[p] + 1}])
    BY EmitEffect
  <2> QED
    BY <2>1 DEF TypeOK
<1>3. sent'[p] = sent[p] + 1
  BY EmitEffect DEF TypeOK
<1>4. InsertedInOrder'
  BY <1>1 DEF DataInv, InsertedInOrder
<1>5. \A q \in Procs \ {p} : DataOK(q)'
  BY <1>1, <1>2, Frame DEF DataInv
<1>6. QueueOK(p) /\ RowsOK(p) /\ MarksOK(p) /\ FateOK(p)
  BY DEF DataInv, DataOK
<1>7. /\ sent[p] \in Nat /\ holding[p] \in Nat /\ closedAt[p] \in Nat
      /\ closedAt[p] <= sent[p] /\ holding[p] <= sent[p] /\ queue[p] \in Seq(Nat)
      /\ \A i \in 1..Len(queue[p]) : queue[p][i] < sent[p] + 1
  BY Types
<1>8. \A i \in DOMAIN rows : rows[i].rec \in Nat
  BY RowTypes
<1>9. \A r : Stored(p, r)' <=> Stored(p, r)
  BY <1>1 DEF Stored
<1>10. CASE queue' = queue /\ lost' = [lost EXCEPT ![p] = @ \cup {sent[p] + 1}]
  <2>1. queue'[p] = queue[p] /\ lost'[p] = lost[p] \cup {sent[p] + 1}
    BY <1>10 DEF TypeOK
  <2>2. QueueOK(p)' /\ MarksOK(p)'
    BY <1>1, <1>6, <2>1 DEF QueueOK, MarksOK, Busy, Ordered, Above, Elems, Behind
  <2>3. RowsOK(p)'
    BY <1>1, <1>3, <1>6, <1>7, <1>8, <2>1 DEF RowsOK, Above
  <2>4. Elems(queue'[p]) = Elems(queue[p])
    BY <2>1 DEF Elems
  <2>5. FateOK(p)'
    BY <1>1, <1>3, <1>6, <1>7, <1>9, <2>1, <2>4 DEF FateOK, Busy
  <2> QED
    BY <1>4, <1>5, <2>2, <2>3, <2>5 DEF DataInv, DataOK
<1>11. CASE queue' = [queue EXCEPT ![p] = Append(@, sent[p] + 1)] /\ lost' = lost
  <2>1. queue'[p] = Append(queue[p], sent[p] + 1)
    BY <1>11 DEF TypeOK
  <2>2. \A h \in Nat : h <= sent[p] =>
            /\ Ordered(queue[p]) => Ordered(queue'[p])
            /\ Above(queue[p], h) => Above(queue'[p], h)
            /\ Behind(queue[p], h) => Behind(queue'[p], h)
    <3>1. sent[p] + 1 \in Nat /\ sent[p] + 1 # Stop /\ \A h \in Nat : h <= sent[p] => h < sent[p] + 1
      BY <1>7 DEF Stop
    <3> QED
      BY <1>7, <2>1, <3>1, AppendRecord
  <2>3. Elems(queue'[p]) = Elems(queue[p]) \cup {sent[p] + 1}
    BY <1>7, <2>1, AppendElems
  <2>4. QueueOK(p)'
    BY <1>1, <1>6, <1>7, <2>2 DEF QueueOK, Busy
  <2>5. RowsOK(p)'
    BY <1>1, <1>3, <1>6, <1>7, <1>8, <2>2 DEF RowsOK
  <2>6. MarksOK(p)'
    BY <1>1, <1>6, <1>7, <2>2, <2>3 DEF MarksOK, Stop
  <2>7. FateOK(p)'
    BY <1>1, <1>3, <1>6, <1>7, <1>9, <1>11, <2>3 DEF FateOK, Busy
  <2> QED
    BY <1>4, <1>5, <2>4, <2>5, <2>6, <2>7 DEF DataInv, DataOK
<1> QED
  BY <1>10, <1>11, EmitEffect

\* A stop mark goes behind every record; the first one fixes closedAt.
LEMMA MarkStep ==
    ASSUME TypeOK, DataInv, NEW p \in Procs, PutMark(p)
    PROVE  DataInv'
<1>1. UNCHANGED <<worker, holding, rows, sent, lost>>
  BY DEF PutMark
<1>2. \A q \in Procs \ {p} :
          queue'[q] = queue[q] /\ closes'[q] = closes[q] /\ closedAt'[q] = closedAt[q]
  BY DEF PutMark, TypeOK
<1>3. /\ closes'[p] = closes[p] + 1 /\ queue'[p] = Append(queue[p], Stop)
      /\ closedAt'[p] = (IF closes[p] = 0 THEN sent[p] ELSE closedAt[p])
  BY DEF PutMark, TypeOK
<1>4. InsertedInOrder'
  BY <1>1 DEF DataInv, InsertedInOrder
<1>5. \A q \in Procs \ {p} : DataOK(q)'
  BY <1>1, <1>2, Frame DEF DataInv
<1>6. QueueOK(p) /\ RowsOK(p) /\ MarksOK(p) /\ FateOK(p)
  BY DEF DataInv, DataOK
<1>7. /\ sent[p] \in Nat /\ holding[p] \in Nat /\ closedAt[p] \in Nat /\ closes[p] \in Nat
      /\ queue[p] \in Seq(Nat)
  BY Types
<1>8. \A h \in Nat :
          /\ Ordered(queue[p]) => Ordered(queue'[p])
          /\ Above(queue[p], h) => Above(queue'[p], h)
          /\ Behind(queue[p], h) => Behind(queue'[p], h)
  BY <1>3, <1>7, AppendMark
<1>9. Elems(queue'[p]) = Elems(queue[p]) \cup {Stop}
  BY <1>3, <1>7, AppendElems DEF Stop
<1>10. QueueOK(p)'
  BY <1>1, <1>6, <1>7, <1>8 DEF QueueOK, Busy
<1>11. RowsOK(p)'
  BY <1>1, <1>6, <1>8, RowTypes DEF RowsOK
<1>12. MarksOK(p)'
  <2>1. closes'[p] > 0
    BY <1>3, <1>7
  <2>2. CASE closes[p] = 0
    <3>1. Stop \notin Elems(queue[p])
      BY <1>6, <1>7, <2>2 DEF MarksOK
    <3>2. Behind(queue[p], sent[p])
      BY <3>1 DEF Behind, Elems
    <3> QED
      BY <1>3, <1>7, <1>8, <2>1, <2>2, <3>2 DEF MarksOK
  <2>3. CASE closes[p] # 0
    BY <1>3, <1>6, <1>7, <1>8, <2>1, <2>3 DEF MarksOK
  <2> QED
    BY <2>2, <2>3
<1>13. FateOK(p)'
  <2>1. worker[p] = "ended" => closedAt'[p] = closedAt[p]
    BY <1>3, <1>6, <1>7 DEF MarksOK
  <2>2. \A r : Stored(p, r)' <=> Stored(p, r)
    BY <1>1 DEF Stored
  <2> QED
    BY <1>1, <1>6, <1>9, <2>1, <2>2 DEF FateOK, Busy
<1> QED
  BY <1>4, <1>5, <1>10, <1>11, <1>12, <1>13 DEF DataInv, DataOK

\* The worker takes the oldest record, or the mark behind which there is none
\* from before the first close().
LEMMA TakeStep ==
    ASSUME TypeOK, DataInv, NEW p \in Procs, Take(p)
    PROVE  DataInv'
<1>1. UNCHANGED <<closes, rows, sent, lost, closedAt>> /\ worker[p] = "idle"
  BY DEF Take, procVars
<1>2. \A q \in Procs \ {p} :
          queue'[q] = queue[q] /\ worker'[q] = worker[q] /\ holding'[q] = holding[q]
  BY DEF Take, TypeOK
<1>3. /\ queue[p] \in Seq(Nat) /\ queue[p] # <<>> /\ queue'[p] = Tail(queue[p])
      /\ holding'[p] = Head(queue[p])
      /\ worker'[p] = (IF Head(queue[p]) = Stop THEN "ended" ELSE "writing")
  BY DEF Take, TypeOK
<1>4. InsertedInOrder'
  BY <1>1 DEF DataInv, InsertedInOrder
<1>5. \A q \in Procs \ {p} : DataOK(q)'
  BY <1>1, <1>2, Frame DEF DataInv
<1>6. QueueOK(p) /\ RowsOK(p) /\ MarksOK(p) /\ FateOK(p)
  BY DEF DataInv, DataOK
<1>7. /\ Ordered(queue[p]) => Ordered(queue'[p])
      /\ Ordered(queue[p]) /\ Head(queue[p]) # Stop => Above(queue'[p], Head(queue[p]))
      /\ Head(queue[p]) \in Nat /\ Head(queue[p]) \in Elems(queue[p])
      /\ Elems(queue[p]) = {Head(queue[p])} \cup Elems(queue'[p])
  BY <1>3, TailOrder, TailElems
<1>8. \A h \in Nat :
          /\ Above(queue[p], h) => Above(queue'[p], h)
          /\ Above(queue[p], h) /\ Head(queue[p]) # Stop => h < Head(queue[p])
          /\ Behind(queue[p], h) => Behind(queue'[p], h)
          /\ Behind(queue[p], h) /\ Head(queue[p]) = Stop => Above(queue'[p], h)
  BY <1>3, TailOrder
<1>9. closedAt[p] \in Nat /\ sent[p] \in Nat /\ closedAt[p] <= sent[p]
  BY Types
<1>10. QueueOK(p)'
  BY <1>3, <1>6, <1>7 DEF QueueOK, Busy
<1>11. RowsOK(p)'
  BY <1>1, <1>3, <1>6, <1>8, RowTypes DEF RowsOK
<1>12. MarksOK(p)'
  BY <1>1, <1>3, <1>6, <1>7, <1>8, <1>9 DEF MarksOK
<1>13. FateOK(p)'
  <2>1. \A r \in 1..sent[p] : r \in lost[p] \/ Stored(p, r) \/ r \in Elems(queue[p])
    BY <1>1, <1>6 DEF FateOK, Busy
  <2>2. \A r : Stored(p, r)' <=> Stored(p, r)
    BY <1>1 DEF Stored
  <2>3. CASE Head(queue[p]) = Stop
    <3>1. ASSUME NEW r \in 1..closedAt[p] PROVE r \in lost[p] \/ Stored(p, r)
      <4>1. r \in 1..sent[p] /\ r # Stop /\ r \in Nat /\ ~(closedAt[p] < r)
        BY <1>9 DEF Stop
      <4>2. r \notin Elems(queue'[p])
        BY <1>6, <1>8, <1>9, <2>3, <4>1 DEF MarksOK, Above, Elems
      <4> QED
        BY <1>7, <2>1, <2>3, <4>1, <4>2
    <3> QED
      BY <1>1, <1>3, <2>2, <2>3, <3>1 DEF FateOK
  <2>4. CASE Head(queue[p]) # Stop
    BY <1>1, <1>3, <1>7, <2>1, <2>2, <2>4 DEF FateOK, Busy
  <2> QED
    BY <2>3, <2>4
<1> QED
  BY <1>4, <1>5, <1>10, <1>11, <1>12, <1>13 DEF DataInv, DataOK

\* The row of the record gets the highest id.
LEMMA InsertStep ==
    ASSUME TypeOK, DataInv, NEW p \in Procs, Insert(p)
    PROVE  DataInv'
<1>1. UNCHANGED <<queue, closes, holding, sent, lost, closedAt>> /\ worker[p] = "writing"
  BY DEF Insert, procVars
<1>2. worker'[p] = "committing" /\ \A q \in Procs \ {p} : worker'[q] = worker[q]
  BY DEF Insert, TypeOK
<1> DEFINE n == Len(rows)
<1>3. /\ DOMAIN rows = 1..n /\ n \in Nat /\ DOMAIN rows' = 1..(n + 1)
      /\ \A i \in 1..n : rows'[i] = rows[i]
      /\ rows'[n + 1].proc = p /\ rows'[n + 1].rec = holding[p] /\ rows'[n + 1].state = "open"
  BY RowTypes DEF Insert
<1> HIDE DEF n
<1>4. \A q \in Procs \ {p} : DataOK(q)'
  BY <1>1, <1>2, <1>3, Frame DEF DataInv
<1>5. QueueOK(p) /\ RowsOK(p) /\ MarksOK(p) /\ FateOK(p) /\ InsertedInOrder
  BY DEF DataInv, DataOK
<1>6. holding[p] \in Nat /\ holding[p] <= sent[p] /\ holding[p] # Stop /\ Above(queue[p], holding[p])
  BY <1>1, <1>5, Types DEF QueueOK, Busy
<1>7. InsertedInOrder'
  <2> SUFFICES ASSUME NEW i \in 1..(n + 1), NEW j \in 1..(n + 1), i < j, rows'[i].proc = rows'[j].proc
               PROVE  rows'[i].rec < rows'[j].rec
    BY <1>3 DEF InsertedInOrder
  <2>1. i \in 1..n
    BY <1>3
  <2>2. CASE j \in 1..n
    BY <1>3, <1>5, <2>1, <2>2 DEF InsertedInOrder
  <2>3. CASE j = n + 1
    BY <1>1, <1>3, <1>5, <2>1, <2>3 DEF RowsOK
  <2> QED
    BY <1>3, <2>2, <2>3
<1>8. QueueOK(p)'
  BY <1>1, <1>2, <1>5 DEF QueueOK, Busy
<1>9. RowsOK(p)'
  <2>1. \A i \in 1..n : rows[i].proc = p =>
            /\ rows[i].rec \in Nat /\ rows[i].rec < holding[p] /\ rows[i].state # "open"
    BY <1>1, <1>3, <1>5, RowTypes DEF RowsOK
  <2>2. 1 <= holding[p]
    BY <1>6 DEF Stop
  <2>3. ASSUME NEW i \in 1..n, rows[i].proc = p
        PROVE  /\ 1 <= rows'[i].rec /\ rows'[i].rec <= sent[p] /\ Above(queue[p], rows'[i].rec)
               /\ rows'[i].rec <= holding[p] /\ rows'[i].state # "open"
    BY <1>3, <1>5, <1>6, <2>1, <2>3 DEF RowsOK
  <2>4. \A i \in 1..(n + 1) : i \in 1..n \/ i = n + 1
    BY <1>3
  <2> QED
    BY <1>1, <1>2, <1>3, <1>6, <2>2, <2>3, <2>4 DEF RowsOK
<1>10. MarksOK(p)'
  BY <1>1, <1>2, <1>5 DEF MarksOK
<1>11. FateOK(p)'
  <2>1. \A r : Stored(p, r) => Stored(p, r)'
    BY <1>3 DEF Stored
  <2>2. n + 1 \in DOMAIN rows'
    BY <1>3
  <2> QED
    BY <1>1, <1>2, <1>3, <1>5, <2>1, <2>2 DEF FateOK, Busy
<1> QED
  BY <1>4, <1>7, <1>8, <1>9, <1>10, <1>11 DEF DataInv, DataOK

\* The end of a transaction keeps the order of the rows, what is stored, and
\* all that concerns other processes.
LEMMA Resolved ==
    ASSUME TypeOK, DataInv, NEW p \in Procs, NEW fate \in {"gone", "committed"},
           Orphans(p, fate), UNCHANGED <<queue, closes, sent, closedAt>>,
           \A q \in Procs \ {p} :
              worker'[q] = worker[q] /\ holding'[q] = holding[q] /\ lost'[q] = lost[q]
    PROVE  /\ InsertedInOrder' /\ \A q \in Procs \ {p} : DataOK(q)'
           /\ \A r : Stored(p, r) => Stored(p, r)'
           /\ \A i \in DOMAIN rows' : rows'[i].proc = p =>
                 /\ 1 <= rows'[i].rec /\ rows'[i].rec <= sent[p]
                 /\ Above(queue[p], rows'[i].rec) /\ rows'[i].state # "open"
<1>1. /\ DOMAIN rows' = DOMAIN rows
      /\ \A i \in DOMAIN rows :
            /\ rows'[i].proc = rows[i].proc /\ rows'[i].rec = rows[i].rec
            /\ rows[i].state # "open" => rows'[i].state = rows[i].state
            /\ rows[i].proc # p => rows'[i].state = rows[i].state
            /\ rows[i].proc = p => rows'[i].state # "open"
  BY OrphansRows, RowTypes
<1>2. InsertedInOrder'
  BY <1>1 DEF DataInv, InsertedInOrder
<1>3. \A q \in Procs \ {p} : DataOK(q)'
  BY <1>1, Frame DEF DataInv
<1>4. \A r : Stored(p, r) => Stored(p, r)'
  BY <1>1 DEF Stored
<1>5. RowsOK(p)
  BY DEF DataInv, DataOK
<1> QED
  BY <1>1, <1>2, <1>3, <1>4, <1>5 DEF RowsOK

\* The record that was being written has its row.
LEMMA CommitStep ==
    ASSUME TypeOK, DataInv, NEW p \in Procs, Commit(p)
    PROVE  DataInv'
<1>1. /\ UNCHANGED <<queue, closes, sent, closedAt, lost>> /\ Orphans(p, "committed")
      /\ worker[p] = "committing"
  BY DEF Commit, procVars
<1>2. /\ worker'[p] = "idle"
      /\ \A q \in Procs \ {p} : worker'[q] = worker[q] /\ holding'[q] = holding[q]
  BY DEF Commit, TypeOK
<1>3. /\ InsertedInOrder' /\ \A q \in Procs \ {p} : DataOK(q)'
      /\ \A r : Stored(p, r) => Stored(p, r)'
      /\ \A i \in DOMAIN rows' : rows'[i].proc = p =>
            /\ 1 <= rows'[i].rec /\ rows'[i].rec <= sent[p]
            /\ Above(queue[p], rows'[i].rec) /\ rows'[i].state # "open"
  BY <1>1, <1>2, Resolved
<1>4. QueueOK(p) /\ MarksOK(p) /\ FateOK(p)
  BY DEF DataInv, DataOK
<1>5. ASSUME NEW r, r = holding[p] PROVE Stored(p, r)'
  <2>1. PICK i \in DOMAIN rows :
            rows[i].proc = p /\ rows[i].rec = holding[p] /\ rows[i].state = "open"
    BY <1>1, <1>4 DEF FateOK
  <2>2. i \in DOMAIN rows' /\ rows'[i].proc = p /\ rows'[i].rec = r
        /\ rows'[i].state = "committed"
    BY <1>1, <1>5, <2>1, OrphansRows, RowTypes
  <2> QED
    BY <2>2 DEF Stored
<1>6. QueueOK(p)' /\ RowsOK(p)' /\ MarksOK(p)'
  BY <1>1, <1>2, <1>3, <1>4 DEF QueueOK, RowsOK, MarksOK, Busy
<1>7. FateOK(p)'
  BY <1>1, <1>2, <1>3, <1>4, <1>5 DEF FateOK, Busy
<1> QED
  BY <1>3, <1>6, <1>7 DEF DataInv, DataOK

\* The record that was being written counts as lost, whatever the server did.
LEMMA FailStep ==
    ASSUME TypeOK, DataInv, NEW p \in Procs, WriteFails(p)
    PROVE  DataInv'
<1>1. /\ UNCHANGED <<queue, closes, sent, closedAt>> /\ Busy(p)
      /\ \E fate \in {"gone", "committed"} : Orphans(p, fate)
  BY DEF WriteFails, procVars, Busy
<1>2. /\ worker'[p] = "idle" /\ lost'[p] = lost[p] \cup {holding[p]}
      /\ \A q \in Procs \ {p} :
            worker'[q] = worker[q] /\ holding'[q] = holding[q] /\ lost'[q] = lost[q]
  BY DEF WriteFails, TypeOK
<1>3. /\ InsertedInOrder' /\ \A q \in Procs \ {p} : DataOK(q)'
      /\ \A r : Stored(p, r) => Stored(p, r)'
      /\ \A i \in DOMAIN rows' : rows'[i].proc = p =>
            /\ 1 <= rows'[i].rec /\ rows'[i].rec <= sent[p]
            /\ Above(queue[p], rows'[i].rec) /\ rows'[i].state # "open"
  BY <1>1, <1>2, Resolved
<1>4. QueueOK(p) /\ MarksOK(p) /\ FateOK(p)
  BY DEF DataInv, DataOK
<1>5. QueueOK(p)' /\ RowsOK(p)' /\ MarksOK(p)'
  BY <1>1, <1>2, <1>3, <1>4 DEF QueueOK, RowsOK, MarksOK, Busy
<1>6. FateOK(p)'
  BY <1>1, <1>2, <1>3, <1>4 DEF FateOK, Busy
<1> QED
  BY <1>3, <1>5, <1>6 DEF DataInv, DataOK

\* The end of a process leaves to the worker that had ended all it had written.
LEMMA ExitStep ==
    ASSUME TypeOK, DataInv, NEW p \in Procs, Exit(p),
           UNCHANGED <<closes, sent, queue, holding, closedAt, lost>>
    PROVE  DataInv'
<1>1. /\ worker'[p] \in {"ended", "killed"} /\ (worker'[p] = "ended" => worker[p] = "ended")
      /\ \A q \in Procs \ {p} : worker'[q] = worker[q]
  BY DEF Exit, TypeOK
<1>2. /\ InsertedInOrder' /\ \A q \in Procs \ {p} : DataOK(q)'
      /\ \A r : Stored(p, r) => Stored(p, r)'
      /\ \A i \in DOMAIN rows' : rows'[i].proc = p =>
            /\ 1 <= rows'[i].rec /\ rows'[i].rec <= sent[p]
            /\ Above(queue[p], rows'[i].rec) /\ rows'[i].state # "open"
  BY <1>1, Resolved DEF Exit
<1>3. QueueOK(p) /\ MarksOK(p) /\ FateOK(p)
  BY DEF DataInv, DataOK
<1>4. QueueOK(p)' /\ RowsOK(p)' /\ MarksOK(p)'
  BY <1>1, <1>2, <1>3 DEF QueueOK, RowsOK, MarksOK, Busy
<1>5. FateOK(p)'
  BY <1>1, <1>2, <1>3 DEF FateOK, Busy
<1> QED
  BY <1>2, <1>4, <1>5 DEF DataInv, DataOK

-----------------------------------------------------------------------------
\* Every step keeps the order and the fate of the records.
LEMMA DataStep ==
    ASSUME TypeOK, DataInv, [LogNext]_logVars
    PROVE  DataInv'
<1>1. ASSUME NEW p \in Procs, Log(p) \/ LogElsewhere(p) \/ Sigterm(p) PROVE DataInv'
  BY <1>1, EmitStep DEF Log, LogElsewhere, Sigterm, procVars
<1>2. ASSUME NEW p \in Procs, JoinEnds(p) \/ Kill(p) \/ SigtermInPut(p) \/ Leave(p) PROVE DataInv'
  <2>1. CASE Exit(p) /\ UNCHANGED <<closes, sent, queue, holding, closedAt, lost>>
    BY <2>1, ExitStep
  <2>2. CASE UNCHANGED <<closes, sent, queue, worker, holding, rows, lost, closedAt>>
    BY <2>2, Frame DEF DataInv, InsertedInOrder
  <2> QED
    BY <1>2, <2>1, <2>2 DEF JoinEnds, Kill, SigtermInPut, Leave
<1>3. ASSUME NEW p \in Procs, PutMark(p) \/ Worker(p) PROVE DataInv'
  BY <1>3, MarkStep, TakeStep, InsertStep, CommitStep, FailStep DEF Worker
<1>4. CASE UNCHANGED logVars
  BY <1>4, Frame DEF logVars, procVars, DataInv, InsertedInOrder
<1> QED
  BY <1>1, <1>2, <1>3, <1>4 DEF LogNext, Closing

\* Each call of close() puts one mark.
LEMMA MainStep ==
    ASSUME TypeOK, MainInv, [LogNext]_logVars
    PROVE  MainInv'
<1> USE DEF MainInv
<1>1. closes \in [Procs -> 0..3] /\ DOMAIN main = Procs
  BY DEF TypeOK, Closes
<1>2. ASSUME NEW p \in Procs, Log(p) \/ LogElsewhere(p) \/ Sigterm(p) \/ Worker(p) PROVE MainInv'
  BY <1>2 DEF Log, LogElsewhere, Sigterm, Worker, Take, Insert, Commit, WriteFails, procVars
<1>3. ASSUME NEW p \in Procs, SigtermInPut(p) \/ Leave(p) \/ Kill(p) PROVE MainInv'
  BY <1>1, <1>3 DEF SigtermInPut, Leave, Kill, Exit, Closes
<1>4. ASSUME NEW p \in Procs, PutMark(p) PROVE MainInv'
  BY <1>1, <1>4 DEF PutMark, Closes
<1>5. ASSUME NEW p \in Procs, JoinEnds(p) PROVE MainInv'
  BY <1>1, <1>5 DEF JoinEnds, Exit, Closes
<1>6. CASE UNCHANGED logVars
  BY <1>6 DEF logVars, procVars
<1> QED
  BY <1>2, <1>3, <1>4, <1>5, <1>6 DEF LogNext, Closing

-----------------------------------------------------------------------------
(* Types. *)

\* The parts of the type invariant that most steps leave alone.
ProcTypes ==
    /\ main \in [Procs -> {"running", "closing", "joining", "exited", "stuck"}]
    /\ bound \in Bounds
    /\ closes \in [Procs -> 0..Closes] /\ asked \in [Procs -> BOOLEAN]
    /\ signals \in [Procs -> 0..MaxSignals]
    /\ worker \in [Procs -> {"idle", "writing", "committing", "ended", "killed"}]

RecordTypes ==
    /\ sent \in [Procs -> Nat] /\ holding \in [Procs -> Nat] /\ closedAt \in [Procs -> Nat]
    /\ queue \in [Procs -> Seq(Nat)] /\ lost \in [Procs -> SUBSET Nat]

Ranges(p) ==
    /\ sent[p] <= bound.records[p] /\ closedAt[p] <= sent[p] /\ holding[p] <= sent[p]
    /\ Len(queue[p]) <= QueueMax /\ \A i \in 1..Len(queue[p]) : queue[p][i] <= sent[p]
    /\ \A r \in lost[p] : 1 <= r /\ r <= sent[p]

LEMMA TypeParts ==
    TypeOK <=> ProcTypes /\ RecordTypes /\ (\A p \in Procs : Ranges(p)) /\ rows \in Seq(Row)
BY DEF TypeOK, ProcTypes, RecordTypes, Ranges, Row, Fates

LEMMA RangesFrame ==
    ASSUME NEW q \in Procs, Ranges(q), bound' = bound, sent'[q] = sent[q],
           closedAt'[q] = closedAt[q], holding'[q] = holding[q], queue'[q] = queue[q],
           lost'[q] = lost[q]
    PROVE  Ranges(q)'
BY DEF Ranges

LEMMA ProcTypesStep ==
    ASSUME TypeOK, MainInv, [LogNext]_logVars
    PROVE  ProcTypes'
<1> USE SizeAssumption DEF ProcTypes
<1>1. ProcTypes
  BY TypeParts
<1>2. ASSUME NEW p \in Procs, Log(p) \/ LogElsewhere(p) \/ Sigterm(p) PROVE ProcTypes'
  <2>1. UNCHANGED <<main, bound, closes, worker>>
    BY <1>2 DEF Log, LogElsewhere, Sigterm, Emit, procVars
  <2>2. asked' \in [Procs -> BOOLEAN] /\ signals' \in [Procs -> 0..MaxSignals]
    <3>1. CASE UNCHANGED <<asked, signals>>
      BY <1>1, <3>1
    <3>2. CASE Sigterm(p)
      <4>1. signals[p] + 1 \in 0..MaxSignals
        BY <1>1, <3>2 DEF Sigterm
      <4> QED
        BY <1>1, <3>2, <4>1 DEF Sigterm
    <3> QED
      BY <1>2, <3>1, <3>2 DEF Log, LogElsewhere, procVars
  <2> QED
    BY <1>1, <2>1, <2>2
<1>3. ASSUME NEW p \in Procs, SigtermInPut(p) \/ Leave(p) PROVE ProcTypes'
  BY <1>1, <1>3 DEF SigtermInPut, Leave
<1>4. ASSUME NEW p \in Procs, PutMark(p) PROVE ProcTypes'
  <2>1. closes \in [Procs -> 0..3] /\ closes[p] < 3
    BY <1>1, <1>4 DEF PutMark, MainInv, Closes
  <2>2. closes' \in [Procs -> 0..3]
    BY <1>4, <2>1 DEF PutMark
  <2> QED
    BY <1>1, <1>4, <2>2 DEF PutMark, Closes
<1>5. ASSUME NEW p \in Procs, JoinEnds(p) \/ Kill(p) PROVE ProcTypes'
  BY <1>1, <1>5 DEF JoinEnds, Kill, Exit
<1>6. ASSUME NEW p \in Procs, Worker(p) PROVE ProcTypes'
  BY <1>1, <1>6 DEF Worker, Take, Insert, Commit, WriteFails, procVars
<1>7. CASE UNCHANGED logVars
  BY <1>1, <1>7 DEF logVars, procVars
<1> QED
  BY <1>2, <1>3, <1>4, <1>5, <1>6, <1>7 DEF LogNext, Closing

LEMMA RowsStep ==
    ASSUME TypeOK, [LogNext]_logVars
    PROVE  rows' \in Seq(Row)
<1>1. rows \in Seq(Row) /\ \A p \in Procs : holding[p] \in Nat
  BY TypeParts DEF RecordTypes
<1>2. ASSUME NEW p \in Procs, \E fate \in {"gone", "committed"} : Orphans(p, fate)
      PROVE  rows' \in Seq(Row)
  BY <1>1, <1>2, OrphansRows
<1>3. ASSUME NEW p \in Procs, Insert(p) PROVE rows' \in Seq(Row)
  <2>1. [proc |-> p, rec |-> holding[p], state |-> "open"] \in Row
    BY <1>1 DEF Row, Fates
  <2> QED
    BY <1>1, <1>3, <2>1 DEF Insert
<1>4. ASSUME rows' = rows PROVE rows' \in Seq(Row)
  BY <1>1, <1>4
<1> QED
  BY <1>2, <1>3, <1>4 DEF LogNext, Log, LogElsewhere, Sigterm, Emit, SigtermInPut, Leave,
      Closing, PutMark, JoinEnds, Exit, Kill, Worker, Take, Commit, WriteFails, logVars

LEMMA RecordStep ==
    ASSUME TypeOK, DataInv, [LogNext]_logVars
    PROVE  RecordTypes' /\ \A q \in Procs : Ranges(q)'
<1>1. RecordTypes /\ \A q \in Procs : Ranges(q)
  BY TypeParts
<1>2. ASSUME NEW p \in Procs, Emit(p) PROVE RecordTypes' /\ \A q \in Procs : Ranges(q)'
  <2>1. /\ sent[p] \in Nat /\ sent[p] + 1 \in 0..bound.records[p] /\ bound.records[p] \in Nat
        /\ sent' = [sent EXCEPT ![p] = @ + 1]
        /\ UNCHANGED <<holding, bound, closedAt>>
    BY <1>1, <1>2, EmitEffect, ProcsAssumption DEF RecordTypes, TypeOK
  <2>2. \/ lost' = [lost EXCEPT ![p] = @ \cup {sent[p] + 1}] /\ queue' = queue
        \/ /\ queue' = [queue EXCEPT ![p] = Append(@, sent[p] + 1)] /\ lost' = lost
           /\ Len(queue[p]) < QueueMax
    BY <1>2, EmitEffect
  <2>3. RecordTypes'
    <3>1. sent[p] + 1 \in Nat /\ lost[p] \cup {sent[p] + 1} \in SUBSET Nat
          /\ Append(queue[p], sent[p] + 1) \in Seq(Nat)
      BY <1>1, <2>1 DEF RecordTypes
    <3>2. sent' \in [Procs -> Nat]
      BY <1>1, <2>1, <3>1 DEF RecordTypes
    <3>3. lost' \in [Procs -> SUBSET Nat] /\ queue' \in [Procs -> Seq(Nat)]
      BY <1>1, <2>2, <3>1 DEF RecordTypes
    <3> QED
      BY <1>1, <2>1, <3>2, <3>3 DEF RecordTypes
  <2>4. \A q \in Procs \ {p} : Ranges(q)'
    <3>1. \A q \in Procs \ {p} : sent'[q] = sent[q] /\ queue'[q] = queue[q] /\ lost'[q] = lost[q]
      BY <1>1, <2>1, <2>2 DEF RecordTypes
    <3> QED
      BY <1>1, <2>1, <3>1, RangesFrame
  <2>5. Ranges(p)'
    <3>1. sent'[p] = sent[p] + 1
      BY <1>1, <2>1 DEF RecordTypes
    <3>2. /\ closedAt[p] \in Nat /\ holding[p] \in Nat
          /\ closedAt[p] <= sent'[p] /\ holding[p] <= sent'[p] /\ sent'[p] <= bound.records[p]
      BY <1>1, <2>1, <3>1 DEF RecordTypes, Ranges
    <3>3. /\ Len(queue'[p]) <= QueueMax
          /\ \A i \in 1..Len(queue'[p]) : queue'[p][i] <= sent'[p]
      <4>1. queue[p] \in Seq(Nat) /\ Len(queue[p]) <= QueueMax /\ QueueMax \in Nat
            /\ \A i \in 1..Len(queue[p]) : queue[p][i] \in Nat /\ queue[p][i] <= sent[p]
        BY <1>1, SizeAssumption DEF RecordTypes, Ranges
      <4>2. CASE queue' = queue
        <5>1. \A i \in 1..Len(queue[p]) : queue[p][i] <= sent[p] + 1
          BY <1>1, <4>1 DEF RecordTypes
        <5> QED
          BY <3>1, <4>1, <4>2, <5>1
      <4>3. CASE queue' = [queue EXCEPT ![p] = Append(@, sent[p] + 1)] /\ Len(queue[p]) < QueueMax
        <5>1. queue'[p] = Append(queue[p], sent[p] + 1)
          BY <1>1, <4>3 DEF RecordTypes
        <5>2. /\ Len(queue'[p]) = Len(queue[p]) + 1 /\ queue'[p][Len(queue[p]) + 1] = sent[p] + 1
              /\ \A i \in 1..Len(queue[p]) : queue'[p][i] = queue[p][i]
          BY <2>1, <4>1, <5>1
        <5>3. /\ Len(queue[p]) + 1 <= QueueMax
              /\ \A i \in 1..(Len(queue[p]) + 1) : i \in 1..Len(queue[p]) \/ i = Len(queue[p]) + 1
          BY <4>1, <4>3
        <5>4. sent[p] \in Nat /\ \A i \in 1..Len(queue[p]) : queue[p][i] <= sent[p] + 1
          BY <1>1, <4>1 DEF RecordTypes
        <5> QED
          BY <3>1, <5>2, <5>3, <5>4
      <4> QED
        BY <2>2, <4>2, <4>3
    <3>4. \A r \in lost'[p] : 1 <= r /\ r <= sent'[p]
      <4>1. \A r \in lost[p] : r \in Nat /\ 1 <= r /\ r <= sent[p]
        BY <1>1 DEF RecordTypes, Ranges
      <4>2. \A r \in lost'[p] : r \in lost[p] \/ r = sent[p] + 1
        BY <1>1, <2>2 DEF RecordTypes
      <4> QED
        BY <2>1, <3>1, <4>1, <4>2
    <3> QED
      BY <2>1, <3>2, <3>3, <3>4 DEF Ranges
  <2> QED
    BY <2>3, <2>4, <2>5
<1>3. ASSUME NEW p \in Procs, PutMark(p) PROVE RecordTypes' /\ \A q \in Procs : Ranges(q)'
  <2>1. RecordTypes'
    BY <1>1, <1>3 DEF RecordTypes, PutMark, Stop
  <2>2. \A q \in Procs \ {p} : Ranges(q)'
    <3>1. \A q \in Procs \ {p} : closedAt'[q] = closedAt[q] /\ queue'[q] = queue[q]
      BY <1>1, <1>3 DEF RecordTypes, PutMark
    <3> QED
      BY <1>1, <1>3, <3>1, RangesFrame DEF PutMark
  <2>3. Ranges(p)'
    <3>1. /\ queue[p] \in Seq(Nat) /\ queue'[p] = Append(queue[p], Stop)
          /\ sent[p] \in Nat /\ closedAt'[p] \in {sent[p], closedAt[p]}
      BY <1>1, <1>3 DEF RecordTypes, PutMark
    <3>2. /\ Len(queue'[p]) = Len(queue[p]) + 1 /\ queue'[p][Len(queue[p]) + 1] = 0
          /\ \A i \in 1..Len(queue[p]) : queue'[p][i] = queue[p][i]
      BY <3>1 DEF Stop
    <3>3. Len(queue[p]) < QueueMax
      BY <1>3, <3>1, SizeAssumption DEF PutMark, Full
    <3> QED
      BY <1>1, <1>3, <3>1, <3>2, <3>3, SizeAssumption DEF PutMark, Ranges
  <2> QED
    BY <2>1, <2>2, <2>3
<1>4. ASSUME NEW p \in Procs, Take(p) PROVE RecordTypes' /\ \A q \in Procs : Ranges(q)'
  <2>1. /\ queue[p] \in Seq(Nat) /\ queue[p] # <<>> /\ queue' = [queue EXCEPT ![p] = Tail(@)]
        /\ holding' = [holding EXCEPT ![p] = Head(queue[p])]
        /\ UNCHANGED <<sent, bound, lost, closedAt>>
    BY <1>1, <1>4 DEF RecordTypes, Take
  <2>2. Tail(queue[p]) \in Seq(Nat) /\ Head(queue[p]) \in Nat
    BY <2>1
  <2>3. RecordTypes'
    BY <1>1, <2>1, <2>2 DEF RecordTypes
  <2>4. \A q \in Procs \ {p} : Ranges(q)'
    <3>1. \A q \in Procs \ {p} : holding'[q] = holding[q] /\ queue'[q] = queue[q]
      BY <1>1, <2>1 DEF RecordTypes
    <3> QED
      BY <1>1, <2>1, <3>1, RangesFrame
  <2>5. Ranges(p)'
    <3>1. queue'[p] = Tail(queue[p]) /\ holding'[p] = queue[p][1]
      BY <1>1, <2>1, TailFacts DEF RecordTypes
    <3>2. /\ Len(queue[p]) \in Nat \ {0} /\ Len(queue'[p]) = Len(queue[p]) - 1
          /\ \A i \in 1..Len(queue'[p]) : i + 1 \in 1..Len(queue[p]) /\ queue'[p][i] = queue[p][i + 1]
      BY <2>1, <3>1, TailFacts
    <3>3. /\ sent[p] \in Nat /\ Len(queue[p]) <= QueueMax /\ QueueMax \in Nat
          /\ \A i \in 1..Len(queue[p]) : queue[p][i] <= sent[p]
      BY <1>1, SizeAssumption DEF RecordTypes, Ranges
    <3>4. Len(queue'[p]) <= QueueMax /\ holding'[p] <= sent[p]
          /\ \A i \in 1..Len(queue'[p]) : queue'[p][i] <= sent[p]
      BY <3>1, <3>2, <3>3
    <3> QED
      BY <1>1, <2>1, <3>4 DEF Ranges
  <2> QED
    BY <2>3, <2>4, <2>5
<1>5. ASSUME NEW p \in Procs, Commit(p) \/ WriteFails(p)
      PROVE  RecordTypes' /\ \A q \in Procs : Ranges(q)'
  <2>1. /\ holding' = [holding EXCEPT ![p] = 0]
        /\ lost' = lost \/ lost' = [lost EXCEPT ![p] = @ \cup {holding[p]}]
        /\ UNCHANGED <<sent, queue, bound, closedAt>>
    BY <1>5 DEF Commit, WriteFails
  <2>2. RecordTypes'
    <3>1. lost[p] \cup {holding[p]} \in SUBSET Nat
      BY <1>1 DEF RecordTypes
    <3>2. lost' \in [Procs -> SUBSET Nat]
      BY <1>1, <2>1, <3>1 DEF RecordTypes
    <3> QED
      BY <1>1, <2>1, <3>2 DEF RecordTypes
  <2>3. \A q \in Procs \ {p} : Ranges(q)'
    <3>1. \A q \in Procs \ {p} : holding'[q] = holding[q] /\ lost'[q] = lost[q]
      BY <1>1, <2>1 DEF RecordTypes
    <3> QED
      BY <1>1, <2>1, <3>1, RangesFrame
  <2>4. Ranges(p)'
    <3>1. holding'[p] = 0 /\ (lost'[p] = lost[p] \/ lost'[p] = lost[p] \cup {holding[p]})
      BY <1>1, <2>1 DEF RecordTypes
    <3>2. sent[p] \in Nat /\ holding[p] \in Nat /\ 1 <= holding[p]
      BY <1>1, <1>5 DEF RecordTypes, Commit, WriteFails, DataInv, DataOK, QueueOK, Busy, Stop
    <3> QED
      BY <1>1, <2>1, <3>1, <3>2 DEF Ranges
  <2> QED
    BY <2>2, <2>3, <2>4
<1>6. ASSUME UNCHANGED <<sent, queue, holding, bound, lost, closedAt>>
      PROVE  RecordTypes' /\ \A q \in Procs : Ranges(q)'
  BY <1>1, <1>6, RangesFrame DEF RecordTypes
<1> QED
  BY <1>2, <1>3, <1>4, <1>5, <1>6 DEF LogNext, Log, LogElsewhere, Sigterm, SigtermInPut,
      Leave, Closing, JoinEnds, Kill, Worker, Insert, logVars

-----------------------------------------------------------------------------
(* Theorems. *)

LEMMA InitInv == Init => IInv
<1> SUFFICES ASSUME Init PROVE IInv
  OBVIOUS
<1> USE DEF Init
<1>1. TypeOK
  <2>1. \A p \in Procs : bound.records[p] \in Nat
    BY ProcsAssumption
  <2> QED
    BY <2>1, SizeAssumption DEF TypeOK, Closes
<1>2. MainInv
  BY DEF MainInv
<1>3. ASSUME NEW p \in Procs PROVE DataOK(p)
  BY <1>3 DEF DataOK, QueueOK, RowsOK, MarksOK, FateOK, Ordered, Above, Behind, Elems, Busy
<1>4. InsertedInOrder
  BY DEF InsertedInOrder
<1> QED
  BY <1>1, <1>2, <1>3, <1>4 DEF IInv, DataInv

LEMMA Invariance == Spec => []IInv
<1>1. IInv /\ [LogNext]_logVars => IInv'
  <2> SUFFICES ASSUME IInv, [LogNext]_logVars PROVE IInv'
    OBVIOUS
  <2>1. TypeOK /\ MainInv /\ DataInv
    BY DEF IInv
  <2>2. ProcTypes' /\ RecordTypes' /\ (\A p \in Procs : Ranges(p)') /\ rows' \in Seq(Row)
    BY <2>1, ProcTypesStep, RecordStep, RowsStep
  <2>3. TypeOK'
    BY <2>2 DEF TypeOK, ProcTypes, RecordTypes, Ranges, Row, Fates
  <2> QED
    BY <2>1, <2>3, MainStep, DataStep DEF IInv
<1> QED
  BY <1>1, InitInv, PTL DEF Spec

\* The types hold, for any processes and queue.
THEOREM TypeCorrect == Spec => []TypeOK
<1>1. IInv => TypeOK
  BY DEF IInv
<1> QED
  BY <1>1, Invariance, PTL

\* The rows of a process have the order of its records, through failed writes,
\* exits and kills (logger.py:103-136).
THEOREM RowsKeepOrder == Spec => []WrittenInOrder
<1>1. IInv => WrittenInOrder
  BY DEF IInv, DataInv, InsertedInOrder, WrittenInOrder, Committed
<1> QED
  BY <1>1, Invariance, PTL

\* A worker that has ended has forgotten no record logged before close()
\* (logger.py:93-108).
THEOREM NothingForgotten == Spec => []FlushedOnClose
<1>1. ASSUME IInv, NEW p \in Procs, worker[p] = "ended"
      PROVE  1..closedAt[p] \subseteq
                 lost[p] \cup {rows[i].rec : i \in {k \in Committed : rows[k].proc = p}}
  <2>1. \A r \in 1..closedAt[p] : r \in lost[p] \/ Stored(p, r)
    BY <1>1 DEF IInv, DataInv, DataOK, FateOK
  <2>2. \A r : Stored(p, r) => r \in {rows[i].rec : i \in {k \in Committed : rows[k].proc = p}}
    BY DEF Stored, Committed
  <2> QED
    BY <2>1, <2>2
<1>2. IInv => FlushedOnClose
  BY <1>1 DEF FlushedOnClose
<1> QED
  BY <1>2, Invariance, PTL

-----------------------------------------------------------------------------
(* Numbers. *)

\* The least-number principle, from the sets 1..n and the well-founded order of
\* the finite sets.
LEMMA Least ==
    ASSUME NEW T \in SUBSET Nat, T # {}
    PROVE  \E x \in T : \A y \in T : x <= y
<1> DEFINE Below == {1..n : n \in T}
<1>1. Below \subseteq FiniteSubsetsOf(Nat) /\ Below # {}
  <2>1. ASSUME NEW n \in T PROVE 1..n \in FiniteSubsetsOf(Nat)
    <3>1. IsFiniteSet(1..n)
      BY FS_Interval
    <3>2. 1..n \in SUBSET Nat
      OBVIOUS
    <3> QED
      BY <3>1, <3>2 DEF FiniteSubsetsOf
  <2> QED
    BY <2>1
<1>2. PICK B \in Below : \A C \in Below : <<C, B>> \notin StrictSubsetOrdering(Nat)
  <2> HIDE DEF Below
  <2> QED
    BY <1>1, FS_StrictSubsetOrderingWellFounded, WFMin
<1>3. PICK x \in T : B = 1..x
  OBVIOUS
<1>4. ASSUME NEW y \in T, y < x PROVE FALSE
  <2>1. 1..y \in Below /\ 1..y \in SUBSET Nat /\ 1..x \in SUBSET Nat
    OBVIOUS
  <2>2. 1..y \subseteq 1..x /\ x \in 1..x /\ x \notin 1..y
    BY <1>4
  <2>3. 1..y # 1..x
    BY <2>2
  <2> DEFINE ss == <<1..y, 1..x>>
  <2>4. ss \in (SUBSET Nat) \X (SUBSET Nat) /\ ss[1] = 1..y /\ ss[2] = 1..x
    BY <2>1
  <2> HIDE DEF ss
  <2>5. ss \in StrictSubsetOrdering(Nat)
    BY <2>2, <2>3, <2>4 DEF StrictSubsetOrdering
  <2> QED
    BY <2>1, <2>5, <1>2, <1>3 DEF ss
<1> QED
  BY <1>4

\* A set of numbers from 1 on without a gap is the interval of its size.
LEMMA NoGap ==
    ASSUME NEW n \in Nat, NEW P \in SUBSET (1..n), \A i \in P : \A j \in 1..i : j \in P
    PROVE  Cardinality(P) \in 0..n /\ P = 1..Cardinality(P)
<1> DEFINE k == Cardinality(P)
<1>1. IsFiniteSet(1..n) /\ Cardinality(1..n) = n
  BY FS_Interval
<1>2. IsFiniteSet(P) /\ k \in Nat /\ k <= n
  <2> DEFINE I == 1..n
  <2>1. IsFiniteSet(I) /\ Cardinality(I) = n /\ P \in SUBSET I
    BY <1>1
  <2> HIDE DEF I
  <2>2. IsFiniteSet(P) /\ Cardinality(P) <= Cardinality(I)
    BY <2>1, FS_Subset
  <2> QED
    BY <2>1, <2>2, FS_CardinalityType
<1> HIDE DEF k
<1>3. IsFiniteSet(1..k) /\ Cardinality(1..k) = k
  BY <1>2, FS_Interval
<1>4. CASE k \in P
  <2>1. 1..k \subseteq P
    BY <1>4
  <2> QED
    BY <2>1, <1>2, <1>3, FS_Subset DEF k
<1>5. CASE k \notin P
  <2>1. \A i \in P : i < k
    <3> SUFFICES ASSUME NEW i \in P, ~(i < k) PROVE FALSE
      OBVIOUS
    <3>1. k = 0
      BY <1>2, <1>5
    <3>2. P = {}
      BY <1>2, <3>1, FS_EmptySet DEF k
    <3> QED
      BY <3>2
  <2>2. CASE k = 0
    BY <2>2, <1>2, FS_EmptySet DEF k
  <2>3. CASE k # 0
    <3>1. IsFiniteSet(1..(k - 1)) /\ Cardinality(1..(k - 1)) = k - 1
      BY <1>2, <2>3, FS_Interval
    <3>2. P \in SUBSET (1..(k - 1))
      BY <2>1, <1>2
    <3>3. k <= k - 1
      <4> DEFINE I == 1..(k - 1)
      <4> HIDE DEF I
      <4>1. IsFiniteSet(I) /\ Cardinality(I) = k - 1 /\ P \in SUBSET I
        BY <3>1, <3>2 DEF I
      <4>2. Cardinality(P) <= Cardinality(I)
        BY <4>1, FS_Subset
      <4> QED
        BY <4>1, <4>2 DEF k
    <3> QED
      BY <3>3, <1>2
  <2> QED
    BY <2>2, <2>3
<1> QED
  BY <1>2, <1>4, <1>5 DEF k

-----------------------------------------------------------------------------
(* Logins. *)

Kinds == {"none", "limited", "ok", "wrong", "accepted", "refused"}

AccessOK ==
    /\ now \in Nat /\ demand \in Demands
    /\ failed \in [Clients -> Seq(Nat)] /\ failures \in [Clients -> Seq(Nat)]
    /\ issued \in Seq([ip : Clients, at : Nat])
    /\ store \subseteq 1..Len(issued) /\ presented \subseteq 1..Len(issued)
    /\ reply \in [kind : Kinds, client : Clients \cup {"none"}, at : Nat, token : Nat, first : BOOLEAN]
    /\ reply.kind = "limited" => reply.client \in Clients
    /\ reply.kind \in {"accepted", "refused"} => reply.token \in 1..Len(issued)

Rising(s) == \A i, j \in 1..Len(s) : i <= j => s[i] <= s[j]

\* Failures of c that are no longer kept.
Dropped(c) == Len(failures[c]) - Len(failed[c])

\* What is kept are the last failures, and those before have expired.
LoginOK(c) ==
    /\ Rising(failures[c]) /\ \A i \in 1..Len(failures[c]) : failures[c][i] <= now
    /\ Len(failed[c]) <= Len(failures[c])
    /\ \A i \in 1..Dropped(c) : now - failures[c][i] > Window
    /\ \A i \in 1..Len(failed[c]) : failed[c][i] = failures[c][Dropped(c) + i]

\* The loop that pops from the left leaves exactly what has not expired.
LEMMA RecentFacts ==
    ASSUME now \in Nat, NEW s \in Seq(Nat), Rising(s)
    PROVE  /\ Recent(s) \in Seq(Nat) /\ Len(Recent(s)) <= Len(s)
           /\ \A i \in 1..Len(Recent(s)) :
                 /\ Recent(s)[i] = s[Len(s) - Len(Recent(s)) + i]
                 /\ now - Recent(s)[i] <= Window
           /\ \A i \in 1..(Len(s) - Len(Recent(s))) : now - s[i] > Window
<1> DEFINE k == Cardinality(Popped(s))
<1>1. k \in 0..Len(s) /\ Popped(s) = 1..k
  <2>1. Popped(s) \in SUBSET (1..Len(s)) /\ \A i \in Popped(s) : \A j \in 1..i : j \in Popped(s)
    BY DEF Popped
  <2> QED
    BY <2>1, NoGap
<1> HIDE DEF k
<1>2. \A i \in 1..(Len(s) - k) : k + i \in 1..Len(s) /\ s[k + i] \in Nat
  BY <1>1
<1>3. Recent(s) \in Seq(Nat) /\ Len(Recent(s)) = Len(s) - k
      /\ \A i \in 1..(Len(s) - k) : Recent(s)[i] = s[k + i]
  <2> DEFINE m == k + 1  n == Len(s)
  <2>1. m \in Int /\ n \in Int /\ n - m + 1 = n - k /\ (m <= n \/ n - k = 0)
        /\ \A i \in m..n : s[i] \in Nat
    BY <1>1
  <2>2. Recent(s) = SubSeq(s, m, n)
    BY DEF Recent, k
  <2>3. \A i \in 1..(n - k) : m + i - 1 = k + i
    BY <1>1
  <2> HIDE DEF m, n
  <2>4. /\ SubSeq(s, m, n) \in Seq(Nat)
        /\ Len(SubSeq(s, m, n)) = IF m <= n THEN n - m + 1 ELSE 0
        /\ \A i \in 1..(n - m + 1) : SubSeq(s, m, n)[i] = s[m + i - 1]
    BY <2>1, SubSeqProperties
  <2>5. \A i \in 1..(n - k) : Recent(s)[i] = s[k + i]
    BY <2>1, <2>2, <2>3, <2>4
  <2>6. Len(Recent(s)) = n - k
    BY <2>1, <2>2, <2>4
  <2> QED
    BY <2>2, <2>4, <2>5, <2>6 DEF n
<1>4. \A i \in 1..k : now - s[i] > Window
  BY <1>1 DEF Popped
<1>5. ASSUME NEW i \in 1..(Len(s) - k) PROVE now - s[k + i] <= Window
  <2>1. k + 1 \in 1..Len(s) /\ k + 1 \notin 1..k
    BY <1>1
  <2>2. PICK j \in 1..(k + 1) : ~(now - s[j] > Window)
    <3>1. k + 1 \notin Popped(s) /\ k + 1 \in DOMAIN s
      BY <2>1, <1>1
    <3> QED
      BY <3>1 DEF Popped
  <2>3. j = k + 1 /\ s[k + 1] \in Nat /\ s[k + i] \in Nat
    <3>1. j \notin 1..k
      BY <2>2, <1>4
    <3>2. j = k + 1
      BY <3>1, <1>1
    <3> QED
      BY <3>2, <2>1, <1>2
  <2>4. s[k + 1] <= s[k + i]
    BY <2>1, <1>1 DEF Rising
  <2> QED
    BY <2>2, <2>3, <2>4, LimitAssumption
<1> DEFINE n == Len(s)  R == Recent(s)
<1>6. n \in Nat /\ Len(R) = n - k /\ k = n - Len(R) /\ Len(R) <= n
  BY <1>1, <1>3
<1>7. R \in Seq(Nat) /\ \A i \in 1..(n - k) : R[i] = s[k + i] /\ now - R[i] <= Window
  BY <1>3, <1>5
<1> HIDE DEF n, R
<1> QED
  BY <1>4, <1>6, <1>7 DEF n, R

\* What a login keeps are again the last failures.
LEMMA KeptFacts ==
    ASSUME AccessOK, NEW c \in Clients, LoginOK(c)
    PROVE  /\ Recent(failed[c]) \in Seq(Nat) /\ Len(Recent(failed[c])) \in Nat
           /\ Len(Recent(failed[c])) <= Len(failed[c])
           /\ \A i \in 1..Len(Recent(failed[c])) :
                 Recent(failed[c])[i] = failures[c][Len(failures[c]) - Len(Recent(failed[c])) + i]
           /\ \A i \in 1..Len(Recent(failed[c])) : now - Recent(failed[c])[i] <= Window
           /\ \A i \in 1..(Len(failures[c]) - Len(Recent(failed[c]))) : now - failures[c][i] > Window
<1> DEFINE s == failed[c]  f == failures[c]  r == Recent(s)  d == Dropped(c)
<1>1. s \in Seq(Nat) /\ f \in Seq(Nat) /\ d \in 0..Len(f) /\ d = Len(f) - Len(s)
      /\ Len(f) \in Nat /\ Len(s) \in Nat
      /\ \A i \in 1..Len(s) : s[i] = f[d + i]
  BY DEF AccessOK, LoginOK, Dropped
<1>2. \A i, j \in 1..Len(f) : i <= j => f[i] <= f[j]
  BY DEF LoginOK, Rising
<1>3. \A i \in 1..d : now - f[i] > Window
  BY DEF LoginOK
<1> HIDE DEF s, f, d
<1>4. Rising(s)
  <2> SUFFICES ASSUME NEW i \in 1..Len(s), NEW j \in 1..Len(s), i <= j PROVE s[i] <= s[j]
    BY DEF Rising
  <2>1. d + i \in 1..Len(f) /\ d + j \in 1..Len(f) /\ d + i <= d + j
    BY <1>1
  <2> QED
    BY <2>1, <1>1, <1>2
<1>5. /\ r \in Seq(Nat) /\ Len(r) <= Len(s) /\ Len(r) \in Nat
      /\ \A i \in 1..Len(r) : r[i] = s[Len(s) - Len(r) + i] /\ now - r[i] <= Window
      /\ \A i \in 1..(Len(s) - Len(r)) : now - s[i] > Window
  BY <1>1, <1>4, RecentFacts DEF AccessOK
<1> HIDE DEF r
<1>6. ASSUME NEW i \in 1..Len(r) PROVE r[i] = f[Len(f) - Len(r) + i]
  <2>1. Len(s) - Len(r) + i \in 1..Len(s)
    BY <1>1, <1>5
  <2>2. s[Len(s) - Len(r) + i] = f[d + (Len(s) - Len(r) + i)]
    BY <2>1, <1>1
  <2>3. d + (Len(s) - Len(r) + i) = Len(f) - Len(r) + i
    BY <1>1, <1>5
  <2> QED
    BY <2>2, <2>3, <1>5
<1>7. ASSUME NEW i \in 1..(Len(f) - Len(r)) PROVE now - f[i] > Window
  <2>1. CASE i <= d
    BY <2>1, <1>1, <1>3, <1>5
  <2>2. CASE i > d
    <3> DEFINE j == i - d
    <3>1. j \in 1..(Len(s) - Len(r)) /\ j \in 1..Len(s) /\ d + j = i
      BY <2>2, <1>1, <1>5
    <3> HIDE DEF j
    <3>2. s[j] = f[i]
      BY <3>1, <1>1
    <3> QED
      BY <3>1, <3>2, <1>5
  <2> QED
    BY <2>1, <2>2, <1>1, <1>5
<1> QED
  BY <1>5, <1>6, <1>7 DEF s, f, r, d

LEMMA AccessOKStep ==
    ASSUME AccessOK, \A c \in Clients : LoginOK(c), [AccessNext]_accessVars
    PROVE  AccessOK'
<1> USE DEF AccessOK, Kinds
<1>1. demand.clients \subseteq Clients
  BY DemandsAssumption
<1>2. CASE Pass
  BY <1>2 DEF Pass
<1>3. ASSUME NEW c \in demand.clients, Login(c) PROVE AccessOK'
  <2>1. c \in Clients /\ Recent(failed[c]) \in Seq(Nat)
    BY <1>1, KeptFacts
  <2>2. CASE Limited(c)
    BY <2>1, <2>2 DEF Limited, Answer, NoReply
  <2>3. CASE LoggedIn(c)
    BY <2>1, <2>3 DEF LoggedIn, Answer, NoReply
  <2>4. CASE WrongPassword(c)
    <3>1. now' \in Nat
      BY <2>4 DEF WrongPassword
    <3>2. Append(Recent(failed[c]), now') \in Seq(Nat) /\ Append(failures[c], now') \in Seq(Nat)
      BY <2>1, <3>1
    <3>3. reply' \in [kind : Kinds, client : Clients \cup {"none"}, at : Nat, token : Nat, first : BOOLEAN]
          /\ reply'.kind = "wrong"
      BY <2>1, <2>4 DEF WrongPassword, Answer, NoReply
    <3> QED
      BY <2>1, <2>4, <3>1, <3>2, <3>3 DEF WrongPassword
  <2> QED
    BY <1>3, <2>2, <2>3, <2>4 DEF Login
<1>4. ASSUME NEW c \in demand.clients, Issue(c) PROVE AccessOK'
  <2>1. Len(issued') = Len(issued) + 1 /\ issued' \in Seq([ip : Clients, at : Nat])
    BY <1>1, <1>4 DEF Issue
  <2>2. store' \subseteq store \cup {Len(issued) + 1}
    BY <1>4 DEF Issue, Live
  <2>3. 1..Len(issued') = 1..Len(issued) \cup {Len(issued) + 1}
    BY <2>1
  <2>4. UNCHANGED <<now, failed, demand, failures, presented, reply>>
    BY <1>4 DEF Issue
  <2>5. store' \subseteq 1..Len(issued') /\ presented' \subseteq 1..Len(issued')
    BY <2>2, <2>3, <2>4
  <2>6. reply'.kind \in {"accepted", "refused"} => reply'.token \in 1..Len(issued')
    BY <2>3, <2>4
  <2>7. /\ now' \in Nat /\ demand' \in Demands
        /\ failed' \in [Clients -> Seq(Nat)] /\ failures' \in [Clients -> Seq(Nat)]
        /\ reply' \in [kind : Kinds, client : Clients \cup {"none"}, at : Nat, token : Nat, first : BOOLEAN]
        /\ reply'.kind = "limited" => reply'.client \in Clients
    BY <2>4
  <2> QED
    BY <2>1, <2>5, <2>6, <2>7
<1>5. ASSUME NEW c \in demand.clients, NEW t \in DOMAIN issued, Present(c, t) PROVE AccessOK'
  <2>1. c \in Clients /\ t \in 1..Len(issued) /\ t \in Nat
    <3>1. DOMAIN issued = 1..Len(issued)
      OBVIOUS
    <3> QED
      BY <1>1, <3>1
  <2>2. reply' \in [kind : Kinds, client : Clients \cup {"none"}, at : Nat, token : Nat, first : BOOLEAN]
        /\ reply'.kind \in {"accepted", "refused"} /\ reply'.token = t
    BY <1>5, <2>1 DEF Present, Answer, NoReply
  <2> QED
    BY <1>5, <2>1, <2>2 DEF Present, Live
<1>6. CASE UNCHANGED accessVars
  BY <1>6 DEF accessVars
<1> QED
  BY <1>2, <1>3, <1>4, <1>5, <1>6 DEF AccessNext

-----------------------------------------------------------------------------

\* Another clock changes nothing: what has expired stays so.
LEMMA LoginOKLater ==
    ASSUME AccessOK, NEW c \in Clients, LoginOK(c), now' \in Nat, now <= now',
           failed'[c] = failed[c], failures'[c] = failures[c]
    PROVE  LoginOK(c)'
<1>1. Dropped(c)' = Dropped(c)
  BY DEF Dropped
<1>2. failures[c] \in Seq(Nat) /\ Dropped(c) \in 0..Len(failures[c])
  BY DEF AccessOK, LoginOK, Dropped
<1>3. \A i \in 1..Len(failures[c]) : failures[c][i] \in Nat /\ failures[c][i] <= now
  BY <1>2 DEF LoginOK
<1>4. \A i \in 1..Dropped(c) : now - failures[c][i] > Window
  BY DEF LoginOK
<1>5. \A i \in 1..Dropped(c) : now' - failures[c][i] > Window
  <2> DEFINE f == failures[c]  d == Dropped(c)
  <2>1. now \in Nat /\ \A i \in 1..d : f[i] \in Nat /\ now - f[i] > Window
    BY <1>2, <1>3, <1>4 DEF AccessOK
  <2> HIDE DEF f, d
  <2>2. \A i \in 1..d : now' - f[i] > Window
    BY <2>1, LimitAssumption
  <2> QED
    BY <2>2 DEF f, d
<1> QED
  BY <1>1, <1>3, <1>5 DEF LoginOK, AccessOK

\* A login that only pops.
LEMMA LoginOKPopped ==
    ASSUME AccessOK, NEW c \in Clients, LoginOK(c), now' = now,
           failed'[c] = Recent(failed[c]), failures'[c] = failures[c]
    PROVE  LoginOK(c)'
<1> DEFINE r == Recent(failed[c])
<1>1. /\ r \in Seq(Nat) /\ Len(r) <= Len(failed[c]) /\ Len(r) \in Nat
      /\ \A i \in 1..Len(r) : r[i] = failures[c][Len(failures[c]) - Len(r) + i]
      /\ \A i \in 1..(Len(failures[c]) - Len(r)) : now - failures[c][i] > Window
  BY KeptFacts
<1>2. Dropped(c)' = Len(failures[c]) - Len(r)
  BY DEF Dropped
<1>3. Len(failed[c]) <= Len(failures[c]) /\ Len(failed[c]) \in Nat /\ Len(failures[c]) \in Nat
  BY DEF LoginOK, AccessOK
<1> HIDE DEF r
<1> QED
  BY <1>1, <1>2, <1>3 DEF LoginOK, r

\* A failure is appended to what is kept and to all.
LEMMA LoginOKFailed ==
    ASSUME AccessOK, NEW c \in Clients, LoginOK(c), now' \in Nat, now <= now',
           failed'[c] = Append(Recent(failed[c]), now'),
           failures'[c] = Append(failures[c], now')
    PROVE  LoginOK(c)'
<1> DEFINE r == Recent(failed[c])  f == failures[c]  d == Len(f) - Len(r)
<1>1. /\ r \in Seq(Nat) /\ Len(r) \in Nat /\ Len(r) <= Len(failed[c])
      /\ \A i \in 1..Len(r) : r[i] = f[Len(f) - Len(r) + i]
      /\ \A i \in 1..(Len(f) - Len(r)) : now - f[i] > Window
  BY KeptFacts
<1>2. f \in Seq(Nat) /\ Len(f) \in Nat /\ Len(r) <= Len(f) /\ d \in 0..Len(f) /\ now \in Nat
  <2>1. f \in Seq(Nat) /\ failed[c] \in Seq(Nat) /\ now \in Nat
    BY DEF AccessOK
  <2>2. Len(f) \in Nat /\ Len(failed[c]) \in Nat /\ Len(failed[c]) <= Len(f)
    BY <2>1 DEF LoginOK
  <2>3. Len(r) \in Nat /\ Len(r) <= Len(failed[c])
    BY <1>1
  <2> HIDE DEF f, r
  <2>4. Len(r) <= Len(f) /\ Len(f) - Len(r) \in 0..Len(f)
    BY <2>2, <2>3
  <2> QED
    BY <2>1, <2>2, <2>4
<1>3. \A i \in 1..Len(f) : f[i] \in Nat /\ f[i] <= now
  <2>1. \A i \in 1..Len(f) : f[i] <= now
    BY DEF LoginOK
  <2> HIDE DEF f
  <2> QED
    BY <1>2, <2>1
<1>4. \A i, j \in 1..Len(f) : i <= j => f[i] <= f[j]
  BY DEF LoginOK, Rising
<1>5. Dropped(c)' = d
  <2>1. Len(Append(r, now')) = Len(r) + 1 /\ Len(Append(f, now')) = Len(f) + 1
    BY <1>1, <1>2
  <2> QED
    BY <2>1, <1>1, <1>2 DEF Dropped
<1> DEFINE g == Append(f, now')  q == Append(r, now')
<1>6. /\ Len(g) = Len(f) + 1 /\ g[Len(f) + 1] = now' /\ \A i \in 1..Len(f) : g[i] = f[i]
      /\ Len(q) = Len(r) + 1 /\ q[Len(r) + 1] = now' /\ \A i \in 1..Len(r) : q[i] = r[i]
  BY <1>1, <1>2
<1>7. failures'[c] = g /\ failed'[c] = q
  OBVIOUS
<1> HIDE DEF r, f, g, q
<1>8. ASSUME NEW i \in 1..Len(g) PROVE g[i] \in Nat /\ g[i] <= now' /\ (i \in 1..Len(f) \/ i = Len(f) + 1)
  <2>1. i \in 1..Len(f) \/ i = Len(f) + 1
    BY <1>2, <1>6
  <2>2. CASE i \in 1..Len(f)
    <3>1. g[i] = f[i] /\ f[i] \in Nat /\ f[i] <= now
      BY <2>2, <1>3, <1>6
    <3> QED
      BY <2>1, <3>1, <1>2
  <2> QED
    BY <2>1, <2>2, <1>6
<1>9. \A i, j \in 1..Len(g) : i <= j => g[i] <= g[j]
  <2> SUFFICES ASSUME NEW i \in 1..Len(g), NEW j \in 1..Len(g), i <= j PROVE g[i] <= g[j]
    OBVIOUS
  <2>1. CASE j = Len(f) + 1
    BY <2>1, <1>6, <1>8
  <2>2. CASE j # Len(f) + 1
    <3>1. i \in 1..Len(f) /\ j \in 1..Len(f)
      <4>1. j \in 1..Len(f)
        BY <2>2, <1>8
      <4> QED
        BY <4>1, <1>2
    <3> QED
      BY <3>1, <1>4, <1>6
  <2> QED
    BY <2>1, <2>2
<1>10. \A i \in 1..d : now' - g[i] > Window
  <2> SUFFICES ASSUME NEW i \in 1..d PROVE now' - g[i] > Window
    OBVIOUS
  <2>1. i \in 1..Len(f) /\ i \in 1..(Len(f) - Len(r))
    BY <1>2
  <2>2. g[i] = f[i] /\ f[i] \in Nat /\ now - f[i] > Window
    BY <2>1, <1>1, <1>3, <1>6
  <2> QED
    BY <2>2, <1>2, LimitAssumption
<1>11. ASSUME NEW i \in 1..Len(q) PROVE q[i] = g[d + i]
  <2>1. CASE i = Len(r) + 1
    <3>1. d + i = Len(f) + 1
      BY <2>1, <1>1, <1>2
    <3> QED
      BY <2>1, <3>1, <1>6
  <2>2. CASE i # Len(r) + 1
    <3>1. i \in 1..Len(r) /\ d + i \in 1..Len(f)
      BY <2>2, <1>1, <1>2, <1>6
    <3> QED
      BY <3>1, <1>1, <1>6
  <2> QED
    BY <2>1, <2>2
<1> QED
  BY <1>1, <1>2, <1>5, <1>6, <1>7, <1>8, <1>9, <1>10, <1>11 DEF LoginOK, Rising

Spread(c) == \A i \in 1..(Len(failures[c]) - MaxAttempts) :
    failures[c][i + MaxAttempts] - failures[c][i] > Window

\* A failure is recorded when fewer than MaxAttempts are kept: the one that many
\* places before it has expired.
LEMMA SpreadStep ==
    ASSUME AccessOK, NEW c \in Clients, LoginOK(c), Spread(c), now' \in Nat, now <= now',
           Len(Recent(failed[c])) < MaxAttempts,
           failures'[c] = Append(failures[c], now')
    PROVE  Spread(c)'
<1> DEFINE f == failures[c]  n == Len(f) + 1  g == Append(f, now')
<1>1. Len(Recent(failed[c])) \in Nat
      /\ \A i \in 1..(Len(f) - Len(Recent(failed[c]))) : now - f[i] > Window
  BY KeptFacts
<1>2. f \in Seq(Nat) /\ Len(f) \in Nat /\ now \in Nat
  BY DEF AccessOK
<1>3. Len(g) = n /\ g[n] = now' /\ \A i \in 1..Len(f) : g[i] = f[i] /\ f[i] \in Nat
  BY <1>2
<1>4. \A i \in 1..(Len(f) - MaxAttempts) : f[i + MaxAttempts] - f[i] > Window
  BY DEF Spread
<1> HIDE DEF f, g
<1>5. ASSUME NEW i \in 1..(n - MaxAttempts) PROVE g[i + MaxAttempts] - g[i] > Window
  <2>1. CASE i = n - MaxAttempts
    <3>1. i \in 1..Len(f) /\ i \in 1..(Len(f) - Len(Recent(failed[c]))) /\ i + MaxAttempts = n
      BY <2>1, <1>1, <1>2, LimitAssumption
    <3>2. now - f[i] > Window /\ g[i] = f[i] /\ f[i] \in Nat
      BY <3>1, <1>1, <1>3
    <3>3. g[i + MaxAttempts] = now'
      BY <3>1, <1>3
    <3> QED
      BY <3>2, <3>3, <1>2, LimitAssumption
  <2>2. CASE i # n - MaxAttempts
    <3>1. MaxAttempts \in Nat /\ MaxAttempts > 0 /\ i \in Nat /\ i >= 1 /\ i < n - MaxAttempts
      <4>1. MaxAttempts \in Nat /\ MaxAttempts > 0 /\ n \in Nat
        BY <1>2, LimitAssumption
      <4>2. i \in Int /\ 1 <= i /\ i <= n - MaxAttempts /\ i # n - MaxAttempts
        BY <4>1, <2>2
      <4> QED
        BY <4>1, <4>2
    <3>3. i \in 1..Len(f) /\ i + MaxAttempts \in 1..Len(f) /\ i \in 1..(Len(f) - MaxAttempts)
      BY <3>1, <1>2
    <3> QED
      BY <3>3, <1>3, <1>4
  <2> QED
    BY <2>1, <2>2
<1> QED
  BY <1>3, <1>5 DEF Spread, f, g

\* Whoever is turned away has that many failures in the window.
LEMMA LimitedCount ==
    ASSUME AccessOK, NEW c \in Clients, LoginOK(c), Len(Recent(failed[c])) >= MaxAttempts
    PROVE  Cardinality(Within(c, Len(failures[c]), now)) >= MaxAttempts
<1> DEFINE r == Recent(failed[c])  n == Len(failures[c])  I == (n - Len(r) + 1)..n
<1>1. Len(r) \in Nat /\ n \in Nat /\ Len(r) <= n
  <2>1. Len(r) \in Nat /\ Len(r) <= Len(failed[c])
    BY KeptFacts
  <2>2. Len(failed[c]) <= n /\ Len(failed[c]) \in Nat /\ n \in Nat
    BY DEF LoginOK, AccessOK
  <2> QED
    BY <2>1, <2>2
<1>2. /\ \A i \in 1..Len(r) : r[i] = failures[c][n - Len(r) + i]
      /\ \A i \in 1..Len(r) : now - r[i] <= Window
  BY KeptFacts
<1> HIDE DEF n, r
<1>6. IsFiniteSet(I) /\ Cardinality(I) = Len(r)
  <2> DEFINE a == n - Len(r) + 1
  <2>1. a \in Int /\ n \in Int /\ Len(r) = n - a + 1 /\ (a > n => Len(r) = 0)
    BY <1>1
  <2> HIDE DEF a
  <2>2. IsFiniteSet(a..n) /\ Cardinality(a..n) = IF a > n THEN 0 ELSE n - a + 1
    BY <2>1, FS_Interval
  <2>3. Cardinality(a..n) = Len(r)
    BY <2>1, <2>2
  <2> QED
    BY <2>2, <2>3 DEF a
<1>3. ASSUME NEW i \in I PROVE i \in Within(c, n, now)
  <2> DEFINE j == i - (n - Len(r))
  <2>1. j \in 1..Len(r) /\ n - Len(r) + j = i /\ i \in 1..n
    BY <1>1
  <2>2. r[j] = failures[c][n - Len(r) + j] /\ now - r[j] <= Window
    BY <2>1, <1>2
  <2> HIDE DEF j
  <2> QED
    BY <2>1, <2>2 DEF Within
<1>4. IsFiniteSet(Within(c, n, now))
  <2>1. IsFiniteSet(1..n) /\ Within(c, n, now) \in SUBSET (1..n)
    BY <1>1, FS_Interval DEF Within
  <2> QED
    BY <2>1, FS_Subset
<1> HIDE DEF I
<1>5. Cardinality(I) <= Cardinality(Within(c, n, now)) /\ Cardinality(Within(c, n, now)) \in Nat
  BY <1>3, <1>4, FS_Subset, FS_CardinalityType
<1> QED
  BY <1>1, <1>5, <1>6, LimitAssumption DEF n, r

Turned == reply.kind = "limited" =>
    Cardinality(Within(reply.client, Len(failures[reply.client]), reply.at)) >= MaxAttempts

\* What has been counted within a window stays there.
LEMMA TurnedLater ==
    ASSUME AccessOK, Turned, reply' = reply, reply.kind = "limited" =>
               \/ failures'[reply.client] = failures[reply.client]
               \/ now' \in Nat /\ failures'[reply.client] = Append(failures[reply.client], now')
    PROVE  Turned'
<1> SUFFICES ASSUME reply.kind = "limited"
             PROVE  Cardinality(Within(reply.client, Len(failures[reply.client]), reply.at))' >= MaxAttempts
  BY DEF Turned
<1> DEFINE c == reply.client  f == failures[c]  g == failures'[c]  t == reply.at
<1> DEFINE W == {i \in 1..Len(f) : t - f[i] <= Window}  V == {i \in 1..Len(g) : t - g[i] <= Window}
<1>1. c \in Clients /\ f \in Seq(Nat) /\ t \in Nat
  BY DEF AccessOK
<1>2. CASE g = f
  BY <1>2 DEF Turned, Within
<1>3. CASE now' \in Nat /\ g = Append(f, now')
  <2>1. Len(g) = Len(f) + 1 /\ Len(f) \in Nat /\ \A i \in 1..Len(f) : g[i] = f[i]
    BY <1>1, <1>3
  <2>2. Cardinality(W) >= MaxAttempts
    BY DEF Turned, Within
  <2>3. IsFiniteSet(1..Len(g))
    BY <2>1, FS_Interval
  <2> HIDE DEF f, g, t
  <2>4. V \subseteq 1..Len(g) /\ W \subseteq V
    BY <2>1
  <2>5. IsFiniteSet(V)
    BY <2>3, <2>4, FS_Subset
  <2>6. Cardinality(W) <= Cardinality(V) /\ Cardinality(V) \in Nat /\ Cardinality(W) \in Nat
    BY <2>4, <2>5, FS_Subset, FS_CardinalityType
  <2>7. Cardinality(V) >= MaxAttempts
    BY <2>2, <2>6, LimitAssumption
  <2>8. V = Within(c, Len(failures[c]), t)'
    BY DEF Within, f, g, t
  <2> QED
    BY <2>7, <2>8 DEF t
<1> QED
  BY <1>2, <1>3

LoginInv == (\A c \in Clients : LoginOK(c) /\ Spread(c)) /\ Turned

LEMMA LoginInvStep ==
    ASSUME AccessOK, LoginInv, [AccessNext]_accessVars
    PROVE  LoginInv'
<1>1. AccessOK'
  BY AccessOKStep DEF LoginInv
<1>2. demand.clients \subseteq Clients
  BY DemandsAssumption DEF AccessOK
<1>3. \A c \in Clients : LoginOK(c) /\ Spread(c)
  BY DEF LoginInv
<1>4. Turned
  BY DEF LoginInv
<1>5. now \in Nat /\ DOMAIN failed = Clients /\ DOMAIN failures = Clients
  BY DEF AccessOK
\* An address of which nothing changes, while the clock may move on.
<1>6. ASSUME NEW c \in Clients, now' \in Nat, now <= now',
             failed'[c] = failed[c], failures'[c] = failures[c]
      PROVE  LoginOK(c)' /\ Spread(c)'
  <2>1. LoginOK(c)'
    BY <1>3, <1>6, LoginOKLater
  <2>2. Spread(c)'
    BY <1>3, <1>6 DEF Spread
  <2> QED
    BY <2>1, <2>2
<1>7. ASSUME NEW c \in demand.clients, Limited(c) PROVE LoginInv'
  <2>1. c \in Clients /\ now' = now /\ failures' = failures /\ failed' = [failed EXCEPT ![c] = Recent(@)]
        /\ reply'.kind = "limited" /\ reply'.client = c /\ reply'.at = now
    BY <1>2, <1>7 DEF Limited, Answer, NoReply
  <2>2. ASSUME NEW x \in Clients PROVE LoginOK(x)' /\ Spread(x)'
    <3>1. CASE x = c
      <4>1. LoginOK(x)'
        BY <3>1, <2>1, <1>3, <1>5, LoginOKPopped
      <4>2. Spread(x)'
        BY <2>1, <1>3 DEF Spread
      <4> QED
        BY <4>1, <4>2
    <3>2. CASE x # c
      BY <3>2, <2>1, <1>5, <1>6
    <3> QED
      BY <3>1, <3>2
  <2>3. Cardinality(Within(c, Len(failures[c]), now)) >= MaxAttempts
    BY <1>7, <2>1, <1>3, LimitedCount DEF Limited
  <2>4. Within(c, Len(failures[c]), now) = Within(reply.client, Len(failures[reply.client]), reply.at)'
    BY <2>1 DEF Within
  <2> QED
    BY <2>2, <2>3, <2>4 DEF LoginInv, Turned
<1>8. ASSUME NEW c \in demand.clients, LoggedIn(c) PROVE LoginInv'
  <2>1. c \in Clients /\ now' = now /\ failures' = failures /\ failed' = [failed EXCEPT ![c] = Recent(@)]
        /\ reply'.kind = "ok"
    BY <1>2, <1>8 DEF LoggedIn, Answer, NoReply
  <2>2. ASSUME NEW x \in Clients PROVE LoginOK(x)' /\ Spread(x)'
    <3>1. CASE x = c
      <4>1. LoginOK(x)'
        BY <3>1, <2>1, <1>3, <1>5, LoginOKPopped
      <4>2. Spread(x)'
        BY <2>1, <1>3 DEF Spread
      <4> QED
        BY <4>1, <4>2
    <3>2. CASE x # c
      BY <3>2, <2>1, <1>5, <1>6
    <3> QED
      BY <3>1, <3>2
  <2> QED
    BY <2>1, <2>2 DEF LoginInv, Turned
<1>9. ASSUME NEW c \in demand.clients, WrongPassword(c) PROVE LoginInv'
  <2>1. /\ c \in Clients /\ now' \in Nat /\ now <= now'
        /\ Len(Recent(failed[c])) < MaxAttempts
        /\ failed' = [failed EXCEPT ![c] = Append(Recent(@), now')]
        /\ failures' = [failures EXCEPT ![c] = Append(@, now')]
        /\ reply'.kind = "wrong"
    BY <1>2, <1>5, <1>9 DEF WrongPassword, Answer, NoReply
  <2>2. ASSUME NEW x \in Clients PROVE LoginOK(x)' /\ Spread(x)'
    <3>1. CASE x = c
      <4>1. failed'[c] = Append(Recent(failed[c]), now') /\ failures'[c] = Append(failures[c], now')
        BY <2>1, <1>5
      <4>2. LoginOK(c)'
        BY <4>1, <2>1, <1>3, LoginOKFailed
      <4>3. Spread(c)'
        BY <4>1, <2>1, <1>3, SpreadStep
      <4> QED
        BY <4>2, <4>3, <3>1
    <3>2. CASE x # c
      BY <3>2, <2>1, <1>5, <1>6
    <3> QED
      BY <3>1, <3>2
  <2> QED
    BY <2>1, <2>2 DEF LoginInv, Turned
\* The other steps leave the failures alone; only the clock may move.
<1>10. ASSUME now' \in Nat, now <= now', failed' = failed, failures' = failures,
              reply' = reply \/ reply'.kind \in {"accepted", "refused"}
       PROVE  LoginInv'
  <2>1. \A c \in Clients : LoginOK(c)' /\ Spread(c)'
    BY <1>6, <1>10
  <2>2. Turned'
    <3>1. CASE reply' = reply
      BY <3>1, <1>4, <1>10, TurnedLater
    <3>2. CASE reply'.kind \in {"accepted", "refused"}
      BY <3>2 DEF Turned
    <3> QED
      BY <3>1, <3>2, <1>10
  <2> QED
    BY <2>1, <2>2 DEF LoginInv
<1>11. CASE Pass
  BY <1>11, <1>5, <1>10 DEF Pass
<1>12. ASSUME NEW c \in demand.clients, Issue(c) PROVE LoginInv'
  BY <1>12, <1>5, <1>10 DEF Issue
<1>13. ASSUME NEW c \in demand.clients, NEW t \in DOMAIN issued, Present(c, t) PROVE LoginInv'
  <2>1. reply'.kind \in {"accepted", "refused"}
    BY <1>13 DEF Present, Answer, NoReply
  <2> QED
    BY <1>13, <2>1, <1>5, <1>10 DEF Present
<1>14. CASE UNCHANGED accessVars
  BY <1>14, <1>5, <1>10 DEF accessVars
<1> QED
  BY <1>7, <1>8, <1>9, <1>11, <1>12, <1>13, <1>14 DEF AccessNext, Login

-----------------------------------------------------------------------------
(* Stream tokens. *)

Expired(t) == now - issued[t].at > TokenTTL

\* A token that is no longer in the store was presented, has expired, or was given
\* up for MaxTokens newer ones.
TokenInv ==
    /\ store \cap presented = {}
    /\ \A t, u \in 1..Len(issued) : t <= u => issued[t].at <= issued[u].at
    /\ \A t \in 1..Len(issued) : issued[t].at <= now
    /\ \A t \in 1..Len(issued) :
          t \in store \/ t \in presented \/ Expired(t) \/ Len(issued) - t >= MaxTokens
    /\ TokenExact

LEMMA IssuedTypes ==
    ASSUME AccessOK
    PROVE  /\ Len(issued) \in Nat /\ DOMAIN issued = 1..Len(issued)
           /\ \A t \in 1..Len(issued) : issued[t].at \in Nat /\ issued[t].ip \in Clients
           /\ store \subseteq 1..Len(issued) /\ presented \subseteq 1..Len(issued)
<1> DEFINE R == [ip : Clients, at : Nat]
<1>1. issued \in Seq(R) /\ store \subseteq 1..Len(issued) /\ presented \subseteq 1..Len(issued)
  BY DEF AccessOK
<1>2. \A r \in R : r.at \in Nat /\ r.ip \in Clients
  OBVIOUS
<1> HIDE DEF R
<1>3. /\ Len(issued) \in Nat /\ DOMAIN issued = 1..Len(issued)
      /\ \A t \in 1..Len(issued) : issued[t] \in R
  BY <1>1
<1> QED
  BY <1>1, <1>2, <1>3

\* What is in the store lives or has expired.
LEMMA LiveOrExpired ==
    ASSUME AccessOK
    PROVE  Live \subseteq store /\ \A t \in store : t \in Live \/ Expired(t)
<1> SUFFICES ASSUME NEW t \in store PROVE t \in Live \/ Expired(t)
  BY DEF Live
<1>1. issued[t].at \in Nat /\ now \in Nat
  BY IssuedTypes DEF AccessOK
<1> QED
  BY <1>1, LimitAssumption DEF Live, Expired

\* The oldest of a full store has the others after it.
LEMMA OldestIsFirst ==
    ASSUME AccessOK, TokenInv, Cardinality(Live) >= MaxTokens, NEW o \in Oldest(Live)
    PROVE  o \in 1..Len(issued) /\ Len(issued) + 1 - o >= MaxTokens
<1> DEFINE n == Len(issued)
<1>1. n \in Nat /\ Live \subseteq 1..n /\ o \in Live
  BY IssuedTypes DEF Live, Oldest
<1>2. ASSUME NEW u \in Live PROVE u \in o..n
  <2>1. CASE u < o
    <3>1. u \in 1..n /\ o \in 1..n /\ u \in Live \ {o}
      BY <2>1, <1>1
    <3>2. issued[u].at <= issued[o].at /\ issued[u].at \in Nat /\ issued[o].at \in Nat
      BY <3>1, <2>1, <1>1, IssuedTypes DEF TokenInv
    <3>3. issued[o].at < issued[u].at \/ o < u
      BY <3>1 DEF Oldest
    <3> QED
      BY <2>1, <3>1, <3>2, <3>3
  <2> QED
    BY <2>1, <1>1
<1>3. IsFiniteSet(o..n) /\ Cardinality(o..n) = n - o + 1
  <2>1. o \in Int /\ n \in Int /\ ~(o > n)
    BY <1>1
  <2> HIDE DEF n
  <2> QED
    BY <2>1, FS_Interval
<1>4. Cardinality(Live) <= n - o + 1 /\ Cardinality(Live) \in Nat
  <2> HIDE DEF n
  <2>1. Live \in SUBSET (o..n)
    BY <1>2
  <2> QED
    BY <2>1, <1>3, FS_Subset, FS_CardinalityType
<1> QED
  BY <1>1, <1>4, LimitAssumption

LEMMA TokenInvStep ==
    ASSUME AccessOK, AccessOK', TokenInv, [AccessNext]_accessVars
    PROVE  TokenInv'
<1>1. demand.clients \subseteq Clients
  BY DemandsAssumption DEF AccessOK
<1>2. now \in Nat /\ now' \in Nat /\ Len(issued) \in Nat
      /\ \A t \in 1..Len(issued) : issued[t].at \in Nat /\ issued[t].at <= now
  BY IssuedTypes DEF AccessOK, TokenInv
\* Steps that leave the tokens alone; the clock may move on.
<1>3. ASSUME now <= now', store' = store, issued' = issued, presented' = presented,
             reply' = reply \/ reply'.kind \notin {"accepted", "refused"}
      PROVE  TokenInv'
  <2>1. \A t \in 1..Len(issued) : Expired(t) => Expired(t)'
    BY <1>2, <1>3, LimitAssumption DEF Expired
  <2>2. \A t \in 1..Len(issued) : issued[t].at <= now'
    BY <1>2, <1>3
  <2>3. TokenExact'
    BY <1>3 DEF TokenInv, TokenExact
  <2> QED
    BY <2>1, <2>2, <2>3, <1>3 DEF TokenInv
<1>4. ASSUME NEW c \in demand.clients, Issue(c) PROVE TokenInv'
  <2> DEFINE n == Len(issued)
  <2>1. /\ Len(issued') = n + 1 /\ issued'[n + 1].at = now
        /\ \A t \in 1..n : issued'[t] = issued[t]
        /\ 1..Len(issued') = 1..n \cup {n + 1}
    <3>1. issued \in Seq([ip : Clients, at : Nat]) /\ [ip |-> c, at |-> now] \in [ip : Clients, at : Nat]
      BY <1>1, <1>2 DEF AccessOK
    <3> QED
      BY <3>1, <1>2, <1>4 DEF Issue
  <2>2. /\ now' = now /\ presented' = presented /\ reply' = reply
        /\ store' \subseteq Live \cup {n + 1} /\ n + 1 \in store'
    BY <1>4 DEF Issue
  <2>3. Live \subseteq store /\ store \subseteq 1..n /\ presented \subseteq 1..n
        /\ \A t \in store : t \in Live \/ Expired(t)
    BY IssuedTypes, LiveOrExpired
  <2>4. ASSUME NEW t \in Live, t \notin store' PROVE n + 1 - t >= MaxTokens
    <3>1. Cardinality(Live) >= MaxTokens /\ t \in Oldest(Live)
      BY <2>4, <1>4 DEF Issue
    <3> QED
      BY <3>1, OldestIsFirst
  <2>5. store' \cap presented' = {}
    <3>1. n + 1 \notin presented
      BY <2>3, <1>2
    <3> QED
      BY <3>1, <2>2, <2>3 DEF TokenInv
  <2>6. \A t, u \in 1..Len(issued') : t <= u => issued'[t].at <= issued'[u].at
    <3> SUFFICES ASSUME NEW t \in 1..Len(issued'), NEW u \in 1..Len(issued'), t <= u
                 PROVE  issued'[t].at <= issued'[u].at
      OBVIOUS
    <3>1. CASE u \in 1..n
      <4>1. t \in 1..n
        BY <3>1, <2>1, <1>2
      <4> QED
        BY <3>1, <4>1, <2>1 DEF TokenInv
    <3>2. CASE u = n + 1
      BY <3>2, <2>1, <1>2
    <3> QED
      BY <3>1, <3>2, <2>1
  <2>7. \A t \in 1..Len(issued') : issued'[t].at <= now'
    BY <2>1, <2>2, <1>2
  <2>8. ASSUME NEW t \in 1..Len(issued')
        PROVE  t \in store' \/ t \in presented' \/ Expired(t)' \/ Len(issued') - t >= MaxTokens
    <3>1. CASE t = n + 1
      BY <3>1, <2>2
    <3>2. CASE t \in 1..n
      <4>1. Expired(t) => Expired(t)'
        BY <3>2, <2>1, <2>2 DEF Expired
      <4>2. n - t >= MaxTokens => Len(issued') - t >= MaxTokens
        BY <3>2, <2>1, <1>2, LimitAssumption
      <4>3. t \in store \/ t \in presented \/ Expired(t) \/ n - t >= MaxTokens
        BY <3>2 DEF TokenInv
      <4> QED
        BY <4>1, <4>2, <4>3, <2>1, <2>2, <2>3, <2>4
    <3> QED
      BY <3>1, <3>2, <2>1
  <2>9. TokenExact'
    <3> SUFFICES ASSUME reply.kind \in {"accepted", "refused"} PROVE TokenExact'
      BY <2>2 DEF TokenExact
    <3>1. reply.token \in 1..n
      BY DEF AccessOK
    <3>2. n - reply.token >= MaxTokens => Len(issued') - reply.token >= MaxTokens
      BY <3>1, <2>1, <1>2, LimitAssumption
    <3> QED
      BY <3>1, <3>2, <2>1, <2>2 DEF TokenInv, TokenExact
  <2> QED
    BY <2>5, <2>6, <2>7, <2>8, <2>9 DEF TokenInv
<1>5. ASSUME NEW c \in demand.clients, NEW t \in DOMAIN issued, Present(c, t) PROVE TokenInv'
  <2>1. /\ now' = now /\ issued' = issued
        /\ store' = Live \ {t} /\ presented' = presented \cup {t}
        /\ reply'.token = t /\ reply'.client = c /\ reply'.at = now /\ reply'.first = (t \notin presented)
        /\ reply'.kind = IF t \in Live /\ issued[t].ip = c THEN "accepted" ELSE "refused"
    BY <1>5 DEF Present, Answer, NoReply
  <2>2. t \in 1..Len(issued) /\ Live \subseteq store /\ \A u \in store : u \in Live \/ Expired(u)
    BY LiveOrExpired, IssuedTypes
  <2>3. store' \cap presented' = {}
    BY <2>1, <2>2 DEF TokenInv
  <2>4. ASSUME NEW u \in 1..Len(issued')
        PROVE  u \in store' \/ u \in presented' \/ Expired(u)' \/ Len(issued') - u >= MaxTokens
    <3>1. u \in store \/ u \in presented \/ Expired(u) \/ Len(issued) - u >= MaxTokens
      BY <2>1 DEF TokenInv
    <3>2. Expired(u) => Expired(u)'
      BY <2>1 DEF Expired
    <3> QED
      BY <3>1, <3>2, <2>1, <2>2
  <2>5. TokenExact'
    <3>1. CASE t \in Live /\ issued[t].ip = c
      <4>1. t \notin presented /\ now - issued[t].at <= TokenTTL
        BY <3>1, <2>2 DEF TokenInv, Live
      <4> QED
        BY <3>1, <4>1, <2>1 DEF TokenExact
    <3>2. CASE ~(t \in Live /\ issued[t].ip = c)
      <4>1. ASSUME t \notin presented, issued[t].ip = c, now - issued[t].at <= TokenTTL
            PROVE  Len(issued) - t >= MaxTokens
        <5>1. ~Expired(t) /\ t \notin store
          BY <4>1, <3>2, <2>2, <1>2, LimitAssumption DEF Expired
        <5> QED
          BY <5>1, <4>1, <2>2 DEF TokenInv
      <4> QED
        BY <3>2, <4>1, <2>1 DEF TokenExact
    <3> QED
      BY <3>1, <3>2
  <2> QED
    BY <2>1, <2>3, <2>4, <2>5 DEF TokenInv
<1>6. CASE Pass
  BY <1>6, <1>3, <1>2 DEF Pass
<1>7. ASSUME NEW c \in demand.clients, Login(c) PROVE TokenInv'
  <2>1. now <= now'
    BY <1>7, <1>2 DEF Login, Limited, LoggedIn, WrongPassword
  <2>2. store' = store /\ issued' = issued /\ presented' = presented /\ reply'.kind \in {"limited", "ok", "wrong"}
    BY <1>7 DEF Login, Limited, LoggedIn, WrongPassword, Answer, NoReply
  <2> QED
    BY <2>1, <2>2, <1>3
<1>8. CASE UNCHANGED accessVars
  BY <1>8, <1>3, <1>2 DEF accessVars
<1> QED
  BY <1>4, <1>5, <1>6, <1>7, <1>8 DEF AccessNext

AccessInv == AccessOK /\ LoginInv /\ TokenInv

LEMMA AccessInit == InitAccess => AccessInv
<1> SUFFICES ASSUME InitAccess PROVE AccessInv
  OBVIOUS
<1>1. AccessOK
  BY DEF InitAccess, AccessOK, NoReply, Kinds
<1>2. LoginInv
  <2>1. \A c \in Clients : failed[c] = <<>> /\ failures[c] = <<>>
    BY DEF InitAccess
  <2>2. MaxAttempts \in Nat \ {0}
    BY LimitAssumption
  <2>3. ASSUME NEW c \in Clients PROVE LoginOK(c) /\ Spread(c)
    <3>1. Len(failed[c]) = 0 /\ Len(failures[c]) = 0
      BY <2>1
    <3> QED
      BY <3>1, <2>2 DEF LoginOK, Rising, Dropped, Spread
  <2>4. Turned
    BY DEF InitAccess, Turned, NoReply
  <2> QED
    BY <2>3, <2>4 DEF LoginInv
<1>3. TokenInv
  BY DEF InitAccess, TokenInv, TokenExact, NoReply
<1> QED
  BY <1>1, <1>2, <1>3 DEF AccessInv

LEMMA AccessStep == AccessInv /\ [AccessNext]_accessVars => AccessInv'
  BY AccessOKStep, LoginInvStep, TokenInvStep DEF AccessInv, LoginInv

LEMMA AccessProperties == AccessInv => LoginLimit /\ TokenExact
  BY DEF AccessInv, LoginInv, Spread, Turned, LoginLimit, TokenInv

-----------------------------------------------------------------------------
(* The stream. *)

Increasing(s) == \A k, l \in DOMAIN s : k < l => s[k] < s[l]

\* Any finite set of numbers can be listed in order.
LEMMA Sortable ==
    ASSUME NEW n \in Nat, NEW S \in SUBSET Nat, IsFiniteSet(S), Cardinality(S) = n
    PROVE  \E s \in [1..n -> S] : Increasing(s)
<1> DEFINE Lists(m) == \A T \in SUBSET Nat : IsFiniteSet(T) /\ Cardinality(T) = m =>
                          \E s \in [1..m -> T] : Increasing(s)
           Bad == {m \in Nat : ~Lists(m)}
<1>1. CASE Bad = {}
  <2>1. n \notin Bad
    BY <1>1
  <2> QED
    BY <2>1
<1>2. CASE Bad # {}
  <2> HIDE DEF Lists
  <2>1. PICK m \in Bad : \A k \in Bad : m <= k
    <3> HIDE DEF Bad
    <3>1. Bad \in SUBSET Nat
      BY DEF Bad
    <3> QED
      BY <3>1, <1>2, Least
  <2>2. ~Lists(m) /\ m \in Nat
    OBVIOUS
  <2>3. PICK T \in SUBSET Nat : /\ IsFiniteSet(T) /\ Cardinality(T) = m
                                /\ ~\E s \in [1..m -> T] : Increasing(s)
    BY <2>2 DEF Lists
  <2>4. CASE m = 0
    <3>1. [k \in 1..m |-> 0] \in [1..m -> T] /\ Increasing([k \in 1..m |-> 0])
      BY <2>4 DEF Increasing
    <3> QED
      BY <3>1, <2>3
  <2>5. CASE m # 0
    <3>1. T # {}
      BY <2>3, <2>5, FS_EmptySet
    <3>2. PICK x \in T : \A y \in T : x <= y
      BY <3>1, Least
    <3>3. IsFiniteSet(T \ {x}) /\ Cardinality(T \ {x}) = m - 1
      BY <2>3, FS_RemoveElement
    <3>4. Lists(m - 1)
      <4>1. m - 1 \in Nat /\ m - 1 \notin Bad
        BY <2>1, <2>2, <2>5
      <4> QED
        BY <4>1
    <3>5. PICK s \in [1..(m - 1) -> T \ {x}] : Increasing(s)
      <4>1. T \ {x} \in SUBSET Nat
        OBVIOUS
      <4> QED
        BY <3>3, <3>4, <4>1 DEF Lists
    <3> DEFINE u == [k \in 1..m |-> IF k = 1 THEN x ELSE s[k - 1]]
    <3>6. \A k \in 1..m : k # 1 => k - 1 \in 1..(m - 1)
      BY <2>2
    <3>7. \A k \in 1..(m - 1) : s[k] \in T /\ s[k] # x
      OBVIOUS
    <3>8. u \in [1..m -> T]
      BY <3>6, <3>7
    <3>9. Increasing(u)
      <4> SUFFICES ASSUME NEW k \in 1..m, NEW l \in 1..m, k < l PROVE u[k] < u[l]
        BY DEF Increasing
      <4>1. l # 1 /\ l - 1 \in 1..(m - 1) /\ u[l] = s[l - 1] /\ u[l] \in Nat
        <5>1. l # 1
          BY <2>2
        <5>2. l - 1 \in 1..(m - 1) /\ u[l] = s[l - 1]
          BY <5>1, <3>6
        <5> QED
          BY <5>1, <5>2, <3>7
      <4>2. CASE k = 1
        BY <4>1, <4>2, <3>2, <3>7
      <4>3. CASE k # 1
        <5>1. k - 1 \in 1..(m - 1) /\ u[k] = s[k - 1] /\ k - 1 < l - 1
          BY <4>3, <3>6, <4>1
        <5> QED
          BY <5>1, <4>1, <3>5 DEF Increasing
      <4> QED
        BY <4>2, <4>3
    <3> QED
      BY <3>8, <3>9, <2>3
  <2> QED
    BY <2>4, <2>5
<1> QED
  BY <1>1, <1>2

\* What the query's order gives: each row once, by its id.
LEMMA AscendingFacts ==
    ASSUME NEW S \in SUBSET Nat, IsFiniteSet(S)
    PROVE  /\ Ascending(S) \in Seq(S) /\ Len(Ascending(S)) = Cardinality(S)
           /\ DOMAIN Ascending(S) = 1..Cardinality(S) /\ Cardinality(S) \in Nat
           /\ Ascending(S) \in Seq(Nat)
           /\ \A k \in 1..Cardinality(S) : Ascending(S)[k] \in S /\ Ascending(S)[k] \in Nat
           /\ Increasing(Ascending(S))
           /\ \A x \in S : \E k \in 1..Cardinality(S) : Ascending(S)[k] = x
<1> DEFINE n == Cardinality(S)  s == Ascending(S)
<1>1. n \in Nat
  BY FS_CardinalityType
<1>2. s \in [1..n -> S] /\ Increasing(s)
  <2>1. \E t \in [1..n -> S] : \A k, l \in DOMAIN t : k < l => t[k] < t[l]
    BY <1>1, Sortable DEF Increasing
  <2> QED
    BY <2>1 DEF Ascending, Increasing
<1> HIDE DEF n, s
<1>3. s \in Injection(1..n, S)
  <2>1. \A k, l \in 1..n : s[k] = s[l] => k = l
    <3> SUFFICES ASSUME NEW k \in 1..n, NEW l \in 1..n, s[k] = s[l], k # l PROVE FALSE
      OBVIOUS
    <3>1. k < l \/ l < k
      BY <1>1
    <3>2. s[k] \in Nat /\ s[l] \in Nat /\ DOMAIN s = 1..n
      BY <1>2
    <3> QED
      BY <3>1, <3>2, <1>2 DEF Increasing
  <2> QED
    BY <2>1, <1>2 DEF Injection, IsInjective
<1>4. s \in Surjection(1..n, S)
  <2>1. IsFiniteSet(1..n) /\ Cardinality(1..n) = n
    BY <1>1, FS_Interval
  <2> QED
    BY <2>1, <1>3, FS_Injection DEF n
<1>5. \A x \in S : \E k \in 1..n : s[k] = x
  BY <1>4 DEF Surjection
<1>6. /\ s \in Seq(S) /\ Len(s) = n /\ DOMAIN s = 1..n
      /\ s \in Seq(Nat) /\ \A k \in 1..n : s[k] \in S /\ s[k] \in Nat
  <2>1. s \in [1..n -> Nat]
    BY <1>2
  <2> QED
    BY <1>1, <1>2, <2>1
<1> QED
  BY <1>1, <1>2, <1>5, <1>6 DEF n, s

\* The next rows of a set are those below all others of it, the newest those above.
LEMMA LowestFacts ==
    ASSUME NEW S \in SUBSET Nat, IsFiniteSet(S), NEW n \in Nat \ {0}
    PROVE  /\ Lowest(S, n) \subseteq S /\ IsFiniteSet(Lowest(S, n))
           /\ \A i \in S, m \in Lowest(S, n) : i <= m => i \in Lowest(S, n)
<1>1. Lowest(S, n) \subseteq S /\ IsFiniteSet(Lowest(S, n))
  <2>1. Lowest(S, n) \in SUBSET S
    BY DEF Lowest
  <2> QED
    BY <2>1, FS_Subset
<1>2. ASSUME NEW i \in S, NEW m \in Lowest(S, n), i <= m PROVE i \in Lowest(S, n)
  <2> DEFINE I == {j \in S : j < i}  M == {j \in S : j < m}
  <2>1. m \in S /\ Cardinality(M) < n
    BY DEF Lowest
  <2>2. M \in SUBSET S /\ I \in SUBSET M
    <3>1. ASSUME NEW j \in S, j < i PROVE j < m
      <4>1. j \in Nat /\ i \in Nat /\ m \in Nat
        BY <2>1
      <4> QED
        BY <3>1, <4>1, <1>2
    <3> QED
      BY <3>1
  <2>3. IsFiniteSet(M) /\ Cardinality(M) \in Nat
    BY <2>2, FS_Subset, FS_CardinalityType
  <2>4. Cardinality(I) <= Cardinality(M) /\ Cardinality(I) \in Nat
    <3> HIDE DEF I, M
    <3> QED
      BY <2>2, <2>3, FS_Subset, FS_CardinalityType
  <2>5. Cardinality(I) < n
    BY <2>1, <2>3, <2>4
  <2> QED
    BY <2>5 DEF Lowest
<1> QED
  BY <1>1, <1>2

LEMMA HighestFacts ==
    ASSUME NEW S \in SUBSET Nat, IsFiniteSet(S), NEW n \in Nat \ {0}
    PROVE  /\ Highest(S, n) \subseteq S /\ IsFiniteSet(Highest(S, n))
           /\ \A i \in S, m \in Highest(S, n) : m <= i => i \in Highest(S, n)
<1>1. Highest(S, n) \subseteq S /\ IsFiniteSet(Highest(S, n))
  <2>1. Highest(S, n) \in SUBSET S
    BY DEF Highest
  <2> QED
    BY <2>1, FS_Subset
<1>2. ASSUME NEW i \in S, NEW m \in Highest(S, n), m <= i PROVE i \in Highest(S, n)
  <2> DEFINE I == {j \in S : j > i}  M == {j \in S : j > m}
  <2>1. m \in S /\ Cardinality(M) < n
    BY DEF Highest
  <2>2. M \in SUBSET S /\ I \in SUBSET M
    <3>1. ASSUME NEW j \in S, j > i PROVE j > m
      <4>1. j \in Nat /\ i \in Nat /\ m \in Nat
        BY <2>1
      <4> QED
        BY <3>1, <4>1, <1>2
    <3> QED
      BY <3>1
  <2>3. IsFiniteSet(M) /\ Cardinality(M) \in Nat
    BY <2>2, FS_Subset, FS_CardinalityType
  <2>4. Cardinality(I) <= Cardinality(M) /\ Cardinality(I) \in Nat
    <3> HIDE DEF I, M
    <3> QED
      BY <2>2, <2>3, FS_Subset, FS_CardinalityType
  <2>5. Cardinality(I) < n
    BY <2>1, <2>3, <2>4
  <2> QED
    BY <2>5 DEF Highest
<1> QED
  BY <1>1, <1>2

\* A finite set of numbers has a greatest one, the last in order.
LEMMA Greatest ==
    ASSUME NEW S \in SUBSET Nat, IsFiniteSet(S), S # {}
    PROVE  Max(S) \in S /\ \A x \in S : x <= Max(S)
<1> DEFINE s == Ascending(S)  n == Cardinality(S)
<1>1. /\ s \in Seq(S) /\ Len(s) = n /\ n \in Nat /\ Increasing(s)
      /\ \A x \in S : \E k \in 1..n : s[k] = x
  BY AscendingFacts
<1> HIDE DEF s, n
<1>2. n # 0
  <2>1. PICK x \in S : TRUE
    OBVIOUS
  <2>2. PICK k \in 1..n : s[k] = x
    BY <1>1
  <2> QED
    BY <2>2, <1>1
<1>3. s[n] \in S
  BY <1>1, <1>2
<1>4. \A x \in S : x <= s[n]
  <2> SUFFICES ASSUME NEW x \in S PROVE x <= s[n]
    OBVIOUS
  <2>1. PICK k \in 1..n : s[k] = x
    BY <1>1
  <2>2. CASE k = n
    BY <2>1, <2>2
  <2>3. CASE k # n
    <3>1. k < n /\ k \in DOMAIN s /\ n \in DOMAIN s
      BY <1>1, <2>3
    <3>2. s[k] < s[n] /\ s[n] \in Nat
      BY <3>1, <1>1, <1>3 DEF Increasing
    <3> QED
      BY <3>2, <2>1
  <2> QED
    BY <2>2, <2>3
<1>5. \E x \in S : \A y \in S : x >= y
  BY <1>3, <1>4
<1>6. Max(S) \in S /\ \A y \in S : Max(S) >= y
  BY <1>5 DEF Max
<1> QED
  BY <1>6

Conns == [state : {"closed", "sync", "poll"}, filter : SUBSET Procs, last : Nat]

\* What was sent is in order and not above last_id, and a row of the category
\* above the first of them and not above last_id was sent or is late.
StreamInv ==
    /\ conn \in Conns /\ got \in Seq(Nat)
    /\ conn.state # "poll" => got = <<>>
    /\ Increasing(got)
    /\ \A k \in 1..Len(got) : got[k] <= conn.last
    /\ got # <<>> => \A i \in Seen : got[1] < i /\ i <= conn.last => i \in Sent \cup late

LEMMA ConcatFacts ==
    ASSUME NEW s \in Seq(Nat), NEW a \in Seq(Nat)
    PROVE  /\ s \o a \in Seq(Nat) /\ Len(s \o a) = Len(s) + Len(a)
           /\ DOMAIN (s \o a) = 1..(Len(s) + Len(a))
           /\ \A k \in 1..Len(s) : (s \o a)[k] = s[k]
           /\ \A k \in 1..Len(a) : (s \o a)[Len(s) + k] = a[k]
<1>1. s \o a \in Seq(Nat) /\ Len(s \o a) = Len(s) + Len(a)
  OBVIOUS
<1>2. Len(s) \in Nat /\ Len(a) \in Nat
  OBVIOUS
<1>3. \A k \in 1..(Len(s) + Len(a)) : (s \o a)[k] = IF k <= Len(s) THEN s[k] ELSE a[k - Len(s)]
  OBVIOUS
<1>4. ASSUME NEW k \in 1..Len(s) PROVE (s \o a)[k] = s[k]
  BY <1>2, <1>3
<1>5. ASSUME NEW k \in 1..Len(a) PROVE (s \o a)[Len(s) + k] = a[k]
  <2>1. Len(s) + k \in 1..(Len(s) + Len(a)) /\ ~(Len(s) + k <= Len(s)) /\ Len(s) + k - Len(s) = k
    BY <1>2
  <2> QED
    BY <2>1, <1>3
<1> QED
  BY <1>1, <1>4, <1>5

\* Rows above all that was sent go behind it.
LEMMA SendFacts ==
    ASSUME NEW s \in Seq(Nat), Increasing(s), NEW B \in SUBSET Nat, IsFiniteSet(B), B # {},
           \A k \in 1..Len(s), b \in B : s[k] < b
    PROVE  LET g == s \o Ascending(B)
           IN  /\ g \in Seq(Nat) /\ Increasing(g) /\ g # <<>>
               /\ g[1] = (IF s = <<>> THEN Ascending(B)[1] ELSE s[1])
               /\ \A b \in B : Ascending(B)[1] <= b
               /\ Ascending(B)[1] \in B
               /\ \A k \in 1..Len(g) : g[k] \in B \/ (k \in 1..Len(s) /\ g[k] = s[k])
               /\ \A k \in 1..Len(s) : k \in 1..Len(g) /\ g[k] = s[k]
               /\ \A b \in B : \E k \in 1..Len(g) : g[k] = b
<1> DEFINE a == Ascending(B)  g == s \o a  n == Len(s)  m == Cardinality(B)
<1>1. /\ a \in Seq(Nat) /\ Len(a) = m /\ m \in Nat /\ Increasing(a)
      /\ \A b \in B : \E k \in 1..m : a[k] = b
  BY AscendingFacts
<1>3. DOMAIN a = 1..m /\ \A k \in 1..m : a[k] \in B /\ a[k] \in Nat
  BY AscendingFacts
<1>2. n \in Nat /\ DOMAIN s = 1..n /\ \A k \in 1..n : s[k] \in Nat
  OBVIOUS
<1> HIDE DEF a, m
<1>5. /\ g \in Seq(Nat) /\ Len(g) = n + m /\ DOMAIN g = 1..(n + m)
      /\ \A k \in 1..n : g[k] = s[k]
      /\ \A k \in 1..m : g[n + k] = a[k]
  BY <1>1, ConcatFacts
<1> HIDE DEF g, n
<1>6. m # 0
  <2>1. PICK b \in B : TRUE
    OBVIOUS
  <2>2. PICK k \in 1..m : a[k] = b
    BY <1>1
  <2> QED
    BY <2>2, <1>1
<1>7. ASSUME NEW k \in 1..(n + m), k \notin 1..n
      PROVE  k - n \in 1..m /\ g[k] = a[k - n] /\ g[k] \in B
  <2> DEFINE j == k - n
  <2>1. j \in 1..m /\ n + j = k
    BY <1>7, <1>1, <1>2
  <2> HIDE DEF j
  <2>2. g[k] = a[j]
    BY <2>1, <1>5
  <2> QED
    BY <2>1, <2>2, <1>3 DEF j
<1>8. Increasing(g)
  <2> SUFFICES ASSUME NEW k \in 1..(n + m), NEW l \in 1..(n + m), k < l PROVE g[k] < g[l]
    BY <1>5 DEF Increasing
  <2>1. CASE l \in 1..n
    <3>1. k \in 1..n
      BY <2>1, <1>2
    <3> QED
      BY <3>1, <2>1, <1>2, <1>5 DEF Increasing
  <2>2. CASE l \notin 1..n /\ k \in 1..n
    BY <2>2, <1>5, <1>7 DEF n
  <2>3. CASE l \notin 1..n /\ k \notin 1..n
    <3>1. k - n \in 1..m /\ l - n \in 1..m /\ k - n < l - n
      BY <2>3, <1>1, <1>2, <1>7
    <3>2. a[k - n] < a[l - n]
      BY <3>1, <1>1, <1>3 DEF Increasing
    <3> QED
      BY <3>2, <2>3, <1>7
  <2> QED
    BY <2>1, <2>2, <2>3
<1>9. \A b \in B : a[1] <= b
  <2> SUFFICES ASSUME NEW b \in B PROVE a[1] <= b
    OBVIOUS
  <2>1. PICK k \in 1..m : a[k] = b
    BY <1>1
  <2>2. 1 \in 1..m /\ a[1] \in Nat
    BY <1>1, <1>3, <1>6
  <2>3. CASE k = 1
    BY <2>1, <2>2, <2>3
  <2>4. CASE k # 1
    <3>1. 1 < k
      BY <2>1, <2>4
    <3>2. a[1] < a[k]
      BY <3>1, <2>1, <2>2, <1>1, <1>3 DEF Increasing
    <3> QED
      BY <3>2, <2>1, <2>2, <1>3
  <2> QED
    BY <2>3, <2>4
<1>10. a[1] \in B
  BY <1>1, <1>3, <1>6
<1>11. g # <<>>
  <2>1. Len(g) # 0
    BY <1>1, <1>2, <1>5, <1>6
  <2> QED
    BY <2>1
<1>12. g[1] = IF s = <<>> THEN a[1] ELSE s[1]
  <2>1. CASE s = <<>>
    <3>1. n = 0 /\ 1 \in 1..m
      BY <2>1, <1>1, <1>6 DEF n
    <3>2. g[n + 1] = a[1]
      BY <3>1, <1>5
    <3> QED
      BY <3>1, <3>2, <2>1
  <2>2. CASE s # <<>>
    <3>1. 1 \in 1..n
      BY <2>2 DEF n
    <3> QED
      BY <3>1, <2>2, <1>5
  <2> QED
    BY <2>1, <2>2
<1>13. \A k \in 1..Len(g) : g[k] \in B \/ (k \in 1..n /\ g[k] = s[k])
  BY <1>5, <1>7
<1>14. \A k \in 1..n : k \in 1..Len(g) /\ g[k] = s[k]
  BY <1>1, <1>2, <1>5
<1>15. ASSUME NEW b \in B PROVE \E k \in 1..Len(g) : g[k] = b
  <2>1. PICK k \in 1..m : a[k] = b
    BY <1>1
  <2>2. n + k \in 1..Len(g) /\ g[n + k] = b
    BY <2>1, <1>1, <1>2, <1>5
  <2> QED
    BY <2>2
<1> QED
  BY <1>5, <1>8, <1>9, <1>10, <1>11, <1>12, <1>13, <1>14, <1>15 DEF g, a, n

LEMMA SeenFacts ==
    ASSUME TypeOK
    PROVE  /\ Seen \in SUBSET Nat /\ IsFiniteSet(Seen)
           /\ \A T \in SUBSET Seen : T \in SUBSET Nat /\ IsFiniteSet(T)
<1>1. IsFiniteSet(1..Len(rows))
  BY RowTypes, FS_Interval
<1>2. Seen \in SUBSET (1..Len(rows))
  BY RowTypes DEF Seen
<1>3. ASSUME NEW T \in SUBSET Seen PROVE T \in SUBSET Nat /\ IsFiniteSet(T)
  <2>1. T \in SUBSET (1..Len(rows)) /\ T \in SUBSET Nat
    BY <1>2
  <2> HIDE DEF Seen
  <2> QED
    BY <1>1, <2>1, FS_Subset
<1> QED
  BY <1>2, <1>3

\* To send all rows of the category up to a new last_id keeps the invariant.
LEMMA SendStep ==
    ASSUME TypeOK, StreamInv, NEW B \in SUBSET Seen, B # {}, NEW L \in Nat,
           conn' = [conn EXCEPT !.state = "poll", !.last = L],
           got' = got \o Ascending(B), rows' = rows, late' = late, conn.last <= L,
           \A k \in 1..Len(got), b \in B : got[k] < b,
           \A b \in B : b <= L,
           \A i \in Seen : i <= L /\ (IF got = <<>> THEN \E b \in B : b < i ELSE conn.last < i)
                             => i \in B
    PROVE  StreamInv'
<1>1. B \in SUBSET Nat /\ IsFiniteSet(B) /\ Seen \in SUBSET Nat
  BY SeenFacts
<1>2. /\ got \in Seq(Nat) /\ Increasing(got) /\ conn \in Conns
      /\ \A k \in 1..Len(got) : got[k] <= conn.last /\ got[k] \in Nat
  BY DEF StreamInv
<1> DEFINE a == Ascending(B)
<1>3. /\ got' \in Seq(Nat) /\ Increasing(got') /\ got' # <<>>
      /\ got'[1] = (IF got = <<>> THEN a[1] ELSE got[1])
      /\ \A b \in B : a[1] <= b
      /\ a[1] \in B
      /\ \A k \in 1..Len(got') : got'[k] \in B \/ (k \in 1..Len(got) /\ got'[k] = got[k])
      /\ \A k \in 1..Len(got) : k \in 1..Len(got') /\ got'[k] = got[k]
      /\ \A b \in B : \E k \in 1..Len(got') : got'[k] = b
  <2> DEFINE g == got \o a
  <2>1. /\ g \in Seq(Nat) /\ Increasing(g) /\ g # <<>>
        /\ g[1] = (IF got = <<>> THEN a[1] ELSE got[1])
        /\ \A b \in B : a[1] <= b
        /\ a[1] \in B
        /\ \A k \in 1..Len(g) : g[k] \in B \/ (k \in 1..Len(got) /\ g[k] = got[k])
        /\ \A k \in 1..Len(got) : k \in 1..Len(g) /\ g[k] = got[k]
        /\ \A b \in B : \E k \in 1..Len(g) : g[k] = b
    BY <1>1, <1>2, SendFacts
  <2>2. got' = g
    OBVIOUS
  <2> HIDE DEF g, a
  <2> QED
    BY <2>1, <2>2
<1> HIDE DEF a
<1>4. conn' \in Conns /\ conn'.state = "poll" /\ conn'.last = L /\ conn'.filter = conn.filter
  BY <1>2 DEF Conns
<1>5. Seen' = Seen
  BY <1>4 DEF Seen
<1>6. DOMAIN got = 1..Len(got) /\ DOMAIN got' = 1..Len(got')
  BY <1>2, <1>3
<1>7. Sent \subseteq Sent' /\ B \subseteq Sent'
  <2>1. ASSUME NEW k \in DOMAIN got PROVE got[k] \in Sent'
    <3>1. k \in DOMAIN got' /\ got'[k] = got[k]
      BY <1>3, <1>6
    <3> QED
      BY <3>1 DEF Sent
  <2>2. ASSUME NEW b \in B PROVE b \in Sent'
    <3>1. PICK k \in DOMAIN got' : got'[k] = b
      BY <1>3, <1>6
    <3> QED
      BY <3>1 DEF Sent
  <2> QED
    BY <2>1, <2>2 DEF Sent
<1>8. \A k \in 1..Len(got') : got'[k] <= L
  <2> SUFFICES ASSUME NEW k \in 1..Len(got') PROVE got'[k] <= L
    OBVIOUS
  <2>1. CASE got'[k] \in B
    BY <2>1
  <2>2. CASE k \in 1..Len(got) /\ got'[k] = got[k]
    <3>1. got[k] <= conn.last /\ got[k] \in Nat /\ conn.last \in Nat
      BY <2>2, <1>2 DEF Conns
    <3> QED
      BY <3>1, <2>2
  <2> QED
    BY <2>1, <2>2, <1>3
<1>9. ASSUME NEW i \in Seen, got'[1] < i, i <= L PROVE i \in Sent' \cup late'
  <2>1. CASE got = <<>>
    <3>1. a[1] \in B /\ a[1] < i
      BY <2>1, <1>3, <1>9
    <3>2. i \in B
      BY <3>1, <2>1, <1>9
    <3> QED
      BY <3>2, <1>7
  <2>2. CASE got # <<>> /\ i <= conn.last
    <3>1. got[1] < i
      BY <2>2, <1>3, <1>9
    <3>2. i \in Sent \cup late
      BY <3>1, <2>2 DEF StreamInv
    <3> QED
      BY <3>2, <1>7
  <2>3. CASE got # <<>> /\ ~(i <= conn.last)
    <3>1. conn.last < i
      BY <2>3, <1>1, <1>2 DEF Conns
    <3> QED
      BY <3>1, <2>3, <1>7, <1>9
  <2> QED
    BY <2>1, <2>2, <2>3
<1> QED
  BY <1>3, <1>4, <1>5, <1>8, <1>9 DEF StreamInv

\* A row keeps its process, and a stream that gets nothing its history.
LEMMA RowsKeepProc ==
    ASSUME TypeOK, LogNext
    PROVE  \A i \in DOMAIN rows : rows'[i].proc = rows[i].proc
<1>1. rows \in Seq(Row)
  BY RowTypes
<1>2. ASSUME NEW p \in Procs, \E fate \in {"gone", "committed"} : Orphans(p, fate)
      PROVE  \A i \in DOMAIN rows : rows'[i].proc = rows[i].proc
  BY <1>1, <1>2, OrphansRows
<1>3. ASSUME NEW p \in Procs, Insert(p) PROVE \A i \in DOMAIN rows : rows'[i] = rows[i]
  BY <1>1, <1>3 DEF Insert
<1> QED
  BY <1>2, <1>3 DEF LogNext, Log, LogElsewhere, Sigterm, Emit, SigtermInPut, Leave,
      Closing, PutMark, JoinEnds, Exit, Kill, Worker, Take, Commit, WriteFails

LEMMA EmptyStream ==
    ASSUME conn' \in Conns, got' = <<>>
    PROVE  StreamInv'
BY DEF StreamInv, Increasing

LEMMA ClosedStream == Closed \in Conns /\ Closed.state = "closed"
BY DEF Closed, Conns

LEMMA StreamInvStep ==
    ASSUME TypeOK, StreamInv, [Next]_vars
    PROVE  StreamInv'
<1>1. /\ conn \in Conns /\ conn.last \in Nat /\ got \in Seq(Nat)
      /\ \A k \in 1..Len(got) : got[k] <= conn.last /\ got[k] \in Nat
  BY DEF StreamInv, Conns
<1>2. CASE Pipeline
  <2>1. conn' = conn /\ got' = got /\ late \subseteq late'
    BY <1>2 DEF Pipeline
  <2>2. ASSUME NEW i \in Seen', got # <<>>, got[1] < i, i <= conn.last PROVE i \in Sent' \cup late'
    <3>1. i \in Committed' /\ rows'[i].proc \in conn.filter
      BY <2>1 DEF Seen, Committed
    <3>2. CASE i \in Committed
      <4>1. i \in DOMAIN rows /\ rows[i].state = "committed" /\ rows[i].proc = rows'[i].proc
        BY <3>2, <1>2, RowsKeepProc DEF Committed, Pipeline
      <4>2. i \in Seen
        BY <4>1, <3>1 DEF Seen
      <4>3. i \in Sent \cup late
        BY <4>2, <2>2 DEF StreamInv
      <4> QED
        BY <4>3, <2>1 DEF Sent
    <3>3. CASE i \notin Committed
      BY <3>1, <3>3, <1>2, <2>2 DEF Pipeline
    <3> QED
      BY <3>2, <3>3
  <2> QED
    BY <2>1, <2>2 DEF StreamInv
<1>3. ASSUME UNCHANGED <<rows, streamVars>> PROVE StreamInv'
  BY <1>3 DEF streamVars, StreamInv, Seen, Sent
<1>4. ASSUME NEW c \in demand.clients, NEW t \in DOMAIN issued, Open(c, t) PROVE StreamInv'
  <2>1. PICK f \in Filters, since \in {0, Len(rows)} :
            conn' = [state |-> "sync", filter |-> f, last |-> since]
    BY <1>4 DEF Open
  <2>2. f \in SUBSET Procs /\ since \in Nat
    BY RowTypes DEF Filters
  <2>3. conn' \in Conns /\ got' = <<>>
    BY <1>4, <2>1, <2>2 DEF Open, Conns
  <2> QED
    BY <2>3, EmptyStream
<1>5. ASSUME conn' = Closed, got' = <<>> PROVE StreamInv'
  BY <1>5, ClosedStream, EmptyStream
<1>6. CASE Sync
  <2> DEFINE newest == Highest(Seen, Newest)
  <2>1. /\ newest \subseteq Seen /\ newest \in SUBSET Nat /\ IsFiniteSet(newest)
        /\ \A i \in Seen, m \in newest : m <= i => i \in newest
    BY SeenFacts, HighestFacts, LimitsAssumption
  <2>2. conn.state = "sync" /\ got = <<>>
    BY <1>6 DEF Sync, StreamInv
  <2> HIDE DEF newest
  <2>3. CASE newest # {} /\ expiring
    BY <2>3, <1>5, <1>6 DEF Sync, newest
  <2>4. CASE newest = {}
    <3>1. Len(Ascending({})) = 0 /\ Ascending({}) \in Seq(Nat)
      BY SeenFacts, AscendingFacts, FS_EmptySet
    <3>2. got' = <<>> \o Ascending({}) /\ conn' = [conn EXCEPT !.state = "poll", !.last = conn.last]
      BY <1>6, <2>2, <2>4 DEF Sync, Send, newest
    <3>3. got' = <<>>
      <4>1. Ascending({}) = <<>>
        BY <3>1
      <4> QED
        BY <3>2, <4>1
    <3>4. conn' \in Conns
      BY <1>1, <3>2 DEF Conns
    <3> QED
      BY <3>3, <3>4, EmptyStream
  <2>5. CASE newest # {} /\ ~expiring
    <3> DEFINE L == Max(newest \cup {conn.last})
    <3>1. L \in newest \cup {conn.last} /\ \A x \in newest \cup {conn.last} : x <= L
      <4>1. newest \cup {conn.last} \in SUBSET Nat /\ IsFiniteSet(newest \cup {conn.last})
        BY <1>1, <2>1, FS_AddElement
      <4> QED
        BY <4>1, Greatest
    <3>2. L \in Nat /\ conn.last <= L
      BY <3>1, <1>1, <2>1
    <3>3. /\ conn' = [conn EXCEPT !.state = "poll", !.last = L]
          /\ got' = got \o Ascending(newest) /\ late' = late /\ rows' = rows
      BY <1>6, <2>5 DEF Sync, Send, newest, logVars
    <3> HIDE DEF L
    <3>4. ASSUME NEW i \in Seen, NEW b \in newest, b < i PROVE i \in newest
      <4>1. b <= i
        BY <3>4, <2>1, SeenFacts
      <4> QED
        BY <4>1, <2>1
    <3>5. newest \in SUBSET Seen /\ \A b \in newest : b <= L
      BY <2>1, <3>1
    <3>6. \A k \in 1..Len(got), b \in newest : got[k] < b
      BY <2>2
    <3>7. ASSUME NEW i \in Seen, i <= L,
                 IF got = <<>> THEN \E b \in newest : b < i ELSE conn.last < i
          PROVE  i \in newest
      BY <3>7, <3>4, <2>2
    <3> QED
      BY <2>5, <3>2, <3>3, <3>5, <3>6, <3>7, SendStep
  <2> QED
    BY <2>3, <2>4, <2>5
<1>7. CASE Poll
  <2> DEFINE new == {i \in Seen : i > conn.last}  batch == Lowest(new, Batch)
  <2>1. /\ batch \subseteq new /\ batch \in SUBSET Nat /\ IsFiniteSet(batch)
        /\ \A i \in new, m \in batch : i <= m => i \in batch
    <3>1. new \in SUBSET Seen
      OBVIOUS
    <3> HIDE DEF new
    <3> QED
      BY <3>1, SeenFacts, LowestFacts, LimitsAssumption
  <2>2. conn.state = "poll" /\ batch # {}
    BY <1>7 DEF Poll
  <2>3. batch \in SUBSET Seen /\ \A b \in batch : conn.last < b /\ b \in Nat
    BY <2>1, <1>1
  <2> HIDE DEF batch
  <2>4. CASE expiring
    BY <2>4, <1>5, <1>7 DEF Poll
  <2>5. CASE ~expiring
    <3> DEFINE L == Max(batch)
    <3>1. L \in batch /\ \A x \in batch : x <= L
      BY <2>1, <2>2, Greatest
    <3>2. L \in Nat /\ conn.last <= L
      BY <3>1, <2>3, <1>1
    <3>3. /\ conn' = [conn EXCEPT !.state = "poll", !.last = L]
          /\ got' = got \o Ascending(batch) /\ late' = late /\ rows' = rows
      BY <1>1, <1>7, <2>2, <2>5 DEF Poll, Send, batch, logVars, Conns
    <3> HIDE DEF L
    <3>4. \A k \in 1..Len(got), b \in batch : got[k] < b
      BY <1>1, <2>3
    <3>5. ASSUME NEW i \in Seen, i <= L,
                 IF got = <<>> THEN \E b \in batch : b < i ELSE conn.last < i
          PROVE  i \in batch
      <4>1. i \in Nat
        BY SeenFacts
      <4>2. conn.last < i
        BY <3>5, <4>1, <2>3, <1>1
      <4>3. i \in new
        BY <4>1, <4>2, <1>1
      <4> QED
        BY <4>3, <3>1, <3>5, <2>1
    <3> QED
      BY <2>2, <2>3, <3>1, <3>2, <3>3, <3>4, <3>5, SendStep
  <2> QED
    BY <2>4, <2>5
<1> QED
  BY <1>2, <1>3, <1>4, <1>5, <1>6, <1>7
     DEF Next, Access, Opens, Close, vars, logVars

-----------------------------------------------------------------------------
(* The pipeline and its clients under a stream. *)

LEMMA PipelineSteps == [Next]_vars => [LogNext]_logVars
  BY DEF Next, Pipeline, Access, Opens, Open, Close, Sync, Poll, vars

LEMMA AccessSteps == [Next]_vars => [AccessNext]_accessVars
  BY DEF Next, Pipeline, Access, Opens, Open, Close, Sync, Poll, vars, AccessNext

\* A reader changes nothing for those who write: with a stream above it the
\* pipeline is the pipeline alone, fairness included (logs_stream.py:133-183).
THEOREM PipelineWithin == StreamSpec => Spec
<1>1. InitStream => Init
  BY DEF InitStream
<1> QED
  BY <1>1, PipelineSteps, PTL DEF StreamSpec, Spec

LEMMA AccessWithin == StreamSpec => []AccessInv
<1>1. InitStream => AccessInv
  BY AccessInit DEF InitStream
<1>2. AccessInv /\ [Next]_vars => AccessInv'
  BY AccessSteps, AccessStep
<1> QED
  BY <1>1, <1>2, PTL DEF StreamSpec

\* For any clients, limit, window and clock: no more than MaxAttempts failures of
\* an address in one window, and nobody turned away with fewer (auth.py:70-88).
THEOREM LoginsLimited == StreamSpec => []LoginLimit
<1>1. AccessInv => LoginLimit
  BY AccessProperties
<1> QED
  BY <1>1, AccessWithin, PTL

\* For any clients, life and store size: a token opens one stream, for its own
\* address, in its time, and only the size of the store refuses a good one
\* (logs_stream.py:67-102).
THEOREM TokensExact == StreamSpec => []TokenExact
<1>1. AccessInv => TokenExact
  BY AccessProperties
<1> QED
  BY <1>1, AccessWithin, PTL

\* For any rows, sync and batch: a stream sends its rows in order, each once, and
\* leaves out only what was committed too late (logs_stream.py:133-172).
THEOREM StreamsComplete == StreamSpec => []StreamComplete
<1>1. InitStream => StreamInv
  BY ClosedStream DEF InitStream, StreamInv, Increasing
<1>2. TypeOK /\ StreamInv /\ [Next]_vars => StreamInv'
  BY StreamInvStep
<1>3. StreamInv => StreamComplete
  BY DEF StreamInv, StreamComplete, Increasing
<1>4. StreamSpec => []TypeOK
  BY PipelineWithin, TypeCorrect, PTL
<1> QED
  BY <1>1, <1>2, <1>3, <1>4, PTL DEF StreamSpec

=============================================================================
