---------------------------- MODULE LogPipeline ----------------------------
(***************************************************************************)
(* The way of a log record from the thread that logs it to its row in      *)
(* log_entries (bot/utils/logger.py).  Each process has one bounded queue  *)
(* and one daemon thread, the worker, that writes the records one by one;  *)
(* the processes meet only in the table, whose ids MariaDB hands out at    *)
(* the INSERT while a row is seen from its COMMIT on.                      *)
(*                                                                         *)
(* A process ends through close() of the handler, called three times: by   *)
(* shutdown() itself, by the logging.shutdown() that it calls, and by the  *)
(* same function at the exit of the interpreter.  The loggers keep the     *)
(* closed handler, so what is logged afterwards still enters the queue.    *)
(*                                                                         *)
(* A record is its number among those its process has logged.              *)
(***************************************************************************)
EXTENDS Naturals, Sequences, FiniteSets

CONSTANTS Procs,      \* processes that log: the bot, the web API
          Signalled,  \* those whose SIGTERM handler logs (__main__.py:29)
          Threaded,   \* those with threads besides the main one that log
          QueueMax,   \* _DB_QUEUE_MAX
          Bounds,     \* bounds of a behaviour, see below
          MaxSignals  \* bound: SIGTERMs a process gets; systemd sends two,
                      \* ExecStop's and its own

Closes == 3           \* calls of close() on the way out

\* Each behaviour has its bounds: how many records each process logs and the
\* processes whose end is looked at.
ASSUME ProcsAssumption ==
    /\ IsFiniteSet(Procs) /\ Signalled \subseteq Procs /\ Threaded \subseteq Procs
    /\ \A b \in Bounds : b.records \in [Procs -> Nat] /\ b.ending \subseteq Procs
\* The queue has room for the marks of the later calls of close() and for what a
\* signal handler logs after the first.
ASSUME SizeAssumption ==
    /\ MaxSignals \in Nat /\ QueueMax \in Nat /\ QueueMax >= Closes - 1 + MaxSignals

VARIABLES
    main,    \* main thread: running, at a put(None), in a join, gone, or stuck
    closes,  \* how often close() has put its mark
    asked,   \* the signal handler has asked the main loop to end
    signals, \* SIGTERMs delivered
    sent,    \* records logged; the number of the last one
    queue,   \* the handler's queue: record numbers and stop marks
    worker,  \* the worker: idle, with a record, in a transaction, ended, killed
    holding, \* the record the worker is writing; 0 is none
    rows,    \* log_entries: the row with id i is rows[i]
    bound,   \* the bounds of this behaviour
    \* history
    lost,    \* records that met a full queue, or whose write failed
    closedAt \* records logged before the first stop mark

procVars == <<main, closes, asked, signals>>
logVars == <<procVars, sent, queue, worker, holding, rows, bound, lost, closedAt>>

Stop == 0  \* the mark of close() in the queue, None in the code

Init ==
    /\ main = [p \in Procs |-> "running"] /\ closes = [p \in Procs |-> 0]
    /\ asked = [p \in Procs |-> FALSE] /\ signals = [p \in Procs |-> 0]
    /\ sent = [p \in Procs |-> 0] /\ queue = [p \in Procs |-> <<>>]
    /\ worker = [p \in Procs |-> "idle"] /\ holding = [p \in Procs |-> 0]
    /\ rows = <<>> /\ bound \in Bounds
    /\ lost = [p \in Procs |-> {}] /\ closedAt = [p \in Procs |-> 0]

Full(p) == Len(queue[p]) >= QueueMax

-----------------------------------------------------------------------------
(* The threads that log. *)

\* emit(): put_nowait; a full queue drops the record, which is on disk already.
Emit(p) ==
    /\ sent[p] < bound.records[p]
    /\ sent' = [sent EXCEPT ![p] = @ + 1]
    /\ IF Full(p)
       THEN lost' = [lost EXCEPT ![p] = @ \cup {sent'[p]}] /\ UNCHANGED queue
       ELSE queue' = [queue EXCEPT ![p] = Append(@, sent'[p])] /\ UNCHANGED lost
    /\ UNCHANGED <<worker, holding, rows, bound, closedAt>>

\* A record for each signal to come is kept in reserve.
SignalsToCome(p) == IF p \in Signalled \cap bound.ending THEN MaxSignals - signals[p] ELSE 0

Log(p) ==
    /\ main[p] = "running" /\ sent[p] + SignalsToCome(p) < bound.records[p]
    /\ Emit(p)
    /\ UNCHANGED procVars

\* A queue of 10 000 keeps room for the marks to come: no other thread logs that
\* much in the seconds a process takes to end.
RoomLeft(p) == closes[p] > 0 => Len(queue[p]) + Closes - closes[p] < QueueMax

LogElsewhere(p) ==
    /\ p \in Threaded /\ main[p] \notin {"exited", "stuck"} /\ RoomLeft(p)
    /\ sent[p] + SignalsToCome(p) < bound.records[p]
    /\ Emit(p)
    /\ UNCHANGED procVars

\* The main thread may be anywhere when the handler starts.
Alive(p) == main[p] \in {"running", "closing", "joining"}

\* _handle_signal() logs first, then asks the loop to end.
Sigterm(p) ==
    /\ p \in Signalled \cap bound.ending /\ Alive(p) /\ signals[p] < MaxSignals
    /\ signals' = [signals EXCEPT ![p] = @ + 1]
    /\ asked' = [asked EXCEPT ![p] = TRUE]
    /\ Emit(p)
    /\ UNCHANGED <<main, closes>>

\* The same inside a put of the main thread: the queue's lock is not reentrant
\* and its owner waits for itself. A put that waits for a place has let it go.
SigtermInPut(p) ==
    /\ p \in Signalled \cap bound.ending /\ signals[p] < MaxSignals
    /\ \/ main[p] = "running" /\ sent[p] + SignalsToCome(p) < bound.records[p]
       \/ main[p] = "closing" /\ ~Full(p)
    /\ signals' = [signals EXCEPT ![p] = @ + 1]
    /\ main' = [main EXCEPT ![p] = "stuck"]
    /\ UNCHANGED <<closes, asked, sent, queue, worker, holding, rows, bound, lost, closedAt>>

-----------------------------------------------------------------------------
(* The end of a process. *)

\* The main loop ends, asked or by itself, and shutdown() is called.
Leave(p) ==
    /\ p \in bound.ending /\ main[p] = "running"
    /\ main' = [main EXCEPT ![p] = "closing"]
    /\ UNCHANGED <<closes, asked, signals, sent, queue, worker, holding, rows, bound, lost, closedAt>>

\* close(): put(None) waits for a place, then join() starts.
PutMark(p) ==
    /\ main[p] = "closing" /\ ~Full(p)
    /\ queue' = [queue EXCEPT ![p] = Append(@, Stop)]
    /\ closes' = [closes EXCEPT ![p] = @ + 1]
    /\ closedAt' = [closedAt EXCEPT ![p] = IF closes[p] = 0 THEN sent[p] ELSE @]
    /\ main' = [main EXCEPT ![p] = "joining"]
    /\ UNCHANGED <<asked, signals, sent, worker, holding, rows, bound, lost>>

\* What becomes of a transaction whose client is gone: the server rolls it back,
\* unless it had the COMMIT already.
Orphans(p, fate) ==
    rows' = [i \in DOMAIN rows |->
                IF rows[i].proc = p /\ rows[i].state = "open"
                THEN [rows[i] EXCEPT !.state = fate] ELSE rows[i]]

\* The process is gone, and with it its daemon thread.
Exit(p) ==
    /\ main' = [main EXCEPT ![p] = "exited"]
    /\ worker' = [worker EXCEPT ![p] = IF @ = "ended" THEN @ ELSE "killed"]
    /\ \E fate \in {"gone", "committed"} : Orphans(p, fate)

\* join(timeout=5) returns because the worker has ended or because it has not.
JoinEnds(p) ==
    /\ main[p] = "joining"
    /\ IF closes[p] = Closes
       THEN Exit(p)
       ELSE main' = [main EXCEPT ![p] = "closing"] /\ UNCHANGED <<worker, rows>>
    /\ UNCHANGED <<closes, asked, signals, sent, queue, holding, bound, lost, closedAt>>

\* SIGKILL or a crash.
Kill(p) ==
    /\ p \in bound.ending /\ main[p] # "exited"
    /\ Exit(p)
    /\ UNCHANGED <<closes, asked, signals, sent, queue, holding, bound, lost, closedAt>>

-----------------------------------------------------------------------------
(* The worker; a stuck main thread holds the lock of the queue. *)

\* Mutant: the thread ends once close() is called, whatever is queued.
Take_untilClosed(p) ==
    /\ worker[p] = "idle" /\ queue[p] # <<>> /\ main[p] # "stuck"
    /\ queue' = [queue EXCEPT ![p] = Tail(@)]
    /\ worker' = [worker EXCEPT ![p] = IF closes[p] > 0 THEN "ended" ELSE "writing"]
    /\ holding' = [holding EXCEPT ![p] = IF closes[p] > 0 THEN 0 ELSE Head(queue[p])]
    /\ UNCHANGED <<procVars, sent, rows, bound, lost, closedAt>>

\* _drain(): the next record, or the mark that ends the thread.
Take(p) ==
    /\ worker[p] = "idle" /\ queue[p] # <<>> /\ main[p] # "stuck"
    /\ queue' = [queue EXCEPT ![p] = Tail(@)]
    /\ worker' = [worker EXCEPT ![p] = IF Head(queue[p]) = Stop THEN "ended" ELSE "writing"]
    /\ holding' = [holding EXCEPT ![p] = Head(queue[p])]
    /\ UNCHANGED <<procVars, sent, rows, bound, lost, closedAt>>

\* session.add and the INSERT of the flush: the row gets its id.
Insert(p) ==
    /\ worker[p] = "writing"
    /\ rows' = Append(rows, [proc |-> p, rec |-> holding[p], state |-> "open"])
    /\ worker' = [worker EXCEPT ![p] = "committing"]
    /\ UNCHANGED <<procVars, sent, queue, holding, bound, lost, closedAt>>

Commit(p) ==
    /\ worker[p] = "committing"
    /\ Orphans(p, "committed")
    /\ worker' = [worker EXCEPT ![p] = "idle"] /\ holding' = [holding EXCEPT ![p] = 0]
    /\ UNCHANGED <<procVars, sent, queue, bound, lost, closedAt>>

\* Mutants: a failed write is tried again at the end of the queue; the exception
\* leaves _drain().
WriteFails_requeued(p) ==
    /\ worker[p] \in {"writing", "committing"} /\ ~Full(p)
    /\ \E fate \in {"gone", "committed"} : Orphans(p, fate)
    /\ queue' = [queue EXCEPT ![p] = Append(@, holding[p])]
    /\ worker' = [worker EXCEPT ![p] = "idle"] /\ holding' = [holding EXCEPT ![p] = 0]
    /\ UNCHANGED <<procVars, sent, bound, lost, closedAt>>

WriteFails_raises(p) ==
    /\ worker[p] \in {"writing", "committing"}
    /\ Orphans(p, "gone")
    /\ lost' = [lost EXCEPT ![p] = @ \cup {holding[p]}]
    /\ worker' = [worker EXCEPT ![p] = "killed"] /\ holding' = [holding EXCEPT ![p] = 0]
    /\ UNCHANGED <<procVars, sent, queue, bound, closedAt>>

\* An exception before or in the transaction is swallowed; a commit whose answer
\* is lost counts as failed although the row is there.
WriteFails(p) ==
    /\ worker[p] \in {"writing", "committing"}
    /\ \E fate \in {"gone", "committed"} : Orphans(p, fate)
    /\ lost' = [lost EXCEPT ![p] = @ \cup {holding[p]}]
    /\ worker' = [worker EXCEPT ![p] = "idle"] /\ holding' = [holding EXCEPT ![p] = 0]
    /\ UNCHANGED <<procVars, sent, queue, bound, closedAt>>

Worker(p) == Take(p) \/ Insert(p) \/ Commit(p) \/ WriteFails(p)
Closing(p) == PutMark(p) \/ JoinEnds(p)

LogNext ==
    \E p \in Procs :
        \/ Log(p) \/ LogElsewhere(p) \/ Sigterm(p) \/ SigtermInPut(p)
        \/ Leave(p) \/ Closing(p) \/ Kill(p)
        \/ Worker(p)

\* The threads are scheduled; connects, reads and writes of the database time out
\* (session.py:80-86); the main loop ends soon after it is asked to.
LogFairness ==
    \A p \in Procs :
        /\ WF_logVars(Worker(p))
        /\ WF_logVars(Closing(p))
        /\ WF_logVars(asked[p] /\ Leave(p))

Spec == Init /\ [][LogNext]_logVars /\ LogFairness

-----------------------------------------------------------------------------
(* Properties. *)

Committed == {i \in DOMAIN rows : rows[i].state = "committed"}

TypeOK ==
    /\ main \in [Procs -> {"running", "closing", "joining", "exited", "stuck"}]
    /\ bound \in Bounds
    /\ closes \in [Procs -> 0..Closes] /\ asked \in [Procs -> BOOLEAN]
    /\ signals \in [Procs -> 0..MaxSignals]
    /\ worker \in [Procs -> {"idle", "writing", "committing", "ended", "killed"}]
    /\ sent \in [Procs -> Nat] /\ holding \in [Procs -> Nat] /\ closedAt \in [Procs -> Nat]
    /\ queue \in [Procs -> Seq(Nat)] /\ lost \in [Procs -> SUBSET Nat]
    /\ \A p \in Procs :
          /\ sent[p] <= bound.records[p] /\ closedAt[p] <= sent[p] /\ holding[p] <= sent[p]
          /\ Len(queue[p]) <= QueueMax /\ \A i \in 1..Len(queue[p]) : queue[p][i] <= sent[p]
          /\ \A r \in lost[p] : 1 <= r /\ r <= sent[p]
    /\ rows \in Seq([proc : Procs, rec : Nat, state : {"open", "committed", "gone"}])

\* The rows of a process have the order in which it logged, and none is there
\* twice, although writes fail after their commit (logger.py:103-136).
WrittenInOrder ==
    \A i, j \in Committed : i < j /\ rows[i].proc = rows[j].proc => rows[i].rec < rows[j].rec

\* When the worker has ended, each record logged before close() has its row, or
\* met a full queue, or its write failed: none is forgotten (logger.py:93-108).
FlushedOnClose ==
    \A p \in Procs : worker[p] = "ended" =>
        1..closedAt[p] \subseteq lost[p] \cup {rows[i].rec : i \in {k \in Committed : rows[k].proc = p}}

\* SIGTERM, and each call of shutdown(), leads to the end of the process,
\* through failing writes and a full queue (logger.py:93-97, 319-330); unless the
\* signal came inside put_nowait() of the main thread (__main__.py:30).
ShutdownReturns ==
    \A p \in Procs : main[p] = "closing" \/ asked[p] ~> main[p] \in {"exited", "stuck"}

=============================================================================
