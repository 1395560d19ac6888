--------------------------- MODULE SettingsCache ---------------------------
(***************************************************************************)
(* The settings cache of one process (bot/utils/config.py) and the settings *)
(* table that the web interface writes (web/api/main.py, update_setting).   *)
(* Each process, the bot and the web interface, has a cache of its own and  *)
(* several threads that share it under one lock.                            *)
(*                                                                         *)
(* All settings are loaded in one query, so the table is represented by the *)
(* number of its writes so far, and a cached table by that number.  Time    *)
(* counts from 1; a cache loaded at 0 was never loaded.                     *)
(***************************************************************************)
EXTENDS Naturals

CONSTANTS Threads,    \* threads of the process
          TTL,        \* CONFIG_CACHE_TTL
          MaxTime,    \* bound on the clock
          MaxWrites   \* bound on the writes

ASSUME ThreadsAssumption == "none" \notin Threads
ASSUME BoundsAssumption == TTL \in Nat /\ MaxTime \in Nat \ {0} /\ MaxWrites \in Nat

VARIABLES
    clock,    \* time.monotonic()
    db,       \* the settings table
    cache,    \* _cache and _loaded_at
    lock,     \* holder of _lock
    pc,       \* where each thread is in get, or in update_setting
    now,      \* the time at which the thread checked the cache
    got,      \* the table as its query has seen it
    mine,     \* the write that the thread has made and reloads for; 0 in a get
    \* history
    endedAt,  \* when each state of the table was overwritten
    answer,   \* the last value a get returned
    acked     \* the last write whose reload has succeeded

threadVars == <<pc, now, got, mine>>
history    == <<endedAt, answer, acked>>
vars == <<clock, db, cache, lock, threadVars, history>>

Init ==
    /\ clock = 1 /\ db = 0 /\ cache = [value |-> 0, at |-> 0] /\ lock = "none"
    /\ pc = [t \in Threads |-> "idle"]
    /\ now = [t \in Threads |-> 0] /\ got = [t \in Threads |-> 0]
    /\ mine = [t \in Threads |-> 0]
    /\ endedAt = [v \in 0..MaxWrites |-> 0]
    /\ answer = [value |-> 0, asked |-> 0, stale |-> TRUE] /\ acked = 0

Goto(t, to) == pc' = [pc EXCEPT ![t] = to]
Getting(t) == mine[t] = 0
Answer(t, value, stale) == answer' = [value |-> value, asked |-> now[t], stale |-> stale]

-----------------------------------------------------------------------------
(* The table. *)

\* A commit to the settings table.
Written == db < MaxWrites /\ db' = db + 1 /\ endedAt' = [endedAt EXCEPT ![db] = clock]

\* The other process, or a thread that does not use the cache, writes.
WriteElsewhere ==
    /\ Written
    /\ UNCHANGED <<clock, cache, lock, threadVars, answer, acked>>

Put(t) ==
    /\ pc[t] = "idle" /\ Written
    /\ mine' = [mine EXCEPT ![t] = db + 1]
    /\ Goto(t, "called")
    /\ UNCHANGED <<clock, cache, lock, now, got, answer, acked>>

-----------------------------------------------------------------------------
(* get and reload. *)

Get(t) ==
    /\ pc[t] = "idle"
    /\ mine' = [mine EXCEPT ![t] = 0] /\ Goto(t, "called")
    /\ UNCHANGED <<clock, db, cache, lock, now, got, history>>

Fresh == cache.at > 0 /\ clock < cache.at + TTL

\* The cache is fresh and the reload not forced: get answers from it.
Hit(t) ==
    /\ pc[t] = "called" /\ lock = "none"
    /\ Getting(t) /\ Fresh
    /\ answer' = [value |-> cache.value, asked |-> clock, stale |-> FALSE]
    /\ Goto(t, "idle")
    /\ UNCHANGED <<clock, db, cache, lock, now, got, mine, endedAt, acked>>

\* Mutant: the lock is not held during the query.
Miss_unlocked(t) ==
    /\ pc[t] = "called" /\ lock = "none"
    /\ ~Getting(t) \/ ~Fresh
    /\ now' = [now EXCEPT ![t] = clock] /\ Goto(t, "query")
    /\ UNCHANGED <<clock, db, cache, lock, got, mine, history>>

\* The time is taken and the table queried, under the lock.
Miss(t) ==
    /\ pc[t] = "called" /\ lock = "none" /\ lock' = t
    /\ ~Getting(t) \/ ~Fresh
    /\ now' = [now EXCEPT ![t] = clock] /\ Goto(t, "query")
    /\ UNCHANGED <<clock, db, cache, got, mine, history>>

Query(t) ==
    /\ pc[t] = "query"
    /\ got' = [got EXCEPT ![t] = db] /\ Goto(t, "store")
    /\ UNCHANGED <<clock, db, cache, lock, now, mine, history>>

\* The database cannot be reached, or the connection breaks.  With a cache the
\* stale value is returned; without one ConfigError is raised.  The reload of a
\* write has no value to return.
LoadFails(t) ==
    /\ pc[t] \in {"query", "store"}
    /\ \/ Getting(t) /\ cache.at > 0 /\ Answer(t, cache.value, TRUE)
       \/ (~Getting(t) \/ cache.at = 0) /\ UNCHANGED answer
    /\ Goto(t, "idle") /\ lock' = "none"
    /\ UNCHANGED <<clock, db, cache, now, got, mine, endedAt, acked>>

\* Mutant: the cache is dated by the end of the load.
Stored_atTheEnd(t) == [value |-> got[t], at |-> clock]

Stored(t) == [value |-> got[t], at |-> now[t]]

\* Mutant: a write in this process is answered without its reload.
Store_getsOnly(t) ==
    /\ pc[t] = "store"
    /\ IF Getting(t)
       THEN cache' = Stored(t) /\ Answer(t, got[t], FALSE) /\ UNCHANGED acked
       ELSE acked' = mine[t] /\ UNCHANGED <<cache, answer>>
    /\ Goto(t, "idle") /\ lock' = "none"
    /\ UNCHANGED <<clock, db, now, got, mine, endedAt>>

\* The cache is replaced and dated; get returns, or the write is answered.
Store(t) ==
    /\ pc[t] = "store"
    /\ cache' = Stored(t)
    /\ \/ Getting(t) /\ Answer(t, got[t], FALSE) /\ UNCHANGED acked
       \/ ~Getting(t) /\ acked' = mine[t] /\ UNCHANGED answer
    /\ Goto(t, "idle") /\ lock' = "none"
    /\ UNCHANGED <<clock, db, now, got, mine, endedAt>>

-----------------------------------------------------------------------------
Tick ==
    /\ clock < MaxTime /\ clock' = clock + 1
    /\ UNCHANGED <<db, cache, lock, threadVars, history>>

Load(t) == Query(t) \/ LoadFails(t) \/ Store(t)
Thread(t) == Get(t) \/ Put(t) \/ Hit(t) \/ Miss(t) \/ Load(t)

Next == WriteElsewhere \/ Tick \/ \E t \in Threads : Thread(t)
Spec == Init /\ [][Next]_vars

-----------------------------------------------------------------------------
(* Properties. *)

CacheType == [value : 0..MaxWrites, at : 0..MaxTime]

\* Type invariant of the table, the cache and the threads.
TypeOK ==
    /\ clock \in 1..MaxTime /\ db \in 0..MaxWrites /\ cache \in CacheType
    /\ lock \in Threads \cup {"none"}
    /\ pc \in [Threads -> {"idle", "called", "query", "store"}]
    /\ now \in [Threads -> 0..MaxTime] /\ got \in [Threads -> 0..MaxWrites]
    /\ mine \in [Threads -> 0..MaxWrites]
    /\ endedAt \in [0..MaxWrites -> 0..MaxTime]
    /\ answer \in [value : 0..MaxWrites, asked : 0..MaxTime, stale : BOOLEAN]
    /\ acked \in 0..MaxWrites

\* A value that get returns was in the table at most TTL before get looked at
\* the cache, however long the loads take, unless the load of this very call
\* has failed (config.py:97-121).
BoundedStaleness ==
    ~answer.stale => answer.value = db \/ endedAt[answer.value] + TTL >= answer.asked

\* The values that the threads of a process get never go back to an older
\* table, also after failed loads (config.py:196-198).
MonotoneReads == [][answer'.value >= answer.value]_vars

\* Once a write has been answered after a successful reload, no thread of the
\* process sees the table without it (main.py:254, config.py:208-216).
WriteVisible == acked <= cache.value

=============================================================================
