------------------------ MODULE SettingsCache_proofs ------------------------
(***************************************************************************)
(* For any threads, TTL and bounds: what a get returns is at most TTL old,  *)
(* a process never goes back to an older table, and a write that has been   *)
(* answered after its reload stays visible.                                *)
(***************************************************************************)
EXTENDS SettingsCache, TLAPS

\* Only the holder of the lock has a query under way.
LockInv == \A t \in Threads : pc[t] \in {"query", "store"} => lock = t

\* The cache holds a table that was current when, or after, it was dated; no
\* answer and no acknowledged write is ahead of it.
CacheInv ==
    /\ cache.value <= db /\ cache.at <= clock
    /\ cache.value = db \/ endedAt[cache.value] >= cache.at
    /\ acked <= cache.value /\ answer.value <= cache.value
    /\ answer.asked <= clock

\* A table that a thread has queried and not stored: no older than the cache,
\* than the thread's own write, and than the time of its check.
ThreadInv == \A t \in Threads :
    /\ now[t] <= clock /\ mine[t] <= db
    /\ pc[t] = "store" =>
          /\ got[t] <= db /\ cache.value <= got[t] /\ mine[t] <= got[t]
          /\ got[t] = db \/ endedAt[got[t]] >= now[t]

IInv == TypeOK /\ LockInv /\ CacheInv /\ ThreadInv /\ BoundedStaleness

USE ThreadsAssumption, BoundsAssumption

-----------------------------------------------------------------------------
\* What a commit to the table changes.
LEMMA WrittenFacts ==
    ASSUME TypeOK, Written
    PROVE  /\ db' = db + 1 /\ db' \in 0..MaxWrites
           /\ endedAt' \in [0..MaxWrites -> 0..MaxTime] /\ endedAt'[db] = clock
           /\ \A v \in 0..MaxWrites : v # db => endedAt'[v] = endedAt[v]
BY DEF TypeOK, Written

\* What was current at some time not after now still was, after a commit.
LEMMA StillDated ==
    ASSUME TypeOK, Written, NEW v \in 0..MaxWrites, NEW a \in Nat,
           v <= db, a <= clock, v = db \/ endedAt[v] >= a
    PROVE  v <= db' /\ endedAt'[v] >= a
<1>1. /\ db' = db + 1 /\ endedAt'[db] = clock
      /\ \A x \in 0..MaxWrites : x # db => endedAt'[x] = endedAt[x]
  BY WrittenFacts
<1>2. db \in Nat /\ clock \in Nat
  BY DEF TypeOK
<1>3. v <= db'
  BY <1>1, <1>2
<1>4. CASE v = db
  BY <1>1, <1>3, <1>4
<1>5. CASE v # db
  BY <1>1, <1>3, <1>5
<1>6. QED
  BY <1>4, <1>5

\* The numbers of the invariant are numbers.
LEMMA Numbers ==
    ASSUME TypeOK
    PROVE  /\ clock \in Nat /\ db \in Nat /\ acked \in Nat
           /\ cache.value \in 0..MaxWrites /\ cache.value \in Nat /\ cache.at \in Nat
           /\ answer.value \in 0..MaxWrites /\ answer.value \in Nat /\ answer.asked \in Nat
           /\ \A v \in 0..MaxWrites : endedAt[v] \in Nat
           /\ \A t \in Threads : /\ now[t] \in Nat /\ mine[t] \in Nat
                                 /\ got[t] \in 0..MaxWrites /\ got[t] \in Nat
<1>1. cache.value \in 0..MaxWrites /\ cache.at \in 0..MaxTime
  BY DEF TypeOK, CacheType
<1>2. answer.value \in 0..MaxWrites /\ answer.asked \in 0..MaxTime
  BY DEF TypeOK
<1>3. \A v \in 0..MaxWrites : endedAt[v] \in Nat
  BY DEF TypeOK
<1>4. \A t \in Threads : now[t] \in 0..MaxTime /\ mine[t] \in 0..MaxWrites
  BY DEF TypeOK
<1>5. \A t \in Threads : got[t] \in 0..MaxWrites
  BY DEF TypeOK
<1>6. clock \in 1..MaxTime /\ db \in 0..MaxWrites /\ acked \in 0..MaxWrites
  BY DEF TypeOK
<1>7. QED
  BY <1>1, <1>2, <1>3, <1>4, <1>5, <1>6

\* A commit leaves what is known of the cache and of the last answer.
LEMMA WrittenCache ==
    ASSUME IInv, Written, UNCHANGED <<clock, cache, answer, acked>>
    PROVE  CacheInv' /\ BoundedStaleness'
<1>a. /\ TypeOK /\ cache.value <= db /\ cache.at <= clock
      /\ cache.value = db \/ endedAt[cache.value] >= cache.at
  BY DEF IInv, CacheInv
<1>b. cache.value \in 0..MaxWrites /\ cache.at \in Nat /\ clock \in Nat /\ answer.asked \in Nat
  BY <1>a, Numbers
<1>1. cache.value <= db' /\ endedAt'[cache.value] >= cache.at
  BY <1>a, <1>b, StillDated
<1>2. CacheInv'
  BY <1>1 DEF IInv, CacheInv
<1>3. ASSUME ~answer.stale PROVE endedAt'[answer.value] + TTL >= answer.asked
  <2>1. CASE answer.value = db
    <3>1. endedAt'[answer.value] = clock
      <4>1. endedAt'[db] = clock
        BY <1>a, WrittenFacts
      <4>2. QED
        BY <2>1, <4>1
    <3>2. answer.asked <= clock
      BY DEF IInv, CacheInv
    <3>3. QED
      BY <1>b, <3>1, <3>2
  <2>2. CASE answer.value # db
    <3>1. answer.value \in 0..MaxWrites
      BY DEF IInv, TypeOK
    <3>2. endedAt'[answer.value] = endedAt[answer.value]
      BY <2>2, <3>1, WrittenFacts DEF IInv
    <3>3. QED
      BY <1>3, <2>2, <3>2 DEF IInv, BoundedStaleness
  <2>3. QED
    BY <2>1, <2>2
<1>4. BoundedStaleness'
  BY <1>3 DEF BoundedStaleness
<1>5. QED
  BY <1>2, <1>4

\* A commit leaves what is known of a thread that has queried the table.
LEMMA WrittenQuery ==
    ASSUME IInv, Written, NEW u \in Threads, pc[u] = "store"
    PROVE  /\ got[u] <= db' /\ cache.value <= got[u] /\ mine[u] <= got[u]
           /\ endedAt'[got[u]] >= now[u]
<1>1. TypeOK /\ got[u] \in 0..MaxWrites /\ now[u] \in Nat
  BY Numbers DEF IInv
<1>2. /\ got[u] <= db /\ cache.value <= got[u] /\ mine[u] <= got[u] /\ now[u] <= clock
      /\ got[u] = db \/ endedAt[got[u]] >= now[u]
  BY DEF IInv, ThreadInv
<1>3. got[u] <= db' /\ endedAt'[got[u]] >= now[u]
  BY <1>1, <1>2, StillDated
<1>4. QED
  BY <1>2, <1>3

\* The table moves on; what was loaded before was current until now.
LEMMA WriteElsewhereInv ==
    ASSUME IInv, WriteElsewhere
    PROVE  IInv'
<1>1. TypeOK'
  <2>1. TypeOK /\ Written
    BY DEF IInv, WriteElsewhere
  <2>2. QED
    BY <2>1, WrittenFacts DEF TypeOK, WriteElsewhere, threadVars
<1>2. LockInv'
  BY DEF IInv, LockInv, TypeOK, WriteElsewhere, Written, threadVars
<1>3. CacheInv' /\ BoundedStaleness'
  BY WrittenCache DEF WriteElsewhere
<1>a. TypeOK /\ db' = db + 1
  BY WrittenFacts DEF IInv, WriteElsewhere
<1>b. \A u \in Threads : now[u] <= clock /\ mine[u] <= db
  BY DEF IInv, ThreadInv
<1>4. \A u \in Threads : now[u] <= clock /\ mine[u] <= db'
  BY <1>a, <1>b, Numbers
<1>5. ThreadInv'
  BY <1>4, WrittenQuery DEF ThreadInv, WriteElsewhere, threadVars
<1>6. QED
  BY <1>1, <1>2, <1>3, <1>4, <1>5 DEF IInv

\* A write by a thread of the process, which will reload after it.
LEMMA PutInv ==
    ASSUME NEW t \in Threads, IInv, Put(t)
    PROVE  IInv'
<1>1. TypeOK'
  <2>1. /\ mine' \in [Threads -> 0..MaxWrites]
        /\ pc' \in [Threads -> {"idle", "called", "query", "store"}]
    BY WrittenFacts DEF IInv, TypeOK, Put, Goto
  <2>2. QED
    BY <2>1, WrittenFacts DEF IInv, TypeOK, Put
<1>2. LockInv'
  BY DEF IInv, LockInv, TypeOK, Put, Written, Goto
<1>3. CacheInv' /\ BoundedStaleness'
  BY WrittenCache DEF Put
<1>a. db \in Nat /\ db' = db + 1 /\ mine' = [mine EXCEPT ![t] = db + 1]
  BY WrittenFacts DEF IInv, TypeOK, Put
<1>4. \A u \in Threads : now[u] <= clock /\ mine'[u] <= db'
  <2>1. SUFFICES ASSUME NEW u \in Threads PROVE now[u] <= clock /\ mine'[u] <= db'
    OBVIOUS
  <2>2. now[u] <= clock /\ mine[u] <= db /\ mine[u] \in Nat
    BY DEF IInv, TypeOK, ThreadInv
  <2>3. mine'[u] = mine[u] \/ mine'[u] = db'
    BY <1>a DEF IInv, TypeOK
  <2>4. QED
    BY <1>a, <2>2, <2>3
<1>5. ThreadInv'
  <2>1. \A u \in Threads : pc'[u] = "store" => u # t /\ pc[u] = "store" /\ mine'[u] = mine[u]
    BY DEF IInv, TypeOK, Put, Goto
  <2>2. QED
    BY <1>4, <2>1, WrittenQuery DEF ThreadInv, Put
<1>6. QED
  BY <1>1, <1>2, <1>3, <1>4, <1>5 DEF IInv

\* A get only queues for the lock.
LEMMA GetInv ==
    ASSUME NEW t \in Threads, IInv, Get(t)
    PROVE  IInv'
<1>a. /\ mine' \in [Threads -> 0..MaxWrites]
      /\ pc' \in [Threads -> {"idle", "called", "query", "store"}]
  BY DEF IInv, TypeOK, Get, Goto
<1>1. TypeOK'
  BY <1>a DEF IInv, TypeOK, Get, history
<1>2. LockInv'
  BY DEF IInv, LockInv, TypeOK, Get, Goto, history
<1>3. CacheInv'
  BY DEF IInv, CacheInv, CacheType, TypeOK, ThreadInv, Get, Goto, history
<1>4. ThreadInv'
  BY DEF IInv, ThreadInv, CacheType, TypeOK, LockInv, CacheInv, Get, Goto, history
<1>5. BoundedStaleness'
  BY DEF IInv, BoundedStaleness, CacheInv, CacheType, TypeOK, ThreadInv, Get, Goto,
         history
<1>6. QED
  BY <1>1, <1>2, <1>3, <1>4, <1>5 DEF IInv

\* A fresh cache is at most TTL older than the table.
LEMMA HitInv ==
    ASSUME NEW t \in Threads, IInv, Hit(t)
    PROVE  IInv'
<1>f. answer' \in [value : 0..MaxWrites, asked : 0..MaxTime, stale : BOOLEAN]
  BY DEF IInv, TypeOK, CacheType, Hit
<1>g. pc' \in [Threads -> {"idle", "called", "query", "store"}]
  BY DEF IInv, TypeOK, Hit, Goto
<1>1. TypeOK'
  BY <1>f, <1>g DEF IInv, TypeOK, Hit
<1>2. LockInv'
  BY DEF IInv, LockInv, TypeOK, Hit, Fresh, Goto
<1>3. CacheInv'
  BY DEF IInv, CacheInv, CacheType, TypeOK, ThreadInv, Hit, Fresh, Goto
<1>4. ThreadInv'
  BY DEF IInv, ThreadInv, CacheType, TypeOK, LockInv, CacheInv, Hit, Fresh, Goto
<1>a. /\ cache.value \in Nat /\ cache.at \in Nat /\ clock \in Nat
      /\ cache.value \in 0..MaxWrites
  BY DEF IInv, TypeOK, CacheType
<1>b. endedAt[cache.value] \in Nat
  BY <1>a DEF IInv, TypeOK
<1>c. clock < cache.at + TTL
  BY DEF Hit, Fresh
<1>d. cache.value = db \/ endedAt[cache.value] >= cache.at
  BY DEF IInv, CacheInv
<1>e. cache.value = db \/ endedAt[cache.value] + TTL >= clock
  BY <1>a, <1>b, <1>c, <1>d
<1>5. BoundedStaleness'
  BY <1>e DEF BoundedStaleness, Hit
<1>6. QED
  BY <1>1, <1>2, <1>3, <1>4, <1>5 DEF IInv

\* The lock is free, so no other thread has a query under way.
LEMMA MissInv ==
    ASSUME NEW t \in Threads, IInv, Miss(t)
    PROVE  IInv'
<1>a. /\ now' \in [Threads -> 0..MaxTime]
      /\ pc' \in [Threads -> {"idle", "called", "query", "store"}]
  BY DEF IInv, TypeOK, Miss, Goto
<1>1. TypeOK'
  BY <1>a DEF IInv, TypeOK, Miss, history
<1>2. LockInv'
  BY DEF IInv, LockInv, TypeOK, Miss, Goto, history
<1>3. CacheInv'
  BY DEF IInv, CacheInv, CacheType, TypeOK, ThreadInv, Miss, Goto, history
<1>4. ThreadInv'
  BY DEF IInv, ThreadInv, CacheType, TypeOK, LockInv, CacheInv, Miss, Goto, history
<1>5. BoundedStaleness'
  BY DEF IInv, BoundedStaleness, CacheInv, CacheType, TypeOK, ThreadInv, Miss, Goto,
         history
<1>6. QED
  BY <1>1, <1>2, <1>3, <1>4, <1>5 DEF IInv

\* The query sees the table of this moment, later than the thread's check.
LEMMA QueryInv ==
    ASSUME NEW t \in Threads, IInv, Query(t)
    PROVE  IInv'
<1>1. TypeOK'
  BY DEF IInv, TypeOK, CacheType, Query, Goto, history
<1>2. LockInv'
  BY DEF IInv, LockInv, TypeOK, Query, Goto, history
<1>3. CacheInv'
  BY DEF IInv, CacheInv, CacheType, TypeOK, ThreadInv, Query, Goto, history
<1>4. ThreadInv'
  BY DEF IInv, ThreadInv, CacheType, TypeOK, LockInv, CacheInv, Query, Goto, history
<1>5. BoundedStaleness'
  BY DEF IInv, BoundedStaleness, CacheInv, CacheType, TypeOK, ThreadInv, Query, Goto,
         history
<1>6. QED
  BY <1>1, <1>2, <1>3, <1>4, <1>5 DEF IInv

\* A failed load leaves the cache as it was.
LEMMA LoadFailsInv ==
    ASSUME NEW t \in Threads, IInv, LoadFails(t)
    PROVE  IInv'
<1>a. answer' = answer \/ Answer(t, cache.value, TRUE)
  BY DEF LoadFails
<1>b. /\ answer' \in [value : 0..MaxWrites, asked : 0..MaxTime, stale : BOOLEAN]
      /\ answer'.value <= cache.value /\ answer'.asked <= clock
  <2>1. CASE answer' = answer
    BY <2>1 DEF IInv, TypeOK, CacheInv
  <2>2. CASE Answer(t, cache.value, TRUE)
    BY <2>2 DEF IInv, TypeOK, CacheType, ThreadInv, Answer
  <2>3. QED
    BY <1>a, <2>1, <2>2
<1>c. UNCHANGED <<clock, db, cache, now, got, mine, endedAt, acked>>
  BY DEF LoadFails
<1>d. pc' \in [Threads -> {"idle", "called", "query", "store"}] /\ lock' = "none"
  BY DEF IInv, TypeOK, LoadFails, Goto
<1>1. TypeOK'
  BY <1>b, <1>c, <1>d DEF IInv, TypeOK
<1>2. LockInv'
  BY DEF IInv, LockInv, TypeOK, LoadFails, Goto, Answer
<1>3. CacheInv'
  BY <1>b, <1>c DEF IInv, CacheInv
<1>4. ThreadInv'
  BY DEF IInv, ThreadInv, CacheType, TypeOK, LockInv, CacheInv, LoadFails, Goto, Answer
<1>5. BoundedStaleness'
  <2>1. answer'.stale \/ answer' = answer
    BY <1>a DEF Answer
  <2>2. QED
    BY <1>c, <2>1 DEF IInv, BoundedStaleness
<1>6. QED
  BY <1>1, <1>2, <1>3, <1>4, <1>5 DEF IInv

\* The table that is stored is no older than the cache it replaces.
LEMMA StoreInv ==
    ASSUME NEW t \in Threads, IInv, Store(t)
    PROVE  IInv'
<1>a. got[t] \in 0..MaxWrites /\ now[t] \in 0..MaxTime /\ mine[t] \in 0..MaxWrites
  BY DEF IInv, TypeOK
<1>b. /\ cache' \in CacheType
      /\ acked' = acked \/ acked' = mine[t]
      /\ answer' = answer \/ Answer(t, got[t], FALSE)
  BY <1>a DEF Store, Stored, CacheType
<1>d. answer' \in [value : 0..MaxWrites, asked : 0..MaxTime, stale : BOOLEAN]
  <2>1. CASE answer' = answer
    BY <2>1 DEF IInv, TypeOK
  <2>2. CASE Answer(t, got[t], FALSE)
    BY <1>a, <2>2 DEF Answer
  <2>3. QED
    BY <1>b, <2>1, <2>2
<1>e. acked' \in 0..MaxWrites
  BY <1>a, <1>b DEF IInv, TypeOK
<1>c. pc' \in [Threads -> {"idle", "called", "query", "store"}] /\ lock' = "none"
  BY DEF IInv, TypeOK, Store, Goto
<1>1. TypeOK'
  BY <1>b, <1>c, <1>d, <1>e DEF IInv, TypeOK, Store
<1>2. LockInv'
  BY DEF IInv, LockInv, TypeOK, Store, Goto, Answer, Stored, Getting
<1>f. /\ got[t] <= db /\ cache.value <= got[t] /\ mine[t] <= got[t]
      /\ got[t] = db \/ endedAt[got[t]] >= now[t]
      /\ now[t] <= clock /\ acked <= cache.value /\ answer.value <= cache.value
      /\ answer.asked <= clock
  BY DEF IInv, CacheInv, ThreadInv, Store
<1>g. cache'.value = got[t] /\ cache'.at = now[t] /\ UNCHANGED <<clock, db, endedAt>>
  BY DEF Store, Stored
<1>h. acked' <= got[t] /\ answer'.value <= got[t] /\ answer'.asked <= clock
  <2>1. TypeOK
    BY DEF IInv
  <2>2. acked' <= got[t]
    BY <1>b, <1>f, <2>1, Numbers
  <2>3. CASE answer' = answer
    BY <1>f, <2>1, <2>2, <2>3, Numbers
  <2>4. CASE Answer(t, got[t], FALSE)
    BY <1>f, <2>1, <2>2, <2>4, Numbers DEF Answer
  <2>5. QED
    BY <1>b, <2>3, <2>4
<1>3. CacheInv'
  BY <1>f, <1>g, <1>h DEF CacheInv
<1>4. ThreadInv'
  BY DEF IInv, ThreadInv, CacheType, TypeOK, LockInv, CacheInv, Store, Goto, Answer,
         Stored, Getting
<1>5. BoundedStaleness'
  <2>1. CASE answer' = answer
    BY <1>g, <2>1 DEF IInv, BoundedStaleness
  <2>2. CASE Answer(t, got[t], FALSE)
    <3>1. got[t] = db \/ endedAt[got[t]] + TTL >= now[t]
      BY <1>a, <1>f, Numbers DEF IInv
    <3>2. QED
      BY <1>g, <2>2, <3>1 DEF Answer, BoundedStaleness
  <2>3. QED
    BY <1>b, <2>1, <2>2
<1>6. QED
  BY <1>1, <1>2, <1>3, <1>4, <1>5 DEF IInv

\* Time passes.
LEMMA TickInv ==
    ASSUME IInv, Tick
    PROVE  IInv'
<1>b. clock' \in 1..MaxTime
  BY DEF IInv, TypeOK, Tick
<1>1. TypeOK'
  BY <1>b DEF IInv, TypeOK, Tick, threadVars, history
<1>2. LockInv'
  BY DEF IInv, LockInv, TypeOK, Tick, threadVars, history
<1>a. clock' \in Nat /\ clock <= clock' /\ TypeOK
  BY Numbers DEF IInv, Tick
<1>3. CacheInv'
  BY <1>a, Numbers DEF IInv, CacheInv, Tick, history
<1>4. ThreadInv'
  BY DEF IInv, ThreadInv, CacheType, TypeOK, LockInv, CacheInv, Tick, threadVars, history
<1>5. BoundedStaleness'
  BY DEF IInv, BoundedStaleness, CacheInv, CacheType, TypeOK, ThreadInv, Tick,
         threadVars, history
<1>6. QED
  BY <1>1, <1>2, <1>3, <1>4, <1>5 DEF IInv
-----------------------------------------------------------------------------
\* The initial states satisfy the invariant.
LEMMA InitInv == Init => IInv
<1>1. SUFFICES ASSUME Init PROVE IInv
  OBVIOUS
<1>2. TypeOK
  BY <1>1 DEF Init, TypeOK, CacheType
<1>3. LockInv /\ CacheInv /\ ThreadInv /\ BoundedStaleness
  BY <1>1 DEF Init, LockInv, CacheInv, ThreadInv, BoundedStaleness
<1>4. QED
  BY <1>2, <1>3 DEF IInv

\* A step that changes nothing keeps the invariant.
LEMMA StutterInv == IInv /\ UNCHANGED vars => IInv'
<1>1. SUFFICES ASSUME IInv, UNCHANGED vars PROVE IInv'
  OBVIOUS
<1>2. UNCHANGED <<clock, db, cache, lock, pc, now, got, mine, endedAt, answer, acked>>
  BY <1>1 DEF vars, threadVars, history
<1>3. TypeOK' /\ LockInv' /\ ThreadInv'
  BY <1>1, <1>2 DEF IInv, TypeOK, LockInv, ThreadInv
<1>4. CacheInv' /\ BoundedStaleness'
  BY <1>1, <1>2 DEF IInv, CacheInv, BoundedStaleness
<1>5. QED
  BY <1>3, <1>4 DEF IInv

\* Every step keeps the invariant.
LEMMA NextInv == IInv /\ [Next]_vars => IInv'
<1>1. SUFFICES ASSUME IInv, [Next]_vars PROVE IInv'
  OBVIOUS
<1>2. ASSUME NEW t \in Threads, Thread(t) PROVE IInv'
  BY <1>1, <1>2, GetInv, PutInv, HitInv, MissInv, QueryInv, LoadFailsInv, StoreInv
     DEF Thread, Load
<1>3. QED
  BY <1>1, <1>2, WriteElsewhereInv, TickInv, StutterInv DEF Next

\* The invariant holds in every reachable state.
THEOREM Invariance == Spec => []IInv
BY InitInv, NextInv, PTL DEF Spec

\* The table, the cache and the threads keep their types.
THEOREM TypeCorrect == Spec => []TypeOK
<1>1. IInv => TypeOK
  BY DEF IInv
<1>2. QED
  BY <1>1, Invariance, PTL

\* An answer that does not stem from a failed load was current within TTL.
THEOREM StalenessBounded == Spec => []BoundedStaleness
<1>1. IInv => BoundedStaleness
  BY DEF IInv
<1>2. QED
  BY <1>1, Invariance, PTL

\* An acknowledged write stays visible in its process.
THEOREM WritesStayVisible == Spec => []WriteVisible
<1>1. IInv => WriteVisible
  BY DEF IInv, CacheInv, WriteVisible
<1>2. QED
  BY <1>1, Invariance, PTL

\* No step answers with an older table than the answer before it.
LEMMA AnswersGrow ==
    ASSUME IInv, [Next]_vars
    PROVE  answer'.value >= answer.value
<1>1. answer.value \in Nat
  BY DEF IInv, TypeOK
<1>2. CASE UNCHANGED answer
  BY <1>1, <1>2
<1>3. ASSUME NEW t \in Threads, Hit(t) PROVE answer'.value >= answer.value
  BY <1>3 DEF IInv, TypeOK, CacheType, CacheInv, Hit
<1>4. ASSUME NEW t \in Threads, Store(t) PROVE answer'.value >= answer.value
  <2>1. cache.value <= got[t] /\ answer.value <= cache.value
    BY <1>4 DEF IInv, ThreadInv, CacheInv, Store
  <2>2. CASE Answer(t, got[t], FALSE)
    BY <2>1, <2>2 DEF IInv, TypeOK, CacheType, Answer
  <2>3. QED
    BY <1>2, <1>4, <2>2 DEF Store
<1>5. ASSUME NEW t \in Threads, LoadFails(t) PROVE answer'.value >= answer.value
  <2>1. CASE Answer(t, cache.value, TRUE)
    BY <2>1 DEF IInv, TypeOK, CacheType, CacheInv, Answer
  <2>2. QED
    BY <1>2, <1>5, <2>1 DEF LoadFails
<1>6. ASSUME NEW t \in Threads, Get(t) \/ Put(t) \/ Miss(t) \/ Query(t) PROVE UNCHANGED answer
  BY <1>6 DEF Get, Put, Miss, Query, history
<1>7. CASE WriteElsewhere \/ Tick \/ UNCHANGED vars
  BY <1>2, <1>7 DEF WriteElsewhere, Tick, vars, history
<1>8. QED
  BY <1>2, <1>3, <1>4, <1>5, <1>6, <1>7 DEF Next, Thread, Load

\* A process never goes back to an older table.
THEOREM ReadsAreMonotone == Spec => MonotoneReads
<1>1. IInv /\ [Next]_vars => answer'.value >= answer.value
  BY AnswersGrow
<1>2. QED
  BY <1>1, Invariance, PTL DEF Spec, MonotoneReads
=============================================================================
