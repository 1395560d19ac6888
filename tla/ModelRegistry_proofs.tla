------------------------ MODULE ModelRegistry_proofs ------------------------
(***************************************************************************)
(* For any trainings, rollbacks and commands: the types of the registry,   *)
(* the files behind the manifest, the lock, and, for saves that do not     *)
(* overlap, that a save is atomic and keeps what it found.                 *)
(***************************************************************************)
EXTENDS ModelRegistry, TLAPS

\* Every manifest on disk or about to be saved lists versions that have files,
\* and a version that is to be registered has its file.
FilesInv ==
    /\ Usable(live) /\ Usable(tmp)
    /\ \A w \in Writers : Usable(buf[w])
    /\ \A w \in Writers : pc[w] = "load" /\ target[w] = w => w \in files

\* A training registers its own version.
TargetInv == \A j \in Trainings :
    pc[j] \in {"start", "mark", "train", "load"} => target[j] = j

LockInv == \A j \in Trainings : Training(j) => lock = j

\* The file a writer will put in place of version.json.
NextFile(w) == IF pc[w] = "replace" THEN tmp ELSE buf[w]

\* Without overlap there is one writer between load and replace; its file is
\* complete, keeps what version.json lists and lists the writer's own version.
SaverInv == ~overlap =>
    /\ \A w, x \in Writers : Saving(w) /\ Saving(x) => w = x
    /\ live.text \in {"absent", "ok"}
    /\ \A w \in Writers : Saving(w) =>
          /\ NextFile(w).text = "ok" /\ live.versions \subseteq NextFile(w).versions
          /\ w \in Trainings => w \in NextFile(w).versions
    /\ \A w \in Writers : pc[w] = "write" => fd[w] = "tmp" /\ tmp = Empty

\* Without overlap, a training that got past the rename stays listed.
ListedInv == ~overlap => \A j \in Trainings :
    pc[j] \in {"done", "reload"} \/ jobs[j] = "done" => j \in live.versions

\* A request that has written version.json and has not reloaded is on its way.
FollowInv == ~trouble /\ ~byCommand /\ ~overlap =>
    \/ loaded \in {"none", live.current}
    \/ \E r \in Requests : pc[r] \in {"done", "reload"}

IInv == /\ TypeOK /\ FilesInv /\ TargetInv /\ LockInv
        /\ SaverInv /\ ListedInv /\ FollowInv

USE WritersAssumption

-----------------------------------------------------------------------------
\* The kinds of writers are disjoint, and none of them is a version that exists.
LEMMA Kinds ==
    /\ Trainings \subseteq Requests /\ Rollbacks \subseteq Requests
    /\ Requests \subseteq Writers /\ Commands \subseteq Writers
    /\ Trainings \subseteq Writers /\ Rollbacks \subseteq Writers
    /\ Requests \cap Commands = {} /\ Writers = Requests \cup Commands
    /\ "none" \notin Writers /\ "none" \notin Versions
    /\ Trainings \subseteq Versions /\ Commands \subseteq Versions
    /\ Rollbacks \cap Versions = {}
BY DEF Requests, Writers, Versions

\* A commit of a job row keeps the types, whether it succeeds or not.
LEMMA CommitTypes ==
    ASSUME TypeOK, NEW w \in Writers,
           NEW s \in {"none", "pending", "running", "done", "failed"},
           NEW then \in Places, NEW else \in Places, CommitJob(w, s, then, else)
    PROVE  /\ jobs' \in [Requests -> {"none", "pending", "running", "done", "failed"}]
           /\ pc' \in [Writers -> Places] /\ trouble' \in BOOLEAN
<1>1. CASE jobs' = [jobs EXCEPT ![w] = s] /\ Goto(w, then) /\ UNCHANGED trouble
  BY <1>1 DEF TypeOK, Goto
<1>2. CASE trouble' = TRUE /\ Goto(w, else) /\ UNCHANGED jobs
  BY <1>2 DEF TypeOK, Goto
<1>3. QED
  BY <1>1, <1>2 DEF CommitJob

\* A new retrain request touches neither files nor the lock.
LEMMA PostRetrainInv ==
    ASSUME NEW j \in Trainings,
           IInv, PostRetrain(j)
    PROVE  IInv'
<1>1. TypeOK'
  BY Kinds DEF IInv, TypeOK, Places, FileType, PostRetrain, diskVars, history, Goto
<1>2. FilesInv'
  BY Kinds
     DEF IInv, TypeOK, FileType, FilesInv, Usable, PostRetrain, diskVars, history, Goto
<1>3. TargetInv'
  BY Kinds DEF IInv, TypeOK, TargetInv, PostRetrain, diskVars, history, Goto
<1>4. LockInv'
  BY Kinds DEF IInv, TypeOK, LockInv, Training, PostRetrain, diskVars, history, Goto
<1>5. SaverInv'
  BY Kinds
     DEF IInv, TypeOK, SaverInv, Saving, NextFile, PostRetrain, diskVars, history, Goto
<1>6. ListedInv'
  BY Kinds DEF IInv, TypeOK, ListedInv, PostRetrain, diskVars, history, Goto
<1>7. FollowInv'
  BY Kinds DEF IInv, TypeOK, FollowInv, PostRetrain, diskVars, history, Goto
<1>8. QED
  BY <1>1, <1>2, <1>3, <1>4, <1>5, <1>6, <1>7 DEF IInv

\* A rollback request only takes its place; its target is not its own version.
LEMMA PostRollbackInv ==
    ASSUME NEW r \in Rollbacks,
           NEW v \in Versions,
           IInv, PostRollback(r, v)
    PROVE  IInv'
<1>a. pc' \in [Writers -> Places] /\ trouble' \in BOOLEAN
  <2>1. r \in Writers /\ pc \in [Writers -> Places] /\ trouble \in BOOLEAN
    BY Kinds DEF IInv, TypeOK
  <2>2. CASE Goto(r, "load") /\ UNCHANGED trouble
    BY <2>1, <2>2 DEF Goto, Places
  <2>3. CASE Goto(r, "ended") /\ trouble' = TRUE
    BY <2>1, <2>3 DEF Goto, Places
  <2>4. QED
    BY <2>2, <2>3 DEF PostRollback
<1>b. /\ jobs' \in [Requests -> {"none", "pending", "running", "done", "failed"}]
      /\ target' \in [Writers -> Versions \cup {"none"}]
  BY Kinds DEF IInv, TypeOK, PostRollback
<1>1. TypeOK'
  BY <1>a, <1>b DEF IInv, TypeOK, PostRollback, diskVars
<1>2. FilesInv'
  BY Kinds DEF IInv, TypeOK, FileType, FilesInv, Usable, PostRollback, diskVars, Goto
<1>3. TargetInv'
  BY Kinds DEF IInv, TypeOK, TargetInv, PostRollback, diskVars, Goto
<1>4. LockInv'
  BY Kinds DEF IInv, TypeOK, LockInv, Training, PostRollback, diskVars, Goto
<1>5. SaverInv'
  BY Kinds DEF IInv, TypeOK, SaverInv, Saving, NextFile, PostRollback, diskVars, Goto
<1>6. ListedInv'
  BY Kinds DEF IInv, TypeOK, ListedInv, PostRollback, diskVars, Goto
<1>7. FollowInv'
  BY Kinds DEF IInv, TypeOK, FollowInv, PostRollback, diskVars, Goto
<1>8. QED
  BY <1>1, <1>2, <1>3, <1>4, <1>5, <1>6, <1>7 DEF IInv

\* A command that trains has its model file before it loads the manifest.
LEMMA StartCommandInv ==
    ASSUME NEW c \in Commands,
           NEW v \in Versions,
           IInv, StartCommand(c, v)
    PROVE  IInv'
<1>1. TypeOK'
  BY Kinds DEF IInv, TypeOK, Places, FileType, StartCommand, jobVars, history, Goto
<1>2. FilesInv'
  BY Kinds
     DEF IInv, TypeOK, FileType, FilesInv, Usable, StartCommand, jobVars, history, Goto
<1>3. TargetInv'
  BY Kinds DEF IInv, TypeOK, TargetInv, StartCommand, jobVars, history, Goto
<1>4. LockInv'
  BY Kinds DEF IInv, TypeOK, LockInv, Training, StartCommand, jobVars, history, Goto
<1>5. SaverInv'
  BY Kinds
     DEF IInv, TypeOK, SaverInv, Saving, NextFile, StartCommand, jobVars, history, Goto
<1>6. ListedInv'
  BY Kinds DEF IInv, TypeOK, ListedInv, StartCommand, jobVars, history, Goto
<1>7. FollowInv'
  BY Kinds DEF IInv, TypeOK, FollowInv, StartCommand, jobVars, history, Goto
<1>8. QED
  BY <1>1, <1>2, <1>3, <1>4, <1>5, <1>6, <1>7 DEF IInv

\* The thread enters only when no other training holds the lock.
LEMMA AcquireInv ==
    ASSUME NEW j \in Trainings,
           IInv, Acquire(j)
    PROVE  IInv'
<1>a. pc' \in [Writers -> Places]
  BY Kinds DEF IInv, TypeOK, Places, Acquire, Goto
<1>b. lock' \in Trainings \cup {"none"}
  BY DEF IInv, TypeOK, Acquire
<1>1. TypeOK'
  BY <1>a, <1>b DEF IInv, TypeOK, Acquire, diskVars, history
<1>2. FilesInv'
  BY Kinds DEF IInv, TypeOK, FileType, FilesInv, Usable, Acquire, diskVars, history, Goto
<1>3. TargetInv'
  BY Kinds DEF IInv, TypeOK, TargetInv, Acquire, diskVars, history, Goto
<1>4. LockInv'
  BY Kinds DEF IInv, TypeOK, LockInv, Training, Acquire, diskVars, history, Goto
<1>5. SaverInv'
  BY Kinds DEF IInv, TypeOK, SaverInv, Saving, NextFile, Acquire, diskVars, history, Goto
<1>6. ListedInv'
  BY Kinds DEF IInv, TypeOK, ListedInv, Acquire, diskVars, history, Goto
<1>c. \A x \in Requests : pc[x] \in {"done", "reload"} => pc'[x] = pc[x]
  BY Kinds DEF IInv, TypeOK, Acquire, Goto
<1>7. FollowInv'
  BY <1>c DEF IInv, FollowInv, Acquire, diskVars, history
<1>8. QED
  BY <1>1, <1>2, <1>3, <1>4, <1>5, <1>6, <1>7 DEF IInv

\* A refused thread never was past the lock.
LEMMA RefuseInv ==
    ASSUME NEW j \in Trainings,
           IInv, Refuse(j)
    PROVE  IInv'
<1>a. /\ jobs' \in [Requests -> {"none", "pending", "running", "done", "failed"}]
      /\ pc' \in [Writers -> Places] /\ trouble' \in BOOLEAN
  <2>1. TypeOK /\ j \in Writers /\ CommitJob(j, "failed", "ended", "ended")
    BY Kinds DEF IInv, Refuse
  <2>2. "ended" \in Places
    BY DEF Places
  <2>3. QED
    BY <2>1, <2>2, CommitTypes
<1>1. TypeOK'
  BY <1>a DEF IInv, TypeOK, Refuse, diskVars
<1>2. FilesInv'
  BY Kinds DEF IInv, TypeOK, FileType, FilesInv, Usable, Refuse, Goto, diskVars, CommitJob
<1>3. TargetInv'
  BY Kinds DEF IInv, TypeOK, TargetInv, Refuse, Goto, diskVars, CommitJob
<1>4. LockInv'
  BY Kinds DEF IInv, TypeOK, LockInv, Training, Refuse, Goto, diskVars, CommitJob
<1>5. SaverInv'
  BY Kinds DEF IInv, TypeOK, SaverInv, Saving, NextFile, Refuse, Goto, diskVars, CommitJob
<1>6. ListedInv'
  BY Kinds DEF IInv, TypeOK, ListedInv, Refuse, Goto, diskVars, CommitJob
<1>7. FollowInv'
  BY Kinds DEF IInv, TypeOK, FollowInv, Refuse, Goto, diskVars, CommitJob
<1>8. QED
  BY <1>1, <1>2, <1>3, <1>4, <1>5, <1>6, <1>7 DEF IInv

\* The commit that marks a job running changes no file.
LEMMA MarkRunningInv ==
    ASSUME NEW j \in Trainings,
           IInv, MarkRunning(j)
    PROVE  IInv'
<1>a. /\ jobs' \in [Requests -> {"none", "pending", "running", "done", "failed"}]
      /\ pc' \in [Writers -> Places] /\ trouble' \in BOOLEAN
  BY Kinds, CommitTypes DEF IInv, TypeOK, MarkRunning, Places
<1>1. TypeOK'
  BY <1>a DEF IInv, TypeOK, MarkRunning, diskVars
<1>2. FilesInv'
  BY Kinds
     DEF IInv, TypeOK, FileType, FilesInv, Usable, MarkRunning, Goto, diskVars,
         CommitJob
<1>3. TargetInv'
  BY Kinds DEF IInv, TypeOK, TargetInv, MarkRunning, Goto, diskVars, CommitJob
<1>4. LockInv'
  BY Kinds DEF IInv, TypeOK, LockInv, Training, MarkRunning, Goto, diskVars, CommitJob
<1>5. SaverInv'
  BY Kinds
     DEF IInv, TypeOK, SaverInv, Saving, NextFile, MarkRunning, Goto, diskVars,
         CommitJob
<1>6. ListedInv'
  BY Kinds DEF IInv, TypeOK, ListedInv, MarkRunning, Goto, diskVars, CommitJob
<1>7. FollowInv'
  BY Kinds DEF IInv, TypeOK, FollowInv, MarkRunning, Goto, diskVars, CommitJob
<1>8. QED
  BY <1>1, <1>2, <1>3, <1>4, <1>5, <1>6, <1>7 DEF IInv

\* A training reaches the load only with its model file saved.
LEMMA TrainInv ==
    ASSUME NEW j \in Trainings,
           IInv, Train(j)
    PROVE  IInv'
<1>1. TypeOK'
  <2>1. pc' \in [Writers -> Places]
    BY Kinds DEF IInv, TypeOK, Places, Train, Goto
  <2>2. files' \subseteq Versions
    BY Kinds DEF IInv, TypeOK, Train
  <2>3. QED
    BY <2>1, <2>2, Kinds DEF IInv, TypeOK, Train, jobVars, history
<1>2. FilesInv'
  BY Kinds DEF IInv, TypeOK, FileType, FilesInv, Usable, Train, jobVars, history, Goto
<1>3. TargetInv'
  BY Kinds DEF IInv, TypeOK, TargetInv, Train, jobVars, history, Goto
<1>4. LockInv'
  BY Kinds DEF IInv, TypeOK, LockInv, Training, Train, jobVars, history, Goto
<1>5. SaverInv'
  BY Kinds DEF IInv, TypeOK, SaverInv, Saving, NextFile, Train, jobVars, history, Goto
<1>6. ListedInv'
  BY Kinds DEF IInv, TypeOK, ListedInv, Train, jobVars, history, Goto
<1>7. FollowInv'
  BY Kinds DEF IInv, TypeOK, FollowInv, Train, jobVars, history, Goto
<1>8. QED
  BY <1>1, <1>2, <1>3, <1>4, <1>5, <1>6, <1>7 DEF IInv

\* A training whose fetch is never answered keeps the lock and changes nothing else.
LEMMA FetchHangsInv ==
    ASSUME NEW j \in Trainings,
           IInv, FetchHangs(j)
    PROVE  IInv'
<1>1. TypeOK'
  BY Kinds DEF IInv, TypeOK, Places, FileType, FetchHangs, diskVars, jobVars, history, Goto
<1>2. FilesInv'
  BY Kinds DEF IInv, TypeOK, FileType, FilesInv, Usable, FetchHangs, diskVars, jobVars, history, Goto
<1>3. TargetInv'
  BY Kinds DEF IInv, TypeOK, TargetInv, FetchHangs, diskVars, jobVars, history, Goto
<1>4. LockInv'
  BY Kinds DEF IInv, TypeOK, LockInv, Training, FetchHangs, diskVars, jobVars, history, Goto
<1>5. SaverInv'
  BY Kinds DEF IInv, TypeOK, SaverInv, Saving, NextFile, FetchHangs, diskVars, jobVars, history, Goto
<1>6. ListedInv'
  BY Kinds DEF IInv, TypeOK, ListedInv, FetchHangs, diskVars, jobVars, history, Goto
<1>7. FollowInv'
  BY Kinds DEF IInv, TypeOK, FollowInv, FetchHangs, diskVars, jobVars, history, Goto
<1>8. QED
  BY <1>1, <1>2, <1>3, <1>4, <1>5, <1>6, <1>7 DEF IInv

\* The lock is given back by its holder, who is then past it no more.
LEMMA ReleaseInv ==
    ASSUME NEW j \in Trainings,
           IInv, Release(j)
    PROVE  IInv'
<1>1. TypeOK'
  BY Kinds DEF IInv, TypeOK, Places, FileType, Release, diskVars, history, Goto
<1>2. FilesInv'
  BY Kinds DEF IInv, TypeOK, FileType, FilesInv, Usable, Release, diskVars, history, Goto
<1>3. TargetInv'
  BY Kinds DEF IInv, TypeOK, TargetInv, Release, diskVars, history, Goto
<1>4. LockInv'
  BY Kinds DEF IInv, TypeOK, LockInv, Training, Release, diskVars, history, Goto
<1>5. SaverInv'
  BY Kinds DEF IInv, TypeOK, SaverInv, Saving, NextFile, Release, diskVars, history, Goto
<1>6. ListedInv'
  BY Kinds DEF IInv, TypeOK, ListedInv, Release, diskVars, history, Goto
<1>7. FollowInv'
  BY Kinds DEF IInv, TypeOK, FollowInv, Release, diskVars, history, Goto
<1>8. QED
  BY <1>1, <1>2, <1>3, <1>4, <1>5, <1>6, <1>7 DEF IInv

\* A load is where overlap begins: without it, no other writer is saving, and
\* the new manifest extends the one on disk.
LEMMA LoadInv ==
    ASSUME NEW w \in Writers,
           IInv, Load(w)
    PROVE  IInv'
<1>a. pc' \in [Writers -> Places] /\ target' \in [Writers -> Versions \cup {"none"}]
  BY Kinds DEF IInv, TypeOK, Places, Load, Goto
<1>b. buf' \in [Writers -> FileType]
  <2>1. CASE UNCHANGED buf
    BY <2>1 DEF IInv, TypeOK
  <2>2. CASE /\ target[w] = w \/ target[w] \in live.versions \cap files
             /\ buf' = [buf EXCEPT ![w] = Registered(target[w], w)]
    <3>1. target[w] \in Versions /\ live.versions \subseteq Versions
      BY <2>2, Kinds DEF IInv, TypeOK, FileType
    <3>2. Registered(target[w], w) \in FileType
      BY <3>1 DEF Registered, File, FileType
    <3>3. QED
      BY <2>2, <3>2 DEF IInv, TypeOK
  <2>3. QED
    BY <2>1, <2>2 DEF Load
<1>c. overlap' \in BOOLEAN
  BY DEF IInv, TypeOK, Load
<1>1. TypeOK'
  BY <1>a, <1>b, <1>c DEF IInv, TypeOK, Load, diskVars, jobVars
<1>2. FilesInv'
  BY Kinds
     DEF IInv, TypeOK, FileType, FilesInv, Usable, Load, Registered, File, diskVars,
         jobVars, Goto
<1>3. TargetInv'
  BY Kinds DEF IInv, TypeOK, TargetInv, Load, Registered, File, diskVars, jobVars, Goto
<1>4. LockInv'
  BY Kinds
     DEF IInv, TypeOK, LockInv, Training, Load, Registered, File, diskVars, jobVars,
         Goto
<1>5. SaverInv'
  <2>1. SUFFICES ASSUME ~overlap' PROVE SaverInv'
    BY DEF SaverInv
  <2>2. ~overlap
    BY <2>1 DEF Load
  <2>3. CASE Goto(w, "fail") /\ UNCHANGED <<buf, overlap>>
    BY <2>2, <2>3, Kinds DEF IInv, TypeOK, SaverInv, Saving, NextFile, Load, Goto, diskVars
  <2>4. CASE /\ target[w] = w \/ target[w] \in live.versions \cap files
             /\ buf' = [buf EXCEPT ![w] = Registered(target[w], w)]
             /\ Goto(w, "open")
             /\ overlap' = (overlap \/ \E x \in Writers : Saving(x))
    <3>1. \A x \in Writers : Saving(x)' <=> x = w
      BY <2>1, <2>4 DEF IInv, TypeOK, Saving, Goto
    <3>2. pc'[w] = "open" /\ buf'[w] = Registered(target[w], w) /\ live' = live
      BY <2>4 DEF IInv, TypeOK, Goto, Load, diskVars
    <3>3. w \in Trainings => target[w] = w
      BY DEF IInv, TargetInv, Load
    <3>4. /\ NextFile(w)'.text = "ok" /\ live'.versions \subseteq NextFile(w)'.versions
          /\ w \in Trainings => w \in NextFile(w)'.versions
      BY <3>2, <3>3 DEF NextFile, Registered, File
    <3>5. \A x \in Writers : pc'[x] # "write"
      BY <3>1, <3>2 DEF Saving
    <3>6. live'.text \in {"absent", "ok"}
      BY <2>2, <3>2 DEF IInv, SaverInv
    <3>7. QED
      BY <3>1, <3>4, <3>5, <3>6 DEF SaverInv
  <2>5. QED
    BY <2>3, <2>4 DEF Load
<1>6. ListedInv'
  BY Kinds DEF IInv, TypeOK, ListedInv, Load, Registered, File, diskVars, jobVars, Goto
<1>7. FollowInv'
  BY Kinds DEF IInv, TypeOK, FollowInv, Load, Registered, File, diskVars, jobVars, Goto
<1>8. QED
  BY <1>1, <1>2, <1>3, <1>4, <1>5, <1>6, <1>7 DEF IInv

\* Opening empties the temporary file; what is live is untouched.
LEMMA OpenInv ==
    ASSUME NEW w \in Writers,
           IInv, Open(w)
    PROVE  IInv'
<1>1. TypeOK'
  BY Kinds DEF IInv, TypeOK, Places, FileType, Open, Empty, File, jobVars, history, Goto
<1>2. FilesInv'
  BY Kinds
     DEF IInv, TypeOK, FileType, FilesInv, Usable, Open, Empty, File, jobVars, history,
         Goto
<1>3. TargetInv'
  BY Kinds DEF IInv, TypeOK, TargetInv, Open, Empty, File, jobVars, history, Goto
<1>4. LockInv'
  BY Kinds DEF IInv, TypeOK, LockInv, Training, Open, Empty, File, jobVars, history, Goto
<1>5. SaverInv'
  BY Kinds
     DEF IInv, TypeOK, SaverInv, Saving, NextFile, Open, Empty, File, jobVars, history,
         Goto
<1>6. ListedInv'
  BY Kinds DEF IInv, TypeOK, ListedInv, Open, Empty, File, jobVars, history, Goto
<1>7. FollowInv'
  BY Kinds DEF IInv, TypeOK, FollowInv, Open, Empty, File, jobVars, history, Goto
<1>8. QED
  BY <1>1, <1>2, <1>3, <1>4, <1>5, <1>6, <1>7 DEF IInv

\* Without overlap the writer's own file is the temporary one, and it was empty.
LEMMA WriteInv ==
    ASSUME NEW w \in Writers,
           IInv, Write(w)
    PROVE  IInv'
<1>1. TypeOK'
  BY Kinds
     DEF IInv, TypeOK, Places, FileType, Write, Over, Empty, Garbled, File, Absent,
         jobVars, history, Goto
<1>2. FilesInv'
  BY Kinds
     DEF IInv, TypeOK, FileType, FilesInv, Usable, Write, Over, Empty, Garbled, File,
         Absent, jobVars, history, Goto
<1>3. TargetInv'
  BY Kinds
     DEF IInv, TypeOK, TargetInv, Write, Over, Empty, Garbled, File, Absent, jobVars,
         history, Goto
<1>4. LockInv'
  BY Kinds
     DEF IInv, TypeOK, LockInv, Training, Write, Over, Empty, Garbled, File, Absent,
         jobVars, history, Goto
<1>5. SaverInv'
  BY Kinds
     DEF IInv, TypeOK, SaverInv, Saving, NextFile, Write, Over, Empty, Garbled, File,
         Absent, jobVars, history, Goto
<1>c. ~overlap => live' = live
  BY DEF IInv, SaverInv, Write
<1>6. ListedInv'
  BY <1>c, Kinds DEF IInv, TypeOK, ListedInv, Write, Goto, jobVars, history
<1>7. FollowInv'
  BY <1>c, Kinds DEF IInv, TypeOK, FollowInv, Write, Goto, history
<1>8. QED
  BY <1>1, <1>2, <1>3, <1>4, <1>5, <1>6, <1>7 DEF IInv

\* The rename makes the saved manifest live; without overlap it is the writer's.
LEMMA ReplaceInv ==
    ASSUME NEW w \in Writers,
           IInv, Replace(w)
    PROVE  IInv'
<1>a. pc' \in [Writers -> Places]
  BY Kinds DEF IInv, TypeOK, Places, Replace, Goto
<1>b. fd' \in [Writers -> {"closed", "tmp", "live", "gone"}]
  BY DEF IInv, TypeOK, Replace, Moved
<1>c. live' \in FileType /\ tmp' \in FileType /\ byCommand' \in BOOLEAN
  <2>1. Absent \in FileType
    BY DEF Absent, File, FileType
  <2>2. QED
    BY <2>1 DEF IInv, TypeOK, Replace
<1>1. TypeOK'
  BY <1>a, <1>b, <1>c DEF IInv, TypeOK, Replace, jobVars
<1>2. FilesInv'
  BY Kinds
     DEF IInv, TypeOK, FileType, FilesInv, Usable, Replace, Moved, Absent, File,
         jobVars, Goto
<1>3. TargetInv'
  BY Kinds DEF IInv, TypeOK, TargetInv, Replace, Moved, Absent, File, jobVars, Goto
<1>4. LockInv'
  BY Kinds
     DEF IInv, TypeOK, LockInv, Training, Replace, Moved, Absent, File, jobVars, Goto
<1>5. SaverInv'
  BY Kinds
     DEF IInv, TypeOK, SaverInv, Saving, NextFile, Replace, Moved, Absent, File,
         jobVars, Goto
<1>d. ~overlap => live.versions \subseteq live'.versions
  BY DEF IInv, SaverInv, Saving, NextFile, Replace
<1>e. ~overlap /\ w \in Trainings /\ pc'[w] = "done" => w \in live'.versions
  BY DEF IInv, TypeOK, SaverInv, Saving, NextFile, Replace, Goto
<1>6. ListedInv'
  BY <1>d, <1>e, Kinds DEF IInv, TypeOK, ListedInv, Replace, Goto, jobVars
<1>7. FollowInv'
  BY Kinds DEF IInv, TypeOK, FollowInv, Replace, Moved, Absent, File, jobVars, Goto
<1>8. QED
  BY <1>1, <1>2, <1>3, <1>4, <1>5, <1>6, <1>7 DEF IInv

\* A training recorded as done has passed its rename.
LEMMA DoneInv ==
    ASSUME NEW w \in Writers,
           IInv, Done(w)
    PROVE  IInv'
<1>a. /\ jobs' \in [Requests -> {"none", "pending", "running", "done", "failed"}]
      /\ pc' \in [Writers -> Places] /\ trouble' \in BOOLEAN
  BY Kinds, CommitTypes DEF IInv, TypeOK, Done, After, Places
<1>1. TypeOK'
  BY <1>a DEF IInv, TypeOK, Done, diskVars
<1>2. FilesInv'
  BY Kinds
     DEF IInv, TypeOK, FileType, FilesInv, Usable, Done, Goto, After, diskVars,
         CommitJob
<1>3. TargetInv'
  BY Kinds DEF IInv, TypeOK, TargetInv, Done, Goto, After, diskVars, CommitJob
<1>4. LockInv'
  BY Kinds DEF IInv, TypeOK, LockInv, Training, Done, Goto, After, diskVars, CommitJob
<1>5. SaverInv'
  BY Kinds
     DEF IInv, TypeOK, SaverInv, Saving, NextFile, Done, Goto, After, diskVars,
         CommitJob
<1>6. ListedInv'
  BY Kinds DEF IInv, TypeOK, ListedInv, Done, Goto, After, diskVars, CommitJob
<1>7. FollowInv'
  BY Kinds DEF IInv, TypeOK, FollowInv, Done, Goto, After, diskVars, CommitJob
<1>8. QED
  BY <1>1, <1>2, <1>3, <1>4, <1>5, <1>6, <1>7 DEF IInv

\* A failure is recorded, or printed, and changes no file.
LEMMA FailInv ==
    ASSUME NEW w \in Writers,
           IInv, Fail(w)
    PROVE  IInv'
<1>a. UNCHANGED <<live, tmp, files, target, buf, fd, lock, loaded, overlap, byCommand>>
  BY DEF Fail, diskVars
<1>b. /\ jobs' \in [Requests -> {"none", "pending", "running", "done", "failed"}]
      /\ pc' \in [Writers -> Places] /\ trouble' \in BOOLEAN
  <2>1. CASE w \in Requests /\ CommitJob(w, "failed", After(w), After(w))
    BY <2>1, Kinds, CommitTypes DEF IInv, TypeOK, After, Places
  <2>2. CASE w \in Commands /\ Goto(w, "ended") /\ UNCHANGED <<jobs, trouble>>
    BY <2>2, Kinds DEF IInv, TypeOK, Places, Goto
  <2>3. QED
    BY <2>1, <2>2 DEF Fail
<1>1. TypeOK'
  BY <1>a, <1>b DEF IInv, TypeOK
<1>2. FilesInv'
  BY Kinds
     DEF IInv, TypeOK, FileType, FilesInv, Usable, Fail, Goto, After, diskVars,
         CommitJob
<1>3. TargetInv'
  BY Kinds DEF IInv, TypeOK, TargetInv, Fail, Goto, After, diskVars, CommitJob
<1>4. LockInv'
  BY Kinds DEF IInv, TypeOK, LockInv, Training, Fail, Goto, After, diskVars, CommitJob
<1>5. SaverInv'
  BY Kinds
     DEF IInv, TypeOK, SaverInv, Saving, NextFile, Fail, Goto, After, diskVars,
         CommitJob
<1>6. ListedInv'
  BY Kinds DEF IInv, TypeOK, ListedInv, Fail, Goto, After, diskVars, CommitJob
<1>7. FollowInv'
  BY Kinds DEF IInv, TypeOK, FollowInv, Fail, Goto, After, diskVars, CommitJob
<1>8. QED
  BY <1>1, <1>2, <1>3, <1>4, <1>5, <1>6, <1>7 DEF IInv

\* After a reload the web process has the current model or none.
LEMMA ReloadInv ==
    ASSUME NEW w \in Writers,
           IInv, Reload(w)
    PROVE  IInv'
<1>1. TypeOK'
  BY Kinds
     DEF IInv, TypeOK, Places, FileType, Reload, CurrentModel, After, diskVars, jobVars,
         history, Goto
<1>2. FilesInv'
  BY Kinds
     DEF IInv, TypeOK, FileType, FilesInv, Usable, Reload, CurrentModel, After,
         diskVars, jobVars, history, Goto
<1>3. TargetInv'
  BY Kinds
     DEF IInv, TypeOK, TargetInv, Reload, CurrentModel, After, diskVars, jobVars,
         history, Goto
<1>4. LockInv'
  BY Kinds
     DEF IInv, TypeOK, LockInv, Training, Reload, CurrentModel, After, diskVars,
         jobVars, history, Goto
<1>5. SaverInv'
  BY Kinds
     DEF IInv, TypeOK, SaverInv, Saving, NextFile, Reload, CurrentModel, After,
         diskVars, jobVars, history, Goto
<1>6. ListedInv'
  BY Kinds
     DEF IInv, TypeOK, ListedInv, Reload, CurrentModel, After, diskVars, jobVars,
         history, Goto
<1>7. FollowInv'
  BY Kinds
     DEF IInv, TypeOK, FollowInv, Reload, CurrentModel, After, diskVars, jobVars,
         history, Goto
<1>8. QED
  BY <1>1, <1>2, <1>3, <1>4, <1>5, <1>6, <1>7 DEF IInv

\* A first prediction loads the current model.
LEMMA PredictInv ==
    ASSUME IInv, Predict
    PROVE  IInv'
<1>1. TypeOK'
  BY Kinds
     DEF IInv, TypeOK, Places, FileType, Predict, CurrentModel, diskVars, jobVars,
         history
<1>2. FilesInv'
  BY Kinds
     DEF IInv, TypeOK, FileType, FilesInv, Usable, Predict, CurrentModel, diskVars,
         jobVars, history
<1>3. TargetInv'
  BY Kinds DEF IInv, TypeOK, TargetInv, Predict, CurrentModel, diskVars, jobVars, history
<1>4. LockInv'
  BY Kinds
     DEF IInv, TypeOK, LockInv, Training, Predict, CurrentModel, diskVars, jobVars,
         history
<1>5. SaverInv'
  BY Kinds
     DEF IInv, TypeOK, SaverInv, Saving, NextFile, Predict, CurrentModel, diskVars,
         jobVars, history
<1>6. ListedInv'
  BY Kinds DEF IInv, TypeOK, ListedInv, Predict, CurrentModel, diskVars, jobVars, history
<1>7. FollowInv'
  BY Kinds DEF IInv, TypeOK, FollowInv, Predict, CurrentModel, diskVars, jobVars, history
<1>8. QED
  BY <1>1, <1>2, <1>3, <1>4, <1>5, <1>6, <1>7 DEF IInv

\* A crash ends all requests at once and frees the lock with the process.
LEMMA WebCrashInv ==
    ASSUME IInv, WebCrash
    PROVE  IInv'
<1>1. TypeOK'
  BY Kinds
     DEF IInv, TypeOK, Places, FileType, WebCrash, Active, Absent, File, diskVars,
         Killed
<1>2. FilesInv'
  BY Kinds
     DEF IInv, TypeOK, FileType, FilesInv, Usable, WebCrash, Active, Absent, File,
         diskVars, Killed
<1>3. TargetInv'
  BY Kinds DEF IInv, TypeOK, TargetInv, WebCrash, Active, Absent, File, diskVars, Killed
<1>4. LockInv'
  BY Kinds
     DEF IInv, TypeOK, LockInv, Training, WebCrash, Active, Absent, File, diskVars,
         Killed
<1>5. SaverInv'
  BY Kinds
     DEF IInv, TypeOK, SaverInv, Saving, NextFile, WebCrash, Active, Absent, File,
         diskVars, Killed
<1>6. ListedInv'
  BY Kinds DEF IInv, TypeOK, ListedInv, WebCrash, Active, Absent, File, diskVars, Killed
<1>7. FollowInv'
  BY Kinds DEF IInv, TypeOK, FollowInv, WebCrash, Active, Absent, File, diskVars, Killed
<1>8. QED
  BY <1>1, <1>2, <1>3, <1>4, <1>5, <1>6, <1>7 DEF IInv

\* A killed command leaves its temporary file behind, and nothing else.
LEMMA CommandKilledInv ==
    ASSUME NEW c \in Commands,
           IInv, CommandKilled(c)
    PROVE  IInv'
<1>1. TypeOK'
  BY Kinds
     DEF IInv, TypeOK, Places, FileType, CommandKilled, Active, Absent, File, diskVars,
         jobVars, history, Killed
<1>2. FilesInv'
  BY Kinds
     DEF IInv, TypeOK, FileType, FilesInv, Usable, CommandKilled, Active, Absent, File,
         diskVars, jobVars, history, Killed
<1>3. TargetInv'
  BY Kinds
     DEF IInv, TypeOK, TargetInv, CommandKilled, Active, Absent, File, diskVars,
         jobVars, history, Killed
<1>4. LockInv'
  BY Kinds
     DEF IInv, TypeOK, LockInv, Training, CommandKilled, Active, Absent, File, diskVars,
         jobVars, history, Killed
<1>5. SaverInv'
  BY Kinds
     DEF IInv, TypeOK, SaverInv, Saving, NextFile, CommandKilled, Active, Absent, File,
         diskVars, jobVars, history, Killed
<1>6. ListedInv'
  BY Kinds
     DEF IInv, TypeOK, ListedInv, CommandKilled, Active, Absent, File, diskVars,
         jobVars, history, Killed
<1>7. FollowInv'
  BY Kinds
     DEF IInv, TypeOK, FollowInv, CommandKilled, Active, Absent, File, diskVars,
         jobVars, history, Killed
<1>8. QED
  BY <1>1, <1>2, <1>3, <1>4, <1>5, <1>6, <1>7 DEF IInv
-----------------------------------------------------------------------------
\* The initial states satisfy the invariant.
LEMMA InitInv == Init => IInv
<1>1. SUFFICES ASSUME Init PROVE IInv
  OBVIOUS
<1>2. /\ live \in FileType /\ tmp \in FileType /\ Absent \in FileType
      /\ live.text \in {"absent", "ok"} /\ Usable(live) /\ Usable(Absent)
  BY <1>1 DEF Init, Absent, File, FileType, Versions, Usable
<1>3. TypeOK
  BY <1>1, <1>2 DEF Init, TypeOK, Places, Versions
<1>a. FilesInv
  BY <1>1, <1>2 DEF Init, FilesInv, Usable, Absent, File
<1>4. TargetInv /\ LockInv
  BY <1>1, Kinds DEF Init, TargetInv, LockInv, Training
<1>5. SaverInv /\ ListedInv /\ FollowInv
  BY <1>1, <1>2, Kinds DEF Init, SaverInv, Saving, ListedInv, FollowInv
<1>6. QED
  BY <1>3, <1>a, <1>4, <1>5 DEF IInv

\* A step that changes nothing keeps the invariant.
LEMMA StutterInv == IInv /\ UNCHANGED vars => IInv'
<1>1. SUFFICES ASSUME IInv, UNCHANGED vars PROVE IInv'
  OBVIOUS
<1>2. UNCHANGED <<live, tmp, files, pc, target, buf, fd, jobs, lock, loaded, overlap,
                  byCommand, trouble>>
  BY <1>1 DEF vars, diskVars, jobVars, history
<1>3. TypeOK' /\ FilesInv' /\ TargetInv' /\ LockInv'
  BY <1>1, <1>2 DEF IInv, TypeOK, FilesInv, Usable, TargetInv, LockInv, Training
<1>4. SaverInv' /\ ListedInv' /\ FollowInv'
  BY <1>1, <1>2 DEF IInv, SaverInv, Saving, NextFile, ListedInv, FollowInv
<1>5. QED
  BY <1>3, <1>4 DEF IInv

\* Every save of a writer keeps the invariant.
LEMMA SaveInv ==
    ASSUME NEW w \in Writers, IInv, Save(w)
    PROVE  IInv'
BY LoadInv, OpenInv, WriteInv, ReplaceInv, DoneInv, FailInv, ReloadInv DEF Save

\* Every step keeps the invariant.
LEMMA NextInv == IInv /\ [Next]_vars => IInv'
<1>1. SUFFICES ASSUME IInv, [Next]_vars PROVE IInv'
  OBVIOUS
<1>2. CASE UNCHANGED vars
  BY <1>1, <1>2, StutterInv
<1>3. CASE Post
  BY <1>1, <1>3, PostRetrainInv, PostRollbackInv, StartCommandInv DEF Post
<1>4. CASE Environment
  BY <1>1, <1>4, PredictInv, WebCrashInv, CommandKilledInv, FetchHangsInv
     DEF Environment
<1>5. ASSUME NEW j \in Trainings, Thread(j) PROVE IInv'
  BY <1>1, <1>5, Kinds, AcquireInv, RefuseInv, MarkRunningInv, TrainInv, ReleaseInv, SaveInv
     DEF Thread
<1>6. ASSUME NEW w \in Rollbacks \cup Commands, Save(w) PROVE IInv'
  BY <1>1, <1>6, Kinds, SaveInv
<1>7. QED
  BY <1>1, <1>2, <1>3, <1>4, <1>5, <1>6 DEF Next

\* The invariant holds in every reachable state.
THEOREM Invariance == Spec => []IInv
BY InitInv, NextInv, PTL DEF Spec

\* The files, the writers and the rows keep their types.
THEOREM TypeCorrect == Spec => []TypeOK
<1>1. IInv => TypeOK
  BY DEF IInv
<1>2. QED
  BY <1>1, Invariance, PTL

\* However writers overlap and are killed, the manifest that can be read names
\* versions that have their model file.
THEOREM CurrentHasFile == Spec => []CurrentUsable
<1>1. IInv => CurrentUsable
  BY DEF IInv, FilesInv, CurrentUsable
<1>2. QED
  BY <1>1, Invariance, PTL

\* At most one training is past the lock.
THEOREM TrainingsExclude == Spec => []OneTraining
<1>1. IInv => OneTraining
  BY DEF IInv, LockInv, OneTraining
<1>2. QED
  BY <1>1, Invariance, PTL

\* Without overlap, a training recorded as done is listed.
THEOREM DoneStaysListed == Spec => []DoneIsListed
<1>1. IInv => DoneIsListed
  BY DEF IInv, ListedInv, DoneIsListed
<1>2. QED
  BY <1>1, Invariance, PTL

\* Once the requests have ended, the web process follows the manifest.
THEOREM WebFollowsManifest == Spec => []WebFollows
<1>1. IInv => WebFollows
  BY DEF IInv, FollowInv, WebFollows, Active
<1>2. QED
  BY <1>1, Invariance, PTL

\* A step that leaves saves without overlap takes no version from the manifest.
LEMMA KeepsVersions ==
    ASSUME IInv, [Next]_vars, ~overlap'
    PROVE  live.versions \subseteq live'.versions
<1>1. CASE UNCHANGED live
  BY <1>1
<1>2. ASSUME NEW w \in Writers, Write(w) PROVE UNCHANGED live
  BY <1>2 DEF IInv, SaverInv, Write, history
<1>3. ASSUME NEW w \in Writers, Replace(w) PROVE live.versions \subseteq live'.versions
  BY <1>3 DEF IInv, SaverInv, Saving, NextFile, Replace
<1>4. ASSUME NEW w \in Writers, Save(w) PROVE live.versions \subseteq live'.versions
  <2>1. CASE Load(w) \/ Open(w) \/ Done(w) \/ Fail(w) \/ Reload(w)
    BY <2>1 DEF Load, Open, Done, Fail, Reload, diskVars
  <2>2. QED
    BY <1>2, <1>3, <1>4, <2>1 DEF Save
<1>5. CASE Post \/ Environment \/ UNCHANGED vars
  BY <1>5 DEF Post, Environment, PostRetrain, PostRollback, StartCommand, Predict,
              WebCrash, CommandKilled, FetchHangs, diskVars, vars
<1>6. ASSUME NEW j \in Trainings, Thread(j) PROVE live.versions \subseteq live'.versions
  <2>1. CASE Save(j)
    BY <1>4, <2>1, Kinds
  <2>2. QED
    BY <1>6, <2>1 DEF Thread, Acquire, Refuse, MarkRunning, Train, Release, diskVars
<1>7. QED
  BY <1>4, <1>5, <1>6, Kinds DEF Next

\* Saves that do not overlap are atomic, wherever their writers are killed.
THEOREM SavesAreAtomic == Spec => AtomicSave
<1>1. ASSUME IInv, [Next]_vars
      PROVE  ~overlap' => /\ live'.text \in {"absent", "ok"}
                          /\ live.versions \subseteq live'.versions
  <2>1. IInv'
    BY <1>1, NextInv
  <2>2. QED
    BY <1>1, <2>1, KeepsVersions DEF IInv, SaverInv
<1>2. QED
  BY <1>1, Invariance, PTL DEF Spec, AtomicSave
=============================================================================
