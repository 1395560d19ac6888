--------------------------- MODULE ModelRegistry ---------------------------
(***************************************************************************)
(* The model versions and who writes them: the training threads and the    *)
(* rollback requests of the web process (web/api/ml_admin.py), and the     *)
(* command lines of bot/ml/trainer.py and bot/ml/versioning.py.  All of    *)
(* them load version.json, change it in memory and save it through one     *)
(* temporary file (bot/ml/versioning.py).                                  *)
(*                                                                         *)
(* A manifest keeps its current version and the set of its versions.  A    *)
(* training or a command that trains names its version after itself.       *)
(***************************************************************************)
EXTENDS FiniteSets, Naturals

CONSTANTS Trainings,   \* retrain requests of the web interface
          Rollbacks,   \* rollback requests of the web interface
          Commands,    \* commands: python -m bot.ml.trainer, bot.ml.versioning
          MaxWriters   \* bound: how many of them act

ASSUME WritersAssumption ==
    /\ Trainings \cap Rollbacks = {} /\ Trainings \cap Commands = {}
    /\ Rollbacks \cap Commands = {}
    /\ {"none", "v0"} \cap (Trainings \cup Rollbacks \cup Commands) = {}
ASSUME BoundAssumption == MaxWriters \in Nat

Requests == Trainings \cup Rollbacks
Writers  == Requests \cup Commands
Versions == Trainings \cup Commands \cup {"v0"}

VARIABLES
    live,      \* version.json
    tmp,       \* version.tmp
    files,     \* versions whose model file exists
    pc,        \* where each writer is
    target,    \* the version it makes current
    buf,       \* the manifest it is about to save
    fd,        \* where the file it has open is: under "tmp", under "live", "gone"
    jobs,      \* status of the ml_jobs row of each request
    lock,      \* holder of _train_lock
    loaded,    \* the model the web process predicts with
    \* history
    overlap,   \* two writers have been between load and replace
    byCommand, \* a command has written version.json
    trouble    \* a crash of the web process, or a failed write of a job row

diskVars == <<live, tmp, files>>
jobVars  == <<jobs, lock>>
history  == <<overlap, byCommand, trouble>>
vars == <<diskVars, pc, target, buf, fd, jobVars, loaded, history>>

\* Contents of a manifest file; one that does not parse reads as no versions.
File(text, current, versions) == [text |-> text, current |-> current, versions |-> versions]
Absent == File("absent", "none", {})
Empty  == File("empty", "none", {})
Garbled == File("garbled", "none", {})

Init ==
    /\ live \in {Absent, File("ok", "v0", {"v0"})} /\ tmp = Absent /\ files = {"v0"}
    /\ pc = [w \in Writers |-> "off"] /\ target = [w \in Writers |-> "none"]
    /\ buf = [w \in Writers |-> Absent] /\ fd = [w \in Writers |-> "closed"]
    /\ jobs = [r \in Requests |-> "none"] /\ lock = "none"
    /\ loaded = "none"
    /\ overlap = FALSE /\ byCommand = FALSE /\ trouble = FALSE

\* get_model_path.
CurrentModel == IF live.current \in live.versions \cap files THEN live.current ELSE "none"

Goto(w, to) == pc' = [pc EXCEPT ![w] = to]

\* Between the load of the manifest and the rename of the new one.
Saving(w) == pc[w] \in {"open", "write", "replace"}

\* A commit of w's job row, which may fail; the writer continues accordingly.
CommitJob(w, status, then, else) ==
    \/ jobs' = [jobs EXCEPT ![w] = status] /\ Goto(w, then) /\ UNCHANGED trouble
    \/ trouble' = TRUE /\ Goto(w, else) /\ UNCHANGED jobs

-----------------------------------------------------------------------------
(* Requests.  The handlers run on the event loop, one at a time. *)

\* The bound on the writers.
Room == Cardinality({w \in Writers : pc[w] # "off"}) < MaxWriters

LoopFree == \A r \in Rollbacks : pc[r] \in {"off", "ended"}

\* POST /retrain: the row is created and a thread started.
PostRetrain(j) ==
    /\ Room /\ LoopFree /\ pc[j] = "off" /\ lock = "none"
    /\ jobs' = [jobs EXCEPT ![j] = "pending"] /\ Goto(j, "start")
    /\ target' = [target EXCEPT ![j] = j]
    /\ UNCHANGED <<diskVars, buf, fd, lock, loaded, history>>

\* POST /rollback: the row is created and marked running.
PostRollback(r, v) ==
    /\ Room /\ LoopFree /\ pc[r] = "off"
    /\ \/ /\ jobs' = [jobs EXCEPT ![r] = "running"] /\ Goto(r, "load")
          /\ UNCHANGED trouble
       \/ /\ jobs' = [jobs EXCEPT ![r] = "pending"] /\ Goto(r, "ended")
          /\ trouble' = TRUE
    /\ target' = [target EXCEPT ![r] = v]
    /\ UNCHANGED <<diskVars, buf, fd, lock, loaded, overlap, byCommand>>

\* The trainer's command has saved its model, or the rollback command starts.
StartCommand(c, v) ==
    /\ Room /\ pc[c] = "off" /\ Goto(c, "load")
    /\ target' = [target EXCEPT ![c] = v]
    /\ files' = IF v = c THEN files \cup {c} ELSE files
    /\ UNCHANGED <<live, tmp, buf, fd, jobVars, loaded, history>>

-----------------------------------------------------------------------------
(* The training thread. *)

\* Mutant: the thread relies on the check of the request.
Acquire_unchecked(j) ==
    /\ pc[j] = "start"
    /\ lock' = j /\ Goto(j, "mark")
    /\ UNCHANGED <<diskVars, target, buf, fd, jobs, loaded, history>>

Acquire(j) ==
    /\ pc[j] = "start"
    /\ \/ lock = "none" /\ lock' = j /\ Goto(j, "mark")
       \/ lock # "none" /\ Goto(j, "busy") /\ UNCHANGED lock
    /\ UNCHANGED <<diskVars, target, buf, fd, jobs, loaded, history>>

\* "Another retrain is already running."
Refuse(j) ==
    /\ pc[j] = "busy" /\ CommitJob(j, "failed", "ended", "ended")
    /\ UNCHANGED <<diskVars, target, buf, fd, lock, loaded, overlap, byCommand>>

MarkRunning(j) ==
    /\ pc[j] = "mark" /\ CommitJob(j, "running", "train", "release")
    /\ UNCHANGED <<diskVars, target, buf, fd, lock, loaded, overlap, byCommand>>

\* Mutant: the version is registered before its model file is written.
Train_registerFirst(j) ==
    /\ pc[j] = "train"
    /\ \/ Goto(j, "fail") \/ Goto(j, "load")
    /\ UNCHANGED <<diskVars, target, buf, fd, jobVars, loaded, history>>

\* The bars are fetched, the model trained and its file saved, or one fails.
Train(j) ==
    /\ pc[j] = "train"
    /\ \/ Goto(j, "fail") /\ UNCHANGED files
       \/ Goto(j, "load") /\ files' = files \cup {j}
    /\ UNCHANGED <<live, tmp, target, buf, fd, jobVars, loaded, history>>

\* qualifyContracts (broker.py:190) waits without a limit for the gateway's answer.
FetchHangs(j) ==
    /\ pc[j] = "train" /\ Goto(j, "hung")
    /\ UNCHANGED <<diskVars, target, buf, fd, jobVars, loaded, history>>

\* Mutant: the lock is given back only after a success.
Release_onlyDone(j) ==
    /\ pc[j] = "release" /\ Goto(j, "ended")
    /\ lock' = IF jobs[j] = "done" THEN "none" ELSE lock
    /\ UNCHANGED <<diskVars, target, buf, fd, jobs, loaded, history>>

Release(j) ==
    /\ pc[j] = "release" /\ Goto(j, "ended")
    /\ lock' = "none"
    /\ UNCHANGED <<diskVars, target, buf, fd, jobs, loaded, history>>

-----------------------------------------------------------------------------
(* register_version and rollback: load, change, save. *)

\* Mutant: the new version is made current and not appended.
Registered_notListed(v, w) == File("ok", v, live.versions)

\* The manifest with v current; the trainer lists it first.
Registered(v, w) ==
    File("ok", v, IF v = w THEN live.versions \cup {v} ELSE live.versions)

\* A rollback to an unknown version, or one without its file, is refused.
Load(w) ==
    /\ pc[w] = "load"
    /\ \/ /\ target[w] = w \/ target[w] \in live.versions \cap files
          /\ buf' = [buf EXCEPT ![w] = Registered(target[w], w)]
          /\ Goto(w, "open")
          /\ overlap' = (overlap \/ \E x \in Writers : Saving(x))
       \/ /\ target[w] # w /\ target[w] \notin live.versions \cap files
          /\ Goto(w, "fail") /\ UNCHANGED <<buf, overlap>>
    /\ target' = [target EXCEPT ![w] = "none"]
    /\ UNCHANGED <<diskVars, fd, jobVars, loaded, byCommand, trouble>>

\* Mutant: the manifest is written in place.
Open_inPlace(w) ==
    /\ pc[w] = "open" /\ Goto(w, "write")
    /\ live' = Empty /\ fd' = [fd EXCEPT ![w] = "live"]
    /\ UNCHANGED <<tmp, files, target, buf, jobVars, loaded, history>>

\* open(tmp, "w") creates the file or empties the one that is there.
Open(w) ==
    /\ pc[w] = "open" /\ Goto(w, "write")
    /\ tmp' = Empty /\ fd' = [fd EXCEPT ![w] = "tmp"]
    /\ UNCHANGED <<live, files, target, buf, jobVars, loaded, history>>

\* Writing from the start of a file: a longer text keeps its tail.
Over(old, text) == IF old = Empty THEN {text} ELSE {text, Garbled}

\* The buffer is flushed when the file is closed, to the file that was opened.
Write(w) ==
    /\ pc[w] = "write" /\ Goto(w, "replace")
    /\ \/ fd[w] = "tmp" /\ tmp' \in Over(tmp, buf[w]) /\ UNCHANGED live
       \/ fd[w] = "live" /\ live' \in Over(live, buf[w]) /\ UNCHANGED tmp
       \/ fd[w] = "gone" /\ UNCHANGED <<live, tmp>>
    /\ fd' = [fd EXCEPT ![w] = "closed"] /\ buf' = [buf EXCEPT ![w] = Absent]
    /\ UNCHANGED <<files, target, jobVars, loaded, history>>

\* The file a writer has open stays the same file when names change.
Moved(where) == IF where = "tmp" THEN "live" ELSE IF where = "live" THEN "gone" ELSE where

\* tmp.replace(version.json) fails when another writer has moved it.
Replace(w) ==
    /\ pc[w] = "replace"
    /\ \/ /\ tmp = Absent /\ Goto(w, "fail")
          /\ UNCHANGED <<live, tmp, fd, byCommand>>
       \/ /\ tmp # Absent
          /\ live' = tmp /\ tmp' = Absent
          /\ fd' = [x \in Writers |-> Moved(fd[x])]
          /\ byCommand' = (byCommand \/ w \in Commands)
          /\ Goto(w, IF w \in Requests THEN "done" ELSE "ended")
    /\ UNCHANGED <<files, target, buf, jobVars, loaded, overlap, trouble>>

-----------------------------------------------------------------------------
(* The end of a request. *)

After(w) == IF w \in Trainings THEN "release" ELSE "ended"

Done(w) ==
    /\ pc[w] = "done" /\ CommitJob(w, "done", "reload", After(w))
    /\ UNCHANGED <<diskVars, target, buf, fd, lock, loaded, overlap, byCommand>>

\* A command has no row: it prints the error.
Fail(w) ==
    /\ pc[w] = "fail"
    /\ \/ w \in Requests /\ CommitJob(w, "failed", After(w), After(w))
       \/ w \in Commands /\ Goto(w, "ended") /\ UNCHANGED <<jobs, trouble>>
    /\ UNCHANGED <<diskVars, target, buf, fd, lock, loaded, overlap, byCommand>>

\* Mutant: the model is loaded only where none is.
Reload_lazy(w) ==
    /\ pc[w] = "reload" /\ Goto(w, After(w))
    /\ loaded' = IF loaded = "none" THEN CurrentModel ELSE loaded
    /\ UNCHANGED <<diskVars, target, buf, fd, jobVars, history>>

\* reload_model, in the web process; the bot keeps the model it has.  When the
\* file cannot be loaded there is no model until the next prediction.
Reload(w) ==
    /\ pc[w] = "reload" /\ Goto(w, After(w))
    /\ loaded' \in {CurrentModel, "none"}
    /\ UNCHANGED <<diskVars, target, buf, fd, jobVars, history>>

-----------------------------------------------------------------------------
(* Prediction, crashes and the specification. *)

\* The first prediction, in a backtest, loads the model (_get_booster).
Predict ==
    /\ loaded = "none" /\ loaded' = CurrentModel
    /\ UNCHANGED <<diskVars, pc, target, buf, fd, jobVars, history>>

Active(w) == pc[w] \notin {"off", "ended"}
Killed(who) ==
    /\ pc' = [w \in Writers |-> IF w \in who /\ Active(w) THEN "ended" ELSE pc[w]]
    /\ target' = [w \in Writers |-> IF w \in who THEN "none" ELSE target[w]]
    /\ buf' = [w \in Writers |-> IF w \in who THEN Absent ELSE buf[w]]
    /\ fd' = [w \in Writers |-> IF w \in who THEN "closed" ELSE fd[w]]

\* The web process dies, and its daemon threads with it; systemd restarts it.
WebCrash ==
    /\ Killed(Requests)
    /\ lock' = "none" /\ loaded' = "none" /\ trouble' = TRUE
    /\ UNCHANGED <<diskVars, jobs, overlap, byCommand>>

CommandKilled(c) ==
    /\ Active(c) /\ Killed({c})
    /\ UNCHANGED <<diskVars, jobVars, loaded, history>>

Save(w) == Load(w) \/ Open(w) \/ Write(w) \/ Replace(w) \/ Done(w) \/ Fail(w) \/ Reload(w)
Thread(j) == Acquire(j) \/ Refuse(j) \/ MarkRunning(j) \/ Train(j) \/ Release(j) \/ Save(j)

Post ==
    \/ \E j \in Trainings : PostRetrain(j)
    \/ \E r \in Rollbacks, v \in Versions : PostRollback(r, v)
    \/ \E c \in Commands, v \in Versions : StartCommand(c, v)
Environment ==
    \/ Predict \/ WebCrash \/ \E c \in Commands : CommandKilled(c)
    \/ \E j \in Trainings : FetchHangs(j)
Next ==
    \/ Post \/ Environment
    \/ \E j \in Trainings : Thread(j)
    \/ \E w \in Rollbacks \cup Commands : Save(w)

Spec == Init /\ [][Next]_vars
FairSpec ==
    /\ Spec
    /\ \A j \in Trainings : WF_vars(Thread(j))
    /\ \A r \in Rollbacks : WF_vars(Save(r))

-----------------------------------------------------------------------------
(* Properties. *)

Places == {"off", "start", "busy", "mark", "train", "load", "open", "write",
           "replace", "done", "fail", "reload", "release", "hung", "ended"}
FileType == [text : {"absent", "empty", "garbled", "ok"},
             current : Versions \cup {"none"}, versions : SUBSET Versions]

\* Type invariant of the files, the writers and the rows.
TypeOK ==
    /\ live \in FileType /\ tmp \in FileType /\ files \subseteq Versions
    /\ pc \in [Writers -> Places] /\ target \in [Writers -> Versions \cup {"none"}]
    /\ buf \in [Writers -> FileType] /\ fd \in [Writers -> {"closed", "tmp", "live", "gone"}]
    /\ jobs \in [Requests -> {"none", "pending", "running", "done", "failed"}]
    /\ lock \in Trainings \cup {"none"}
    /\ loaded \in Versions \cup {"none"}
    /\ overlap \in BOOLEAN /\ byCommand \in BOOLEAN /\ trouble \in BOOLEAN

\* However the writers overlap and wherever they are killed, a manifest that
\* can be read names a current version it lists, and every version it lists has
\* its model file (trainer.py:187-192, versioning.py:118-127).
Usable(m) == /\ m.versions \subseteq files
             /\ m.current = "none" \/ m.current \in m.versions
CurrentUsable == Usable(live)

\* At most one training thread is past the lock, although two requests can pass
\* the check before either thread takes it (ml_admin.py:184, 301).
Training(j) == pc[j] \notin {"off", "start", "busy", "ended"}
OneTraining == \A i, j \in Trainings : Training(i) /\ Training(j) => i = j

\* As long as no two writers have overlapped, no kill at any step of a save
\* leaves version.json unreadable or without a version it had
\* (versioning.py:171-172).
AtomicSave == [][~overlap' => /\ live'.text \in {"absent", "ok"}
                              /\ live.versions \subseteq live'.versions]_vars

\* Without overlap, a training recorded as done is listed in version.json.
DoneIsListed == ~overlap => \A j \in Trainings : jobs[j] = "done" => j \in live.versions

\* When all requests have ended without trouble and no command has written,
\* the web process predicts with the current version or loads it next.
WebFollows == ((\A r \in Requests : ~Active(r)) /\ ~trouble /\ ~byCommand /\ ~overlap)
                  => loaded \in {"none", live.current}

\* A request that was accepted ends as done or failed, unless the web process
\* crashes or the table cannot be written, and also then the training lock is
\* given back (ml_admin.py:162-265); only a fetch the gateway never answers holds
\* the job and the lock for good.
Hung == \E j \in Trainings : pc[j] = "hung"
TrainingsEnd ==
    /\ \A r \in Requests : jobs[r] \in {"pending", "running"} ~>
          (jobs[r] \in {"done", "failed"} \/ trouble \/ pc[r] = "hung")
    /\ lock # "none" ~> lock = "none" \/ Hung
=============================================================================
