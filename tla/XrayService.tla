---------------------------- MODULE XrayService ----------------------------
(***************************************************************************)
(* The life cycle of the supervised xray process: web/service/xray.go      *)
(* (RestartXray, StopXray, the restart flag), xray/process.go (Start, Stop,*)
(* IsRunning, the finalizer) and their callers: the request handlers that  *)
(* change the database, the 10 s cron job that serves the restart flag and *)
(* the 30 s job that watches the process.                                  *)
(*                                                                         *)
(* A goroutine is a member of Admins (HTTP requests, the check_inbound job,*)
(* the start-up call) or of Crons (ticks of the restart job, which may     *)
(* overlap: robfig/cron starts every tick in a goroutine of its own).      *)
(* A configuration is a model value; dbCfg is the one GetXrayConfig would  *)
(* build from the committed database.  ValidCfgs pass `xray run -test`.    *)
(***************************************************************************)
EXTENDS Naturals, FiniteSets

CONSTANTS
    Admins,      \* request goroutines
    Crons,       \* goroutines of the "@every 10s" restart job
    Procs,       \* pool of identities of Process objects (a bound)
    Cfgs,        \* configurations GetXrayConfig can build
    ValidCfgs,   \* those `xray run -test` accepts
    MaxStray,    \* bound: processes replaced before they were spawned
    NoThread, NoProc, NoCfg, Partial

Threads == Admins \cup Crons

ASSUME ValidAssumption == ValidCfgs \subseteq Cfgs
ASSUME NullAssumption  == /\ NoThread \notin Threads
                          /\ NoProc \notin Procs
                          /\ NoCfg \notin Cfgs \cup {Partial}
                          /\ Partial \notin Cfgs
ASSUME BoundAssumption == MaxStray \in Nat
ASSUME RoleAssumption  == Admins \cap Crons = {}

VARIABLES
    dbCfg,       \* what the committed database would build
    flag,        \* isNeedXrayRestart
    lock,        \* holder of the package mutex `lock`
    p,           \* the package variable `p`
    file,        \* contents of bin/config.json
    checkTime,   \* CheckXrayRunningJob.checkTime, capped at 1
    st, cfg, loaded, fin,            \* per Process: see TypeOK
    pc, force, newCfg, oldCfg, tgt,  \* per goroutine: locals of RestartXray
    lastOk,      \* history: the last RestartXray to return returned nil
    owed,        \* history: an inbound change no restart attempt followed yet
    silent,      \* history: a change that requests no restart, since the last build
    raced        \* history: replaced or finalised while not yet spawned

procVars   == <<st, cfg, loaded, fin, raced>>
localVars  == <<force, newCfg, oldCfg, tgt>>
threadVars == <<pc, localVars>>
vars == <<dbCfg, flag, lock, p, file, checkTime, procVars, threadVars,
          lastOk, owed, silent>>

ProcStates == {"dead", "new", "starting", "running", "killed"}
Critical   == {"build", "test", "decide", "write", "launch", "rollback"}
PcStates   == {"idle", "saved", "applying", "lockwait"} \cup Critical

TypeOK ==
    /\ dbCfg \in Cfgs
    /\ flag \in BOOLEAN
    /\ lock \in Threads \cup {NoThread}
    /\ p \in Procs \cup {NoProc}
    /\ file \in Cfgs \cup {Partial}
    /\ checkTime \in 0..1
    /\ st \in [Procs -> ProcStates]
    /\ cfg \in [Procs -> Cfgs \cup {NoCfg}]
    /\ loaded \in [Procs -> Cfgs \cup {NoCfg}]
    /\ fin \in [Procs -> BOOLEAN]
    /\ pc \in [Threads -> PcStates]
    /\ force \in [Threads -> BOOLEAN]
    /\ newCfg \in [Threads -> Cfgs \cup {NoCfg}]
    /\ oldCfg \in [Threads -> Cfgs \cup {NoCfg}]
    /\ tgt \in [Threads -> Procs \cup {NoProc}]
    /\ lastOk \in BOOLEAN
    /\ owed \in BOOLEAN
    /\ silent \in BOOLEAN
    /\ raced \in [Procs -> BOOLEAN]

-----------------------------------------------------------------------------
(* Processes.  "starting": Start has returned, or is about to, and the      *)
(* goroutine it left behind has not spawned the command yet, so cmd.Process *)
(* is nil.  "running" and "killed": spawned and not reaped; Kill does not   *)
(* wait.  "dead": never started, or reaped; the identity can be reused.     *)

IsRunning(q)    == q # NoProc /\ st[q] \in {"running", "killed"}
IsXrayRunning   == p # NoProc /\ IsRunning(p)

\* Holds its ports: it has read its configuration and has not exited.
Serving(q)      == st[q] \in {"running", "killed"} /\ loaded[q] # NoCfg

\* Nothing refers to the wrapper of q: the garbage collector may finalise it.
Unreferenced(q) == q # p /\ \A t \in Threads : tgt[t] # q

\* Spawned or about to be, not killed, and no longer the process of the panel.
Stray(q)        == st[q] \in {"starting", "running"} /\ Unreferenced(q)
Strays          == {q \in Procs : Stray(q)}

\* An identity NewProcess may take.
Fresh(q) == st[q] = "dead" /\ Unreferenced(q)

Bury(q) ==
    /\ st' = [st EXCEPT ![q] = "dead"]
    /\ cfg' = [cfg EXCEPT ![q] = NoCfg]
    /\ loaded' = [loaded EXCEPT ![q] = NoCfg]
    /\ fin' = [fin EXCEPT ![q] = FALSE]
    /\ raced' = [raced EXCEPT ![q] = FALSE]

\* The goroutine left by Start runs the command.
Spawn(q) ==
    /\ st[q] = "starting"
    /\ st' = [st EXCEPT ![q] = "running"]
    /\ UNCHANGED <<dbCfg, flag, lock, p, file, checkTime, cfg, loaded, fin, raced,
                   threadVars, lastOk, owed, silent>>

SpawnFault(q) ==
    /\ st[q] = "starting"
    /\ Bury(q)
    /\ UNCHANGED <<dbCfg, flag, lock, p, file, checkTime, threadVars, lastOk, owed, silent>>

\* The spawned xray reads bin/config.json, whatever it holds by then.
Boot(q) ==
    /\ st[q] = "running" /\ loaded[q] = NoCfg /\ file \in Cfgs
    /\ loaded' = [loaded EXCEPT ![q] = file]
    /\ UNCHANGED <<dbCfg, flag, lock, p, file, checkTime, st, cfg, fin, raced,
                   threadVars, lastOk, owed, silent>>

\* ... and exits on a half-written file, or when another xray holds its ports.
BootFails(q) ==
    /\ st[q] = "running" /\ loaded[q] = NoCfg
    /\ \/ file = Partial
       \/ \E r \in Procs \ {q} : Serving(r)
    /\ Bury(q)
    /\ UNCHANGED <<dbCfg, flag, lock, p, file, checkTime, threadVars, lastOk, owed, silent>>

Crash(q) ==
    /\ st[q] = "running"
    /\ Bury(q)
    /\ UNCHANGED <<dbCfg, flag, lock, p, file, checkTime, threadVars, lastOk, owed, silent>>

\* A killed process is reaped some time after the signal.
Reap(q) ==
    /\ st[q] = "killed"
    /\ Bury(q)
    /\ UNCHANGED <<dbCfg, flag, lock, p, file, checkTime, threadVars, lastOk, owed, silent>>

\* runtime.SetFinalizer(p, stopProcess): runs once; Stop does nothing to a
\* process that has not been spawned.
Finalize(q) ==
    /\ Stray(q) /\ ~fin[q]
    /\ fin' = [fin EXCEPT ![q] = TRUE]
    /\ st' = IF IsRunning(q) THEN [st EXCEPT ![q] = "killed"] ELSE st
    /\ UNCHANGED <<dbCfg, flag, lock, p, file, checkTime, cfg, loaded, raced,
                   threadVars, lastOk, owed, silent>>

-----------------------------------------------------------------------------
(* RestartXray, one action per step another goroutine can observe.          *)

Goto(t, l) == pc' = [pc EXCEPT ![t] = l]

Unlock(t) ==
    /\ lock' = NoThread
    /\ Goto(t, "idle")
    /\ force' = [force EXCEPT ![t] = FALSE]
    /\ newCfg' = [newCfg EXCEPT ![t] = NoCfg]
    /\ oldCfg' = [oldCfg EXCEPT ![t] = NoCfg]
    /\ tgt' = [tgt EXCEPT ![t] = NoProc]

\* Bug: the flag is cleared when the restart is done, not before it reads the database.
ReturnClearingFlag(t, r) == Unlock(t) /\ lastOk' = r /\ flag' = FALSE

\* `return`: unlocks, and the locals are gone.
Return(t, r) == Unlock(t) /\ lastOk' = r /\ UNCHANGED flag

\* Bug: the package mutex is missing.
AcquireWithoutLock(t) ==
    /\ pc[t] = "lockwait"
    /\ lock' = t
    /\ Goto(t, "build")
    /\ UNCHANGED <<dbCfg, flag, p, file, checkTime, procVars, localVars, lastOk, owed, silent>>

Acquire(t) ==
    /\ pc[t] = "lockwait" /\ lock = NoThread
    /\ lock' = t
    /\ Goto(t, "build")
    /\ UNCHANGED <<dbCfg, flag, p, file, checkTime, procVars, localVars, lastOk, owed, silent>>

\* GetXrayConfig reads the database.
Build(t) ==
    /\ pc[t] = "build"
    /\ newCfg' = [newCfg EXCEPT ![t] = dbCfg]
    /\ owed' = FALSE /\ silent' = FALSE
    /\ Goto(t, "test")
    /\ UNCHANGED <<dbCfg, flag, lock, p, file, checkTime, procVars, force, oldCfg, tgt, lastOk>>

\* A setting or the database could not be read, or the template not parsed.
BuildFault(t) ==
    /\ pc[t] = "build"
    /\ owed' = FALSE
    /\ Return(t, FALSE)
    /\ UNCHANGED <<dbCfg, p, file, checkTime, procVars, silent>>

TestPasses(t) ==
    /\ pc[t] = "test" /\ newCfg[t] \in ValidCfgs
    /\ Goto(t, "decide")
    /\ UNCHANGED <<dbCfg, flag, lock, p, file, checkTime, procVars, localVars, lastOk, owed, silent>>

TestRejects(t) ==
    /\ pc[t] = "test" /\ newCfg[t] \notin ValidCfgs
    /\ Return(t, FALSE)
    /\ UNCHANGED <<dbCfg, p, file, checkTime, procVars, owed, silent>>

\* TestConfig could not write its temporary file, or the binary is being replaced.
TestFault(t) ==
    /\ pc[t] = "test" /\ newCfg[t] \in ValidCfgs
    /\ Return(t, FALSE)
    /\ UNCHANGED <<dbCfg, p, file, checkTime, procVars, owed, silent>>

AlreadyInstalled(t) ==
    /\ pc[t] = "decide" /\ IsXrayRunning
    /\ ~force[t] /\ cfg[p] = newCfg[t]
    /\ Return(t, TRUE)
    /\ UNCHANGED <<dbCfg, p, file, checkTime, procVars, owed, silent>>

\* p = NewProcess(xrayConfig), and Start is next.  Nothing reads the configuration
\* of a process nothing refers to.
Replace(t, q) ==
    /\ Fresh(q)
    /\ p' = q
    /\ tgt' = [tgt EXCEPT ![t] = q]
    /\ cfg' = [r \in Procs |-> IF r = q THEN newCfg[t] ELSE NoCfg]
    /\ Goto(t, "write")
    /\ UNCHANGED <<dbCfg, flag, lock, file, checkTime, loaded, fin, force, newCfg, lastOk,
                   owed, silent>>

\* Bug: the old process is not stopped.
ReplaceWithoutStop(t) ==
    /\ pc[t] = "decide" /\ IsXrayRunning
    /\ force[t] \/ cfg[p] # newCfg[t]
    /\ oldCfg' = [oldCfg EXCEPT ![t] = cfg[p]]
    /\ \E q \in Procs :
         /\ Replace(t, q)
         /\ st' = [st EXCEPT ![q] = "new"]
    /\ UNCHANGED raced

\* The old process runs: remember its configuration, send it the kill signal and
\* put a new process in its place.
ReplaceRunning(t) ==
    /\ pc[t] = "decide" /\ IsXrayRunning
    /\ force[t] \/ cfg[p] # newCfg[t]
    /\ oldCfg' = [oldCfg EXCEPT ![t] = cfg[p]]
    /\ \E q \in Procs :
         /\ Replace(t, q)
         /\ st' = [st EXCEPT ![p] = "killed", ![q] = "new"]
    /\ UNCHANGED raced

\* It does not run, or is not spawned yet: nothing is killed.
ReplaceStopped(t) ==
    /\ pc[t] = "decide" /\ ~IsXrayRunning
    /\ IF p # NoProc /\ st[p] = "starting"
       THEN /\ Cardinality(Strays) < MaxStray
            /\ raced' = [raced EXCEPT ![p] = TRUE]
       ELSE UNCHANGED raced
    /\ \E q \in Procs :
         /\ Replace(t, q)
         /\ st' = [st EXCEPT ![q] = "new"]
    /\ UNCHANGED oldCfg

\* os.WriteFile truncates bin/config.json and fills it again.
WriteConfig(t) ==
    /\ pc[t] = "write"
    /\ file' = Partial
    /\ Goto(t, "launch")
    /\ UNCHANGED <<dbCfg, flag, lock, p, checkTime, procVars, localVars, lastOk, owed, silent>>

\* The process being started is the rollback process.
RollingBack(t) == tgt[t] # p

\* Start returns nil; its goroutine has yet to spawn the command.
StartOk(t) ==
    /\ pc[t] = "launch"
    /\ file' = cfg[tgt[t]]
    /\ st' = [st EXCEPT ![tgt[t]] = "starting"]
    /\ p' = tgt[t]
    /\ UNCHANGED <<dbCfg, checkTime, cfg, loaded, fin, raced, owed, silent>>

\* Bug: a successful rollback reports success.
LaunchHidingRollback(t) == StartOk(t) /\ Return(t, TRUE)

\* A successful rollback installs the old configuration and reports the first error.
Launch(t) == StartOk(t) /\ Return(t, ~RollingBack(t))

StartFails(t) ==
    /\ \/ pc[t] = "write" /\ UNCHANGED file
       \/ pc[t] = "launch" /\ file' \in {file, cfg[tgt[t]]}
    /\ Bury(tgt[t])
    /\ UNCHANGED <<dbCfg, p, checkTime, owed, silent>>

EnterRollback(t) ==
    /\ Goto(t, "rollback")
    /\ tgt' = [tgt EXCEPT ![t] = NoProc]
    /\ UNCHANGED <<flag, lock, force, newCfg, oldCfg, lastOk>>

\* Start returns an error: before it writes the file, while it does, or after.
StartFault(t) ==
    /\ StartFails(t)
    /\ IF ~RollingBack(t) /\ oldCfg[t] # NoCfg THEN EnterRollback(t) ELSE Return(t, FALSE)

Rollback(t) ==
    /\ pc[t] = "rollback"
    /\ \E q \in Procs :
         /\ Fresh(q)
         /\ tgt' = [tgt EXCEPT ![t] = q]
         /\ st' = [st EXCEPT ![q] = "new"]
         /\ cfg' = [cfg EXCEPT ![q] = oldCfg[t]]
    /\ Goto(t, "write")
    /\ UNCHANGED <<dbCfg, flag, lock, p, file, checkTime, loaded, fin, raced, force, newCfg,
                   oldCfg, lastOk, owed, silent>>

\* StopXray: under the lock, and an error when the process is not running.
StopXray ==
    /\ lock = NoThread
    /\ st' = IF IsXrayRunning THEN [st EXCEPT ![p] = "killed"] ELSE st
    /\ UNCHANGED <<dbCfg, flag, lock, p, file, checkTime, cfg, loaded, fin, raced, lastOk,
                   owed, silent>>

-----------------------------------------------------------------------------
(* The callers.                                                             *)

CallRestart(t, f) ==
    /\ Goto(t, "lockwait")
    /\ force' = [force EXCEPT ![t] = f]
    /\ UNCHANGED <<newCfg, oldCfg, tgt>>

\* The cron job: IsNeedRestartAndSetFalse, then RestartXray(false).
CronTick(t) ==
    /\ t \in Crons /\ pc[t] = "idle" /\ flag
    /\ flag' = FALSE
    /\ CallRestart(t, FALSE)
    /\ UNCHANGED <<dbCfg, lock, p, file, checkTime, procVars, lastOk, owed, silent>>

\* Bug: only one miss of a row requests a restart.
WatchdogOnce ==
    /\ checkTime' = IF IsXrayRunning THEN 0 ELSE 1
    /\ flag' = (flag \/ (~IsXrayRunning /\ checkTime = 0))
    /\ UNCHANGED <<dbCfg, lock, p, file, procVars, threadVars, lastOk, owed, silent>>

\* CheckXrayRunningJob.Run: the second miss in a row, and every one after it,
\* requests a restart.
Watchdog ==
    /\ checkTime' = IF IsXrayRunning THEN 0 ELSE 1
    /\ flag' = (flag \/ (~IsXrayRunning /\ checkTime = 1))
    /\ UNCHANGED <<dbCfg, lock, p, file, procVars, threadVars, lastOk, owed, silent>>

\* add, del or update of an inbound, or DisableInvalidInbounds, commits ...
SaveInbound(t) ==
    /\ t \in Admins /\ pc[t] = "idle"
    /\ \E c \in Cfgs \ {dbCfg} : dbCfg' = c
    /\ owed' = TRUE
    /\ Goto(t, "saved")
    /\ UNCHANGED <<flag, lock, p, file, checkTime, procVars, localVars, lastOk,
                   silent>>

\* Bug: the request ends without SetToNeedRestart.
ForgetRestart(t) ==
    /\ pc[t] = "saved"
    /\ Goto(t, "idle")
    /\ UNCHANGED <<dbCfg, flag, lock, p, file, checkTime, procVars, localVars, lastOk,
                   owed, silent>>

\* ... and then calls SetToNeedRestart.
SetToNeedRestart(t) ==
    /\ pc[t] = "saved"
    /\ flag' = TRUE
    /\ Goto(t, "idle")
    /\ UNCHANGED <<dbCfg, lock, p, file, checkTime, procVars, localVars, lastOk,
                   owed, silent>>

\* commitManagedChange in managed mode: validated in the transaction, committed ...
CommitManaged(t) ==
    /\ t \in Admins /\ pc[t] = "idle"
    /\ \E c \in ValidCfgs \ {dbCfg} : dbCfg' = c
    /\ silent' = TRUE
    /\ Goto(t, "applying")
    /\ UNCHANGED <<flag, lock, p, file, checkTime, procVars, localVars, lastOk,
                   owed>>

\* ... then ApplyManagedXrayIfEnabled validates again and restarts,
ApplyManaged(t) ==
    /\ pc[t] = "applying" /\ dbCfg \in ValidCfgs
    /\ CallRestart(t, FALSE)
    /\ UNCHANGED <<dbCfg, flag, lock, p, file, checkTime, procVars, lastOk, owed, silent>>

\* unless managed mode has been switched off meanwhile or the validation fails.
ApplyManagedSkips(t) ==
    /\ pc[t] = "applying"
    /\ Goto(t, "idle")
    /\ UNCHANGED <<dbCfg, flag, lock, p, file, checkTime, procVars, localVars, lastOk, owed, silent>>

\* UpdateAllSetting changes the template or the mode and requests no restart.
UpdateSetting ==
    /\ \E c \in Cfgs \ {dbCfg} : dbCfg' = c
    /\ silent' = TRUE
    /\ UNCHANGED <<flag, lock, p, file, checkTime, procVars, threadVars, lastOk, owed>>

\* AccessIPController.updateConfig: save, then RestartXray(true).
UpdateAccessIP(t) ==
    /\ t \in Admins /\ pc[t] = "idle"
    /\ \E c \in Cfgs \ {dbCfg} : dbCfg' = c
    /\ silent' = TRUE
    /\ CallRestart(t, TRUE)
    /\ UNCHANGED <<flag, lock, p, file, checkTime, procVars, lastOk, owed>>

\* UpdateXray: StopXray, copy the new files, and RestartXray(true) on every return.
UpdateXray(t) ==
    /\ t \in Admins /\ pc[t] = "idle"
    /\ StopXray
    /\ CallRestart(t, TRUE)

-----------------------------------------------------------------------------
\* Server.startTask calls RestartXray(true); nothing has asked for a restart yet.
Init ==
    /\ dbCfg \in Cfgs
    /\ flag = FALSE /\ lock = NoThread /\ p = NoProc
    /\ file \in Cfgs /\ checkTime = 0
    /\ st = [q \in Procs |-> "dead"]
    /\ cfg = [q \in Procs |-> NoCfg]
    /\ loaded = [q \in Procs |-> NoCfg]
    /\ fin = [q \in Procs |-> FALSE]
    /\ raced = [q \in Procs |-> FALSE]
    /\ \E t \in Admins :
         /\ pc = [u \in Threads |-> IF u = t THEN "lockwait" ELSE "idle"]
         /\ force = [u \in Threads |-> u = t]
    /\ newCfg = [t \in Threads |-> NoCfg]
    /\ oldCfg = [t \in Threads |-> NoCfg]
    /\ tgt = [t \in Threads |-> NoProc]
    /\ lastOk = FALSE /\ owed = FALSE /\ silent = FALSE

\* What the goroutine of a call does next, whoever called.
Proceed(t) ==
    \/ Build(t) \/ TestPasses(t) \/ TestRejects(t)
    \/ AlreadyInstalled(t) \/ ReplaceRunning(t) \/ ReplaceStopped(t)
    \/ WriteConfig(t) \/ Launch(t) \/ Rollback(t)
    \/ SetToNeedRestart(t) \/ ApplyManaged(t) \/ ApplyManagedSkips(t)

Request(t) ==
    \/ SaveInbound(t) \/ CommitManaged(t) \/ UpdateAccessIP(t) \/ UpdateXray(t)

Fault ==
    \/ \E t \in Threads : BuildFault(t) \/ TestFault(t) \/ StartFault(t)
    \/ \E q \in Procs : SpawnFault(q) \/ Crash(q)

Progress(q) == Spawn(q) \/ Boot(q) \/ BootFails(q) \/ Reap(q) \/ Finalize(q)

Next ==
    \/ \E t \in Threads : Acquire(t) \/ Proceed(t) \/ CronTick(t) \/ Request(t)
    \/ \E q \in Procs : Progress(q)
    \/ Watchdog
    \/ UpdateSetting
    \/ Fault

Spec == Init /\ [][Next]_vars

\* Goroutines run, sync.Mutex starves nobody, the cron jobs keep ticking, the
\* operating system spawns, boots and reaps, and the garbage collector runs.
Fairness ==
    /\ \A t \in Threads : WF_vars(Proceed(t)) /\ SF_vars(Acquire(t))
    /\ WF_vars(\E t \in Crons : CronTick(t))
    /\ WF_vars(Watchdog)
    /\ \A q \in Procs : WF_vars(Progress(q))

FairSpec == Spec /\ Fairness
-----------------------------------------------------------------------------
(* Properties.                                                              *)

\* An inbound change is never forgotten: until a restart has been attempted after
\* it, the flag is up, its request is about to raise it, or a RestartXray that has
\* not read the database yet is under way.
NoLostRestart ==
    owed => \/ flag
            \/ \E t \in Threads : pc[t] \in {"saved", "lockwait", "build"}

\* The configuration the current process works with is the one GetConfig
\* reports, although it read it from a file every restart overwrites.
FaithfulCurrent ==
    p # NoProc /\ loaded[p] # NoCfg => loaded[p] = cfg[p]

\* Whatever xray runs, current or left behind, runs a configuration that
\* passed TestConfig.
OnlyTestedRuns == \A q \in Procs : loaded[q] # NoCfg => loaded[q] \in ValidCfgs

\* The panel loses control of a live process only if it replaced it
\* before it was spawned.
StrayOnlyFromSpawnRace == \A q \in Procs : Stray(q) => raced[q]

\* When nothing is in progress and the last restart succeeded, the process the
\* panel runs has the configuration of the database, unless a
\* change was made that requests no restart.
SettledAgrees ==
    (/\ ~flag /\ \A t \in Threads : pc[t] = "idle"
     /\ lastOk /\ p # NoProc /\ st[p] \in {"starting", "running"})
    => (cfg[p] = dbCfg \/ silent)

\* RestartXray never takes a working process down for a configuration that
\* fails TestConfig.
KillOnlyForTested ==
    [][\A q \in Procs, t \in Threads :
         (lock = t /\ st[q] = "running" /\ st'[q] = "killed" /\ q = p)
            => newCfg[t] \in ValidCfgs]_vars

\* A restart request is served whatever happens: after every inbound change some
\* RestartXray reads the database.
ChangeServed == owed ~> ~owed

\* The panel heals: once the requests and the faults stop, the database holds a
\* configuration xray accepts and no stray process keeps the ports, a spawned and
\* unkilled xray serves for good, whatever state the process was left in.
Serves == p # NoProc /\ st[p] = "running" /\ Serving(p)

Quiet  == ~Fault /\ ~UpdateSetting /\ \A t \in Threads : ~Request(t)

SelfHeals ==
    (<>[][Quiet]_vars /\ <>[](dbCfg \in ValidCfgs /\ Strays = {})) => <>[]Serves
-----------------------------------------------------------------------------
(* What all this amounts to for the callers.                                *)

\* A restart is asked for, and has not read the database yet.
Due == flag \/ \E t \in Threads : pc[t] \in {"saved", "lockwait", "build"}

\* A local of the goroutine that is inside RestartXray.
OfAttempt(x) == IF lock = NoThread THEN NoCfg ELSE x[lock]

\* The configuration of the process the panel controls, as GetConfig reports it.
Installed ==
    IF p # NoProc /\ st[p] \in {"starting", "running", "killed"} THEN cfg[p] ELSE NoCfg

R == INSTANCE Reconciler WITH
       Accepted <- ValidCfgs, wanted <- dbCfg, due <- Due,
       seen <- OfAttempt(newCfg), prev <- OfAttempt(oldCfg),
       runs <- Installed, ok <- lastOk

\* RestartXray, its callers and the process together are a reconciler: attempts do not
\* overlap, each works with what the database held when it looked, what runs is taken
\* down for a tested configuration only, and at the end either runs what was seen
\* and success is reported, or what ran before, or nothing, and an error is.
Reconciles == R!Spec
-----------------------------------------------------------------------------
(* The inductive invariant behind the safety properties, by parts.          *)

\* The goroutine inside RestartXray's critical section is the one holding the mutex.
Locking == \A t \in Threads : lock = t <=> pc[t] \in Critical

Starting(t) == pc[t] \in {"write", "launch"}

\* The locals of a goroutine, by where it stands.
LocalsOK ==
    \A t \in Threads :
      /\ pc[t] \in Critical \ {"build"} => newCfg[t] \in Cfgs
      /\ pc[t] \in Critical \ {"build", "test"} => newCfg[t] \in ValidCfgs
      /\ pc[t] \notin Critical \ {"build"} => newCfg[t] = NoCfg
      /\ oldCfg[t] \in ValidCfgs \cup {NoCfg}
      /\ ~Starting(t) /\ pc[t] # "rollback" => oldCfg[t] = NoCfg
      /\ pc[t] = "rollback" => oldCfg[t] \in ValidCfgs
      /\ ~Starting(t) => tgt[t] = NoProc
      /\ Starting(t) => /\ tgt[t] \in Procs /\ st[tgt[t]] = "new"
                        /\ cfg[tgt[t]] \in ValidCfgs
                        /\ tgt[t] = p => cfg[p] = newCfg[t]
                        /\ tgt[t] # p => cfg[tgt[t]] = oldCfg[t]
      /\ Starting(t) \/ pc[t] = "rollback" => p # NoProc /\ st[p] \in {"new", "dead"}

\* What a process of each state has read, and what the current one was given.
ProcsOK ==
    /\ \A q \in Procs : /\ st[q] \notin {"running", "killed"} => loaded[q] = NoCfg
                        /\ loaded[q] # NoCfg => loaded[q] \in ValidCfgs
    /\ p # NoProc /\ st[p] \in {"starting", "running", "killed"} => cfg[p] \in ValidCfgs

\* What a process that has not read bin/config.json yet is going to find in it.
FileOK ==
    /\ (\E q \in Procs : st[q] \in {"starting", "running"}) => file \in ValidCfgs \cup {Partial}
    /\ p # NoProc /\ st[p] \in {"starting", "running"} => file = cfg[p]

\* A configuration read from the database, being installed or installed, is still the
\* database's unless a change followed.
InstalledOK ==
    /\ \A t \in Threads :
         pc[t] \in Critical \ {"build"} => (newCfg[t] = dbCfg \/ owed \/ silent)
    /\ lock = NoThread /\ lastOk /\ p # NoProc /\ st[p] \in {"starting", "running"}
       => (cfg[p] = dbCfg \/ owed \/ silent)

IInv ==
    /\ TypeOK /\ Locking /\ LocalsOK /\ ProcsOK /\ FileOK /\ InstalledOK
    /\ FaithfulCurrent /\ StrayOnlyFromSpawnRace /\ NoLostRestart
=============================================================================
