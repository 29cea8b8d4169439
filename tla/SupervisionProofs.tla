-------------------------- MODULE SupervisionProofs --------------------------
(***************************************************************************)
(* Proofs about XrayService and about PanelLifecycle, which extends it,    *)
(* for any sets of goroutines, of process identities and of                *)
(* configurations.  One lemma per action shows that it keeps IInv; where   *)
(* one obligation would be too large there is one step per conjunct.  The  *)
(* properties follow from IInv, and so does the refinement: the initial    *)
(* states map, under R, to an initial state of Reconciler, and every step  *)
(* from a state of IInv to a step of the reconciler or to none.            *)
(*                                                                         *)
(* The last part is about the panel that stops, starts and ends around the *)
(* supervision: the main goroutine adds four steps that XrayService does   *)
(* not have, and a lemma shows for each that it keeps IInv.                *)
(***************************************************************************)
EXTENDS PanelLifecycle, TLAPS

USE ValidAssumption, NullAssumption, RoleAssumption

\* The initial states satisfy the inductive invariant.
LEMMA InitIInv == Init => IInv
<1> SUFFICES ASSUME Init PROVE IInv
  OBVIOUS
<1>1. TypeOK
  <2>1. PICK t \in Admins : /\ pc = [u \in Threads |-> IF u = t THEN "lockwait" ELSE "idle"]
                           /\ force = [u \in Threads |-> u = t]
    BY DEF Init
  <2>2. pc \in [Threads -> PcStates]
    BY <2>1 DEF PcStates
  <2>3. force \in [Threads -> BOOLEAN]
    BY <2>1, Zenon
  <2>4. fin \in [Procs -> BOOLEAN] /\ raced \in [Procs -> BOOLEAN]
    BY DEF Init
  <2>5. st \in [Procs -> ProcStates]
    BY DEF Init, ProcStates
  <2>6. /\ cfg \in [Procs -> Cfgs \cup {NoCfg}] /\ loaded \in [Procs -> Cfgs \cup {NoCfg}]
        /\ newCfg \in [Threads -> Cfgs \cup {NoCfg}]
        /\ oldCfg \in [Threads -> Cfgs \cup {NoCfg}]
        /\ tgt \in [Threads -> Procs \cup {NoProc}]
    BY DEF Init
  <2>7. /\ dbCfg \in Cfgs /\ flag = FALSE /\ lock = NoThread /\ p = NoProc /\ file \in Cfgs
        /\ checkTime = 0 /\ lastOk = FALSE /\ owed = FALSE /\ silent = FALSE
    BY Zenon DEF Init
  <2>8. flag \in BOOLEAN /\ lastOk \in BOOLEAN /\ owed \in BOOLEAN /\ silent \in BOOLEAN
    BY <2>7, Zenon
  <2>9. checkTime \in 0..1
    BY <2>7, SMT
  <2> QED
    BY <2>2, <2>3, <2>4, <2>5, <2>6, <2>7, <2>8, <2>9, Zenon DEF TypeOK
<1>2. Locking
  BY DEF Init, Locking, Critical, Threads
<1>3. LocalsOK
  BY DEF Init, LocalsOK, Starting, Critical
<1>4. ProcsOK /\ FileOK /\ InstalledOK /\ FaithfulCurrent /\ NoLostRestart
  BY DEF Init, ProcsOK, FileOK, InstalledOK, FaithfulCurrent, NoLostRestart, Critical
<1>5. StrayOnlyFromSpawnRace
  BY DEF Init, StrayOnlyFromSpawnRace, Stray
<1> QED
  BY <1>1, <1>2, <1>3, <1>4, <1>5 DEF IInv

\* The goroutine of Start spawns the command.
LEMMA SpawnInv == ASSUME IInv, NEW q \in Procs, Spawn(q) PROVE IInv'
BY DEF IInv, TypeOK, Locking, LocalsOK, ProcsOK, FileOK, InstalledOK, FaithfulCurrent,
       StrayOnlyFromSpawnRace, NoLostRestart, ProcStates, PcStates, Critical, Starting,
       Stray, Unreferenced, Spawn, threadVars, localVars

\* The command cannot be spawned.
LEMMA SpawnFaultInv == ASSUME IInv, NEW q \in Procs, SpawnFault(q) PROVE IInv'
BY DEF IInv, TypeOK, Locking, LocalsOK, ProcsOK, FileOK, InstalledOK, FaithfulCurrent,
       StrayOnlyFromSpawnRace, NoLostRestart, ProcStates, PcStates, Critical, Starting,
       Stray, Unreferenced, SpawnFault, Bury, threadVars, localVars

\* xray reads its file: FileOK says what it finds there.
LEMMA BootInv == ASSUME IInv, NEW q \in Procs, Boot(q) PROVE IInv'
<1>1. TypeOK'
  BY DEF IInv, TypeOK, ProcStates, PcStates, Critical, Boot, threadVars, localVars
<1>2. Locking'
  BY DEF IInv, Locking, Critical, Boot, threadVars, localVars
<1>3. LocalsOK'
  BY DEF IInv, LocalsOK, Starting, Critical, Boot, threadVars, localVars
<1>4. ProcsOK'
  BY DEF IInv, ProcsOK, Boot, threadVars, localVars, TypeOK, FileOK
<1>5. FileOK'
  BY DEF IInv, FileOK, Boot, threadVars, localVars
<1>6. InstalledOK'
  BY DEF IInv, InstalledOK, Critical, Boot, threadVars, localVars
<1>7. FaithfulCurrent'
  BY DEF IInv, FaithfulCurrent, Boot, threadVars, localVars, TypeOK, FileOK
<1>8. StrayOnlyFromSpawnRace'
  BY DEF IInv, StrayOnlyFromSpawnRace, Stray, Unreferenced, Boot, threadVars, localVars
<1>9. NoLostRestart'
  BY DEF IInv, NoLostRestart, Boot, threadVars, localVars
<1> QED
  BY <1>1, <1>2, <1>3, <1>4, <1>5, <1>6, <1>7, <1>8, <1>9 DEF IInv

\* xray exits while it boots.
LEMMA BootFailsInv == ASSUME IInv, NEW q \in Procs, BootFails(q) PROVE IInv'
BY DEF IInv, TypeOK, Locking, LocalsOK, ProcsOK, FileOK, InstalledOK, FaithfulCurrent,
       StrayOnlyFromSpawnRace, NoLostRestart, ProcStates, PcStates, Critical, Starting,
       Stray, Unreferenced, BootFails, Serving, Bury, threadVars, localVars

\* xray dies.
LEMMA CrashInv == ASSUME IInv, NEW q \in Procs, Crash(q) PROVE IInv'
BY DEF IInv, TypeOK, Locking, LocalsOK, ProcsOK, FileOK, InstalledOK, FaithfulCurrent,
       StrayOnlyFromSpawnRace, NoLostRestart, ProcStates, PcStates, Critical, Starting,
       Stray, Unreferenced, Crash, Bury, threadVars, localVars

\* A killed xray is reaped.
LEMMA ReapInv == ASSUME IInv, NEW q \in Procs, Reap(q) PROVE IInv'
BY DEF IInv, TypeOK, Locking, LocalsOK, ProcsOK, FileOK, InstalledOK, FaithfulCurrent,
       StrayOnlyFromSpawnRace, NoLostRestart, ProcStates, PcStates, Critical, Starting,
       Stray, Unreferenced, Reap, Bury, threadVars, localVars

\* The garbage collector finalises a wrapper; it is not the current one.
LEMMA FinalizeInv == ASSUME IInv, NEW q \in Procs, Finalize(q) PROVE IInv'
BY DEF IInv, TypeOK, Locking, LocalsOK, ProcsOK, FileOK, InstalledOK, FaithfulCurrent,
       StrayOnlyFromSpawnRace, NoLostRestart, ProcStates, PcStates, Critical, Starting,
       Stray, Unreferenced, Finalize, IsRunning, threadVars, localVars

\* A goroutine enters the critical section: it was free, so no other is inside.
LEMMA AcquireInv == ASSUME IInv, NEW t \in Threads, Acquire(t) PROVE IInv'
BY DEF IInv, TypeOK, Locking, LocalsOK, ProcsOK, FileOK, InstalledOK, FaithfulCurrent,
       StrayOnlyFromSpawnRace, NoLostRestart, ProcStates, PcStates, Critical, Starting,
       Stray, Unreferenced, Acquire, Goto, procVars, localVars

\* What was owed is read: from here on newCfg is what the database holds.
LEMMA BuildInv == ASSUME IInv, NEW t \in Threads, Build(t) PROVE IInv'
<1>1. TypeOK'
  BY DEF IInv, TypeOK, ProcStates, PcStates, Critical, Build, Goto, procVars
<1>2. Locking'
  BY DEF IInv, Locking, Critical, Build, Goto, procVars
<1>3. LocalsOK'
  BY DEF IInv, LocalsOK, Starting, Critical, Build, Goto, procVars, TypeOK
<1>4. ProcsOK'
  BY DEF IInv, ProcsOK, Build, Goto, procVars
<1>5. FileOK'
  BY DEF IInv, FileOK, Build, Goto, procVars
<1>6. InstalledOK'
  BY DEF IInv, InstalledOK, Critical, Build, Goto, procVars, TypeOK, Locking
<1>7. FaithfulCurrent'
  BY DEF IInv, FaithfulCurrent, Build, Goto, procVars
<1>8. StrayOnlyFromSpawnRace'
  BY DEF IInv, StrayOnlyFromSpawnRace, Stray, Unreferenced, Build, Goto, procVars
<1>9. NoLostRestart'
  BY DEF IInv, NoLostRestart, Build, Goto, procVars
<1> QED
  BY <1>1, <1>2, <1>3, <1>4, <1>5, <1>6, <1>7, <1>8, <1>9 DEF IInv

\* RestartXray returns before it has read the database.
LEMMA BuildFaultInv == ASSUME IInv, NEW t \in Threads, BuildFault(t) PROVE IInv'
<1>1. TypeOK'
  BY DEF IInv, TypeOK, ProcStates, PcStates, Critical, BuildFault, Return, Unlock, Goto,
         procVars
<1>2. Locking'
  BY DEF IInv, Locking, Critical, BuildFault, Return, Unlock, Goto, procVars, TypeOK
<1>3. LocalsOK'
  BY DEF IInv, LocalsOK, Starting, Critical, BuildFault, Return, Unlock, Goto, procVars
<1>4. ProcsOK'
  BY DEF IInv, ProcsOK, BuildFault, Return, Unlock, Goto, procVars
<1>5. FileOK'
  BY DEF IInv, FileOK, BuildFault, Return, Unlock, Goto, procVars
<1>6. InstalledOK'
  BY DEF IInv, InstalledOK, Critical, BuildFault, Return, Unlock, Goto, procVars,
         TypeOK, Locking
<1>7. FaithfulCurrent'
  BY DEF IInv, FaithfulCurrent, BuildFault, Return, Unlock, Goto, procVars
<1>8. StrayOnlyFromSpawnRace'
  BY DEF IInv, StrayOnlyFromSpawnRace, Stray, Unreferenced, BuildFault, Return, Unlock,
         Goto, procVars, LocalsOK, Starting
<1>9. NoLostRestart'
  BY DEF IInv, NoLostRestart, BuildFault, Return, Unlock, Goto, procVars
<1> QED
  BY <1>1, <1>2, <1>3, <1>4, <1>5, <1>6, <1>7, <1>8, <1>9 DEF IInv

\* TestConfig accepts: from here on newCfg[t] is valid.
LEMMA TestPassesInv == ASSUME IInv, NEW t \in Threads, TestPasses(t) PROVE IInv'
BY DEF IInv, TypeOK, Locking, LocalsOK, ProcsOK, FileOK, InstalledOK, FaithfulCurrent,
       StrayOnlyFromSpawnRace, NoLostRestart, ProcStates, PcStates, Critical, Starting,
       Stray, Unreferenced, TestPasses, Goto, procVars, localVars

\* TestConfig rejects, and RestartXray returns.
LEMMA TestRejectsInv == ASSUME IInv, NEW t \in Threads, TestRejects(t) PROVE IInv'
<1>1. TypeOK'
  BY DEF IInv, TypeOK, ProcStates, PcStates, Critical, TestRejects, Return, Unlock,
         Goto, procVars
<1>2. Locking'
  BY DEF IInv, Locking, Critical, TestRejects, Return, Unlock, Goto, procVars, TypeOK
<1>3. LocalsOK'
  BY DEF IInv, LocalsOK, Starting, Critical, TestRejects, Return, Unlock, Goto,
         procVars, TypeOK
<1>4. ProcsOK'
  BY DEF IInv, ProcsOK, TestRejects, Return, Unlock, Goto, procVars
<1>5. FileOK'
  BY DEF IInv, FileOK, TestRejects, Return, Unlock, Goto, procVars
<1>6. InstalledOK'
  BY DEF IInv, InstalledOK, Critical, TestRejects, Return, Unlock, Goto, procVars,
         TypeOK
<1>7. FaithfulCurrent'
  BY DEF IInv, FaithfulCurrent, TestRejects, Return, Unlock, Goto, procVars
<1>8. StrayOnlyFromSpawnRace'
  BY DEF IInv, StrayOnlyFromSpawnRace, Stray, Unreferenced, TestRejects, Return, Unlock,
         Goto, procVars, LocalsOK, Starting
<1>9. NoLostRestart'
  BY DEF IInv, NoLostRestart, TestRejects, Return, Unlock, Goto, procVars
<1> QED
  BY <1>1, <1>2, <1>3, <1>4, <1>5, <1>6, <1>7, <1>8, <1>9 DEF IInv

\* TestConfig cannot run, and RestartXray returns.
LEMMA TestFaultInv == ASSUME IInv, NEW t \in Threads, TestFault(t) PROVE IInv'
<1>1. TypeOK'
  BY DEF IInv, TypeOK, ProcStates, PcStates, Critical, TestFault, Return, Unlock, Goto,
         procVars
<1>2. Locking'
  BY DEF IInv, Locking, Critical, TestFault, Return, Unlock, Goto, procVars, TypeOK
<1>3. LocalsOK'
  BY DEF IInv, LocalsOK, Starting, Critical, TestFault, Return, Unlock, Goto, procVars,
         TypeOK
<1>4. ProcsOK'
  BY DEF IInv, ProcsOK, TestFault, Return, Unlock, Goto, procVars
<1>5. FileOK'
  BY DEF IInv, FileOK, TestFault, Return, Unlock, Goto, procVars
<1>6. InstalledOK'
  BY DEF IInv, InstalledOK, Critical, TestFault, Return, Unlock, Goto, procVars, TypeOK
<1>7. FaithfulCurrent'
  BY DEF IInv, FaithfulCurrent, TestFault, Return, Unlock, Goto, procVars
<1>8. StrayOnlyFromSpawnRace'
  BY DEF IInv, StrayOnlyFromSpawnRace, Stray, Unreferenced, TestFault, Return, Unlock,
         Goto, procVars, LocalsOK, Starting
<1>9. NoLostRestart'
  BY DEF IInv, NoLostRestart, TestFault, Return, Unlock, Goto, procVars
<1> QED
  BY <1>1, <1>2, <1>3, <1>4, <1>5, <1>6, <1>7, <1>8, <1>9 DEF IInv

\* Nothing to do: the process runs this configuration.
LEMMA AlreadyInstalledInv == ASSUME IInv, NEW t \in Threads, AlreadyInstalled(t) PROVE IInv'
BY DEF IInv, TypeOK, Locking, LocalsOK, ProcsOK, FileOK, InstalledOK, FaithfulCurrent,
       StrayOnlyFromSpawnRace, NoLostRestart, ProcStates, PcStates, Critical, Starting,
       Stray, Unreferenced, AlreadyInstalled, IsXrayRunning, IsRunning, Return, Unlock,
       Goto, procVars

\* The running process is killed and a new one becomes current.
LEMMA ReplaceRunningInv == ASSUME IInv, NEW t \in Threads, ReplaceRunning(t) PROVE IInv'
<1>1. TypeOK'
  BY DEF IInv, TypeOK, ProcStates, PcStates, Critical, ReplaceRunning, IsXrayRunning,
         IsRunning, Replace, Fresh, Goto, Unreferenced
<1>2. Locking'
  BY DEF IInv, Locking, Critical, ReplaceRunning, IsXrayRunning, IsRunning, Replace,
         Fresh, Goto, Unreferenced
<1>3. LocalsOK'
  BY DEF IInv, LocalsOK, Starting, Critical, ReplaceRunning, IsXrayRunning, IsRunning,
         Replace, Fresh, Goto, Unreferenced, TypeOK, ProcsOK
<1>4. ProcsOK'
  BY DEF IInv, ProcsOK, ReplaceRunning, IsXrayRunning, IsRunning, Replace, Fresh, Goto,
         Unreferenced, TypeOK
<1>5. FileOK'
  BY DEF IInv, FileOK, ReplaceRunning, IsXrayRunning, IsRunning, Replace, Fresh, Goto,
         Unreferenced, TypeOK
<1>6. InstalledOK'
  BY DEF IInv, InstalledOK, Critical, ReplaceRunning, IsXrayRunning, IsRunning, Replace,
         Fresh, Goto, Unreferenced
<1>7. FaithfulCurrent'
  BY DEF IInv, FaithfulCurrent, ReplaceRunning, IsXrayRunning, IsRunning, Replace,
         Fresh, Goto, Unreferenced, TypeOK, LocalsOK, Starting, ProcsOK
<1>8. StrayOnlyFromSpawnRace'
  BY DEF IInv, StrayOnlyFromSpawnRace, Stray, Unreferenced, ReplaceRunning,
         IsXrayRunning, IsRunning, Replace, Fresh, Goto, TypeOK, LocalsOK, Starting
<1>9. NoLostRestart'
  BY DEF IInv, NoLostRestart, ReplaceRunning, IsXrayRunning, IsRunning, Replace, Fresh,
         Goto, Unreferenced
<1> QED
  BY <1>1, <1>2, <1>3, <1>4, <1>5, <1>6, <1>7, <1>8, <1>9 DEF IInv

\* A new process becomes current; a process not spawned yet is left behind, and
\* `raced` says so.
LEMMA ReplaceStoppedInv == ASSUME IInv, NEW t \in Threads, ReplaceStopped(t) PROVE IInv'
<1>1. TypeOK'
  <2>1. PICK q \in Procs : Replace(t, q) /\ st' = [st EXCEPT ![q] = "new"]
    BY DEF ReplaceStopped
  <2>2. raced' \in [Procs -> BOOLEAN]
    BY DEF ReplaceStopped, IInv, TypeOK
  <2>3. cfg' \in [Procs -> Cfgs \cup {NoCfg}]
    <3>1. newCfg[t] \in Cfgs \cup {NoCfg}
      BY DEF IInv, TypeOK
    <3> QED
      BY <2>1, <3>1 DEF Replace
  <2>4. st' \in [Procs -> ProcStates]
    BY <2>1 DEF IInv, TypeOK, ProcStates
  <2>5. tgt' \in [Threads -> Procs \cup {NoProc}] /\ pc' \in [Threads -> PcStates]
    BY <2>1 DEF Replace, Goto, IInv, TypeOK, PcStates, Critical
  <2> QED
    BY <2>1, <2>2, <2>3, <2>4, <2>5 DEF ReplaceStopped, Replace, Goto, IInv, TypeOK
<1>2. Locking'
  BY DEF IInv, Locking, Critical, ReplaceStopped, IsXrayRunning, IsRunning, Replace,
         Fresh, Goto, Unreferenced
<1>3. LocalsOK'
  BY DEF IInv, LocalsOK, Starting, Critical, ReplaceStopped, IsXrayRunning, IsRunning,
         Replace, Fresh, Goto, Unreferenced, TypeOK, Locking
<1>4. ProcsOK'
  BY DEF IInv, ProcsOK, ReplaceStopped, IsXrayRunning, IsRunning, Replace, Fresh, Goto,
         Unreferenced
<1>5. FileOK'
  BY DEF IInv, FileOK, ReplaceStopped, IsXrayRunning, IsRunning, Replace, Fresh, Goto,
         Unreferenced
<1>6. InstalledOK'
  BY DEF IInv, InstalledOK, Critical, ReplaceStopped, IsXrayRunning, IsRunning, Replace,
         Fresh, Goto, Unreferenced
<1>7. FaithfulCurrent'
  BY DEF IInv, FaithfulCurrent, ReplaceStopped, IsXrayRunning, IsRunning, Replace,
         Fresh, Goto, Unreferenced, TypeOK, LocalsOK, Starting, ProcsOK
<1>8. StrayOnlyFromSpawnRace'
  BY DEF IInv, StrayOnlyFromSpawnRace, Stray, Unreferenced, ReplaceStopped,
         IsXrayRunning, IsRunning, Replace, Fresh, Goto, TypeOK, LocalsOK, Starting
<1>9. NoLostRestart'
  BY DEF IInv, NoLostRestart, ReplaceStopped, IsXrayRunning, IsRunning, Replace, Fresh,
         Goto, Unreferenced
<1> QED
  BY <1>1, <1>2, <1>3, <1>4, <1>5, <1>6, <1>7, <1>8, <1>9 DEF IInv

\* The file is truncated: a process that is booting from it finds it half-written.
LEMMA WriteConfigInv == ASSUME IInv, NEW t \in Threads, WriteConfig(t) PROVE IInv'
BY DEF IInv, TypeOK, Locking, LocalsOK, ProcsOK, FileOK, InstalledOK, FaithfulCurrent,
       StrayOnlyFromSpawnRace, NoLostRestart, ProcStates, PcStates, Critical, Starting,
       Stray, Unreferenced, WriteConfig, Goto, procVars, localVars

\* Start succeeds: the process becomes current, with the file it is going to read.
LEMMA LaunchInv == ASSUME IInv, NEW t \in Threads, Launch(t) PROVE IInv'
<1>1. TypeOK'
  BY DEF IInv, TypeOK, ProcStates, PcStates, Critical, Launch, StartOk, Return, Unlock,
         Goto, RollingBack, LocalsOK, Starting
<1>2. Locking'
  BY DEF IInv, Locking, Critical, Launch, StartOk, Return, Unlock, Goto, RollingBack,
         TypeOK
<1>3. LocalsOK'
  BY DEF IInv, LocalsOK, Starting, Critical, Launch, StartOk, Return, Unlock, Goto,
         RollingBack, TypeOK, Locking
<1>4. ProcsOK'
  BY DEF IInv, ProcsOK, Launch, StartOk, Return, Unlock, Goto, RollingBack, LocalsOK,
         Starting
<1>5. FileOK'
  BY DEF IInv, FileOK, Launch, StartOk, Return, Unlock, Goto, RollingBack, LocalsOK,
         Starting
<1>6. InstalledOK'
  BY DEF IInv, InstalledOK, Critical, Launch, StartOk, Return, Unlock, Goto,
         RollingBack, TypeOK, LocalsOK, Starting
<1>7. FaithfulCurrent'
  BY DEF IInv, FaithfulCurrent, Launch, StartOk, Return, Unlock, Goto, RollingBack,
         TypeOK, LocalsOK, Starting, ProcsOK
<1>8. StrayOnlyFromSpawnRace'
  BY DEF IInv, StrayOnlyFromSpawnRace, Stray, Unreferenced, Launch, StartOk, Return,
         Unlock, Goto, RollingBack, LocalsOK, Starting
<1>9. NoLostRestart'
  BY DEF IInv, NoLostRestart, Launch, StartOk, Return, Unlock, Goto, RollingBack
<1> QED
  BY <1>1, <1>2, <1>3, <1>4, <1>5, <1>6, <1>7, <1>8, <1>9 DEF IInv

\* Start fails, and the old configuration, if any, is tried next.
LEMMA StartFaultInv == ASSUME IInv, NEW t \in Threads, StartFault(t) PROVE IInv'
<1>1. TypeOK'
  <2>1. Starting(t) /\ tgt[t] \in Procs /\ cfg[tgt[t]] \in Cfgs
    BY DEF StartFault, StartFails, IInv, LocalsOK, Starting
  <2>2. /\ st' \in [Procs -> ProcStates]
        /\ cfg' \in [Procs -> Cfgs \cup {NoCfg}]
        /\ loaded' \in [Procs -> Cfgs \cup {NoCfg}]
    BY <2>1 DEF StartFault, StartFails, Bury, IInv, TypeOK, ProcStates
  <2>3. fin' \in [Procs -> BOOLEAN] /\ raced' \in [Procs -> BOOLEAN]
    BY <2>1 DEF StartFault, StartFails, Bury, IInv, TypeOK
  <2>4. file' \in Cfgs \cup {Partial}
    BY <2>1 DEF StartFault, StartFails, IInv, TypeOK
  <2>5. /\ lock' \in Threads \cup {NoThread} /\ flag' \in BOOLEAN /\ lastOk' \in BOOLEAN
        /\ pc' \in [Threads -> PcStates] /\ force' \in [Threads -> BOOLEAN]
        /\ newCfg' \in [Threads -> Cfgs \cup {NoCfg}]
        /\ oldCfg' \in [Threads -> Cfgs \cup {NoCfg}]
        /\ tgt' \in [Threads -> Procs \cup {NoProc}]
    <3>1. CASE EnterRollback(t)
      BY <3>1 DEF EnterRollback, Goto, IInv, TypeOK, PcStates, Critical
    <3>2. CASE Return(t, FALSE)
      BY <3>2 DEF Return, Unlock, Goto, IInv, TypeOK, PcStates
    <3> QED
      BY <3>1, <3>2 DEF StartFault
  <2> QED
    BY <2>2, <2>3, <2>4, <2>5 DEF StartFault, StartFails, IInv, TypeOK
<1>2. Locking'
  BY DEF IInv, Locking, Critical, StartFault, StartFails, Bury, RollingBack,
         EnterRollback, Goto, Return, Unlock, TypeOK
<1>3. LocalsOK'
  BY DEF IInv, LocalsOK, Starting, Critical, StartFault, StartFails, Bury, RollingBack,
         EnterRollback, Goto, Return, Unlock, TypeOK, Locking
<1>4. ProcsOK'
  BY DEF IInv, ProcsOK, StartFault, StartFails, Bury, RollingBack, EnterRollback, Goto,
         Return, Unlock, TypeOK
<1>5. FileOK'
  BY DEF IInv, FileOK, StartFault, StartFails, Bury, RollingBack, EnterRollback, Goto,
         Return, Unlock, LocalsOK, Starting
<1>6. InstalledOK'
  BY DEF IInv, InstalledOK, Critical, StartFault, StartFails, Bury, RollingBack,
         EnterRollback, Goto, Return, Unlock, TypeOK
<1>7. FaithfulCurrent'
  BY DEF IInv, FaithfulCurrent, StartFault, StartFails, Bury, RollingBack,
         EnterRollback, Goto, Return, Unlock, TypeOK
<1>8. StrayOnlyFromSpawnRace'
  BY DEF IInv, StrayOnlyFromSpawnRace, Stray, Unreferenced, StartFault, StartFails,
         Bury, RollingBack, EnterRollback, Goto, Return, Unlock, TypeOK
<1>9. NoLostRestart'
  BY DEF IInv, NoLostRestart, StartFault, StartFails, Bury, RollingBack, EnterRollback,
         Goto, Return, Unlock, TypeOK
<1> QED
  BY <1>1, <1>2, <1>3, <1>4, <1>5, <1>6, <1>7, <1>8, <1>9 DEF IInv

\* The old configuration gets a process of its own.
LEMMA RollbackInv == ASSUME IInv, NEW t \in Threads, Rollback(t) PROVE IInv'
BY DEF IInv, TypeOK, Locking, LocalsOK, ProcsOK, FileOK, InstalledOK, FaithfulCurrent,
       StrayOnlyFromSpawnRace, NoLostRestart, ProcStates, PcStates, Critical, Starting,
       Stray, Unreferenced, Rollback, Fresh, Goto

\* The restart job takes the flag: its RestartXray takes the debt over.
LEMMA CronTickInv == ASSUME IInv, NEW t \in Threads, CronTick(t) PROVE IInv'
<1>1. TypeOK'
  BY DEF IInv, TypeOK, ProcStates, PcStates, Critical, CronTick, CallRestart, Goto,
         procVars
<1>2. Locking'
  BY DEF IInv, Locking, Critical, CronTick, CallRestart, Goto, procVars
<1>3. LocalsOK'
  BY DEF IInv, LocalsOK, Starting, Critical, CronTick, CallRestart, Goto, procVars
<1>4. ProcsOK'
  BY DEF IInv, ProcsOK, CronTick, CallRestart, Goto, procVars
<1>5. FileOK'
  BY DEF IInv, FileOK, CronTick, CallRestart, Goto, procVars
<1>6. InstalledOK'
  BY DEF IInv, InstalledOK, Critical, CronTick, CallRestart, Goto, procVars
<1>7. FaithfulCurrent'
  BY DEF IInv, FaithfulCurrent, CronTick, CallRestart, Goto, procVars
<1>8. StrayOnlyFromSpawnRace'
  BY DEF IInv, StrayOnlyFromSpawnRace, Stray, Unreferenced, CronTick, CallRestart, Goto,
         procVars
<1>9. NoLostRestart'
  BY DEF IInv, NoLostRestart, CronTick, CallRestart, Goto, procVars, TypeOK
<1> QED
  BY <1>1, <1>2, <1>3, <1>4, <1>5, <1>6, <1>7, <1>8, <1>9 DEF IInv

\* An inbound change is committed.
LEMMA SaveInboundInv == ASSUME IInv, NEW t \in Threads, SaveInbound(t) PROVE IInv'
<1>1. TypeOK'
  BY DEF IInv, TypeOK, ProcStates, PcStates, Critical, SaveInbound, Goto, procVars,
         localVars
<1>2. Locking'
  BY DEF IInv, Locking, Critical, SaveInbound, Goto, procVars, localVars
<1>3. LocalsOK'
  BY DEF IInv, LocalsOK, Starting, Critical, SaveInbound, Goto, procVars, localVars
<1>4. ProcsOK'
  BY DEF IInv, ProcsOK, SaveInbound, Goto, procVars, localVars
<1>5. FileOK'
  BY DEF IInv, FileOK, SaveInbound, Goto, procVars, localVars
<1>6. InstalledOK'
  BY DEF IInv, InstalledOK, Critical, SaveInbound, Goto, procVars, localVars
<1>7. FaithfulCurrent'
  BY DEF IInv, FaithfulCurrent, SaveInbound, Goto, procVars, localVars
<1>8. StrayOnlyFromSpawnRace'
  BY DEF IInv, StrayOnlyFromSpawnRace, Stray, Unreferenced, SaveInbound, Goto, procVars,
         localVars
<1>9. NoLostRestart'
  BY DEF IInv, NoLostRestart, SaveInbound, Goto, procVars, localVars, TypeOK
<1> QED
  BY <1>1, <1>2, <1>3, <1>4, <1>5, <1>6, <1>7, <1>8, <1>9 DEF IInv

\* The flag is raised.
LEMMA SetToNeedRestartInv == ASSUME IInv, NEW t \in Threads, SetToNeedRestart(t) PROVE IInv'
BY DEF IInv, TypeOK, Locking, LocalsOK, ProcsOK, FileOK, InstalledOK, FaithfulCurrent,
       StrayOnlyFromSpawnRace, NoLostRestart, ProcStates, PcStates, Critical, Starting,
       Stray, Unreferenced, SetToNeedRestart, Goto, procVars, localVars

\* A managed change is committed.
LEMMA CommitManagedInv == ASSUME IInv, NEW t \in Threads, CommitManaged(t) PROVE IInv'
BY DEF IInv, TypeOK, Locking, LocalsOK, ProcsOK, FileOK, InstalledOK, FaithfulCurrent,
       StrayOnlyFromSpawnRace, NoLostRestart, ProcStates, PcStates, Critical, Starting,
       Stray, Unreferenced, CommitManaged, Goto, procVars, localVars

\* A managed change is applied.
LEMMA ApplyManagedInv == ASSUME IInv, NEW t \in Threads, ApplyManaged(t) PROVE IInv'
BY DEF IInv, TypeOK, Locking, LocalsOK, ProcsOK, FileOK, InstalledOK, FaithfulCurrent,
       StrayOnlyFromSpawnRace, NoLostRestart, ProcStates, PcStates, Critical, Starting,
       Stray, Unreferenced, ApplyManaged, CallRestart, Goto, procVars

\* A managed change is not applied.
LEMMA ApplyManagedSkipsInv == ASSUME IInv, NEW t \in Threads, ApplyManagedSkips(t) PROVE IInv'
BY DEF IInv, TypeOK, Locking, LocalsOK, ProcsOK, FileOK, InstalledOK, FaithfulCurrent,
       StrayOnlyFromSpawnRace, NoLostRestart, ProcStates, PcStates, Critical, Starting,
       Stray, Unreferenced, ApplyManagedSkips, Goto, procVars, localVars

\* The access log setting is changed, and a restart called.
LEMMA UpdateAccessIPInv == ASSUME IInv, NEW t \in Threads, UpdateAccessIP(t) PROVE IInv'
BY DEF IInv, TypeOK, Locking, LocalsOK, ProcsOK, FileOK, InstalledOK, FaithfulCurrent,
       StrayOnlyFromSpawnRace, NoLostRestart, ProcStates, PcStates, Critical, Starting,
       Stray, Unreferenced, UpdateAccessIP, CallRestart, Goto, procVars

\* The process is stopped: the mutex was free, so no start was under way.
LEMMA UpdateXrayInv == ASSUME IInv, NEW t \in Threads, UpdateXray(t) PROVE IInv'
BY DEF IInv, TypeOK, Locking, LocalsOK, ProcsOK, FileOK, InstalledOK, FaithfulCurrent,
       StrayOnlyFromSpawnRace, NoLostRestart, ProcStates, PcStates, Critical, Starting,
       Stray, Unreferenced, UpdateXray, StopXray, IsXrayRunning, IsRunning, CallRestart,
       Goto

\* The watchdog may raise the flag.
LEMMA WatchdogInv == ASSUME IInv, Watchdog PROVE IInv'
BY DEF IInv, TypeOK, Locking, LocalsOK, ProcsOK, FileOK, InstalledOK, FaithfulCurrent,
       StrayOnlyFromSpawnRace, NoLostRestart, ProcStates, PcStates, Critical, Starting,
       Stray, Unreferenced, Watchdog, IsXrayRunning, IsRunning, procVars, threadVars,
       localVars

\* A setting is changed.
LEMMA UpdateSettingInv == ASSUME IInv, UpdateSetting PROVE IInv'
BY DEF IInv, TypeOK, Locking, LocalsOK, ProcsOK, FileOK, InstalledOK, FaithfulCurrent,
       StrayOnlyFromSpawnRace, NoLostRestart, ProcStates, PcStates, Critical, Starting,
       Stray, Unreferenced, UpdateSetting, procVars, threadVars, localVars

\* A step that changes nothing keeps the invariant.
LEMMA StutterInv == ASSUME IInv, UNCHANGED vars PROVE IInv'
BY DEF IInv, TypeOK, Locking, LocalsOK, Starting, ProcsOK, FileOK, InstalledOK, FaithfulCurrent,
       StrayOnlyFromSpawnRace, Stray, Unreferenced, NoLostRestart, vars, procVars, threadVars,
       localVars

\* Every step keeps the invariant.
LEMMA NextInv == ASSUME IInv, [Next]_vars PROVE IInv'
<1>1. ASSUME NEW t \in Threads, Proceed(t) PROVE IInv'
  BY <1>1, BuildInv, TestPassesInv, TestRejectsInv, AlreadyInstalledInv,
     ReplaceRunningInv, ReplaceStoppedInv, WriteConfigInv, LaunchInv, RollbackInv,
     SetToNeedRestartInv, ApplyManagedInv, ApplyManagedSkipsInv DEF Proceed
<1>2. ASSUME NEW t \in Threads, Request(t) PROVE IInv'
  BY <1>2, SaveInboundInv, CommitManagedInv, UpdateAccessIPInv, UpdateXrayInv DEF Request
<1>3. ASSUME NEW q \in Procs, Progress(q) PROVE IInv'
  BY <1>3, SpawnInv, BootInv, BootFailsInv, ReapInv, FinalizeInv DEF Progress
<1>4. CASE Fault
  BY <1>4, BuildFaultInv, TestFaultInv, StartFaultInv, SpawnFaultInv, CrashInv DEF Fault
<1>5. ASSUME NEW t \in Threads, Acquire(t) \/ CronTick(t) PROVE IInv'
  BY <1>5, AcquireInv, CronTickInv
<1>6. CASE Watchdog \/ UpdateSetting
  BY <1>6, WatchdogInv, UpdateSettingInv
<1>7. CASE UNCHANGED vars
  BY <1>7, StutterInv
<1> QED
  BY <1>1, <1>2, <1>3, <1>4, <1>5, <1>6, <1>7 DEF Next

\* IInv is an invariant of the life cycle of xray, whatever the number of concurrent
\* requests, restart ticks and processes.
THEOREM Inductive == Spec => []IInv
BY InitIInv, NextInv, PTL DEF Spec

-----------------------------------------------------------------------------
(* The properties.                                                          *)

\* Type correctness: no step of RestartXray installs, starts or rolls back to something
\* that is not there.
THEOREM TypeCorrect == Spec => []TypeOK
<1>1. IInv => TypeOK
  BY DEF IInv
<1> QED
  BY <1>1, Inductive, PTL

\* SetToNeedRestart after the commit, and the flag taken before the database is read,
\* are enough: no inbound change is forgotten.
THEOREM RestartNeverLost == Spec => []NoLostRestart
<1>1. IInv => NoLostRestart
  BY DEF IInv
<1> QED
  BY <1>1, Inductive, PTL

\* The process of the panel runs what GetConfig reports, although every Start
\* overwrites the file it is read from.
THEOREM CurrentIsFaithful == Spec => []FaithfulCurrent
<1>1. IInv => FaithfulCurrent
  BY DEF IInv
<1> QED
  BY <1>1, Inductive, PTL

\* No xray, current or left behind, runs a configuration that was not tested.
THEOREM RunsAreTested == Spec => []OnlyTestedRuns
<1>1. IInv => OnlyTestedRuns
  BY DEF IInv, ProcsOK, OnlyTestedRuns
<1> QED
  BY <1>1, Inductive, PTL

\* The only way to lose control of a live xray is the window between Start and the
\* spawn of the command.
THEOREM StraysComeFromTheRace == Spec => []StrayOnlyFromSpawnRace
<1>1. IInv => StrayOnlyFromSpawnRace
  BY DEF IInv
<1> QED
  BY <1>1, Inductive, PTL

\* When nothing is in progress after a successful restart, the panel runs the
\* configuration of the database.
THEOREM SettledIsCurrent == Spec => []SettledAgrees
<1>1. IInv => SettledAgrees
  <2> SUFFICES ASSUME IInv, ~flag, \A t \in Threads : pc[t] = "idle",
                      lastOk, p # NoProc, st[p] \in {"starting", "running"}
               PROVE  cfg[p] = dbCfg \/ silent
    BY DEF SettledAgrees
  <2>1. lock = NoThread
    BY DEF IInv, TypeOK, Locking, Critical
  <2>2. ~owed
    BY DEF IInv, NoLostRestart
  <2> QED
    BY <2>1, <2>2 DEF IInv, InstalledOK
<1> QED
  BY <1>1, Inductive, PTL

\* The step of KillOnlyForTested, in a state of the invariant: whoever holds the mutex
\* and takes the working process down has tested what comes next.
LEMMA KillStep ==
  ASSUME IInv, [Next]_vars, NEW q \in Procs, NEW t \in Threads,
         lock = t, st[q] = "running", st'[q] = "killed", q = p
  PROVE  newCfg[t] \in ValidCfgs
<1>1. st \in [Procs -> ProcStates] /\ pc[t] \in Critical
  BY DEF IInv, TypeOK, Locking
<1>2. ASSUME NEW r \in Procs, Bury(r) PROVE FALSE
  BY <1>1, <1>2 DEF Bury
<1>3. ASSUME UNCHANGED st PROVE FALSE
  BY <1>3
<1>4. ASSUME NEW r \in Procs, Progress(r) PROVE FALSE
  <2>1. ~Finalize(r)
    BY <1>1 DEF Finalize, Stray, Unreferenced
  <2> QED
    BY <1>1, <1>2, <1>3, <1>4, <2>1 DEF Progress, Spawn, Boot, BootFails, Reap
<1>5. ~Fault
  <2>1. ASSUME NEW u \in Threads, StartFault(u) PROVE FALSE
    BY <1>2, <2>1 DEF StartFault, StartFails, IInv, LocalsOK, Starting
  <2> QED
    BY <1>2, <1>3, <2>1 DEF Fault, BuildFault, TestFault, SpawnFault, Crash, procVars
<1>6. ASSUME NEW u \in Threads, Request(u) PROVE FALSE
  <2>1. ~UpdateXray(u)
    BY DEF UpdateXray, StopXray
  <2> QED
    BY <1>3, <1>6, <2>1 DEF Request, SaveInbound, CommitManaged, UpdateAccessIP, procVars
<1>7. ASSUME NEW u \in Threads, ReplaceRunning(u) PROVE newCfg[t] \in ValidCfgs
  <2>1. pc[u] = "decide"
    BY <1>7 DEF ReplaceRunning
  <2>2. u = t
    BY <2>1 DEF IInv, Locking, Critical
  <2> QED
    BY <2>1, <2>2 DEF IInv, LocalsOK, Critical
<1>8. ASSUME NEW u \in Threads, Proceed(u), ~ReplaceRunning(u) PROVE FALSE
  <2>1. ~(\E r \in Procs : st' = [st EXCEPT ![r] = "new"])
    BY <1>1
  <2>2. ASSUME StartOk(u) PROVE FALSE
    BY <1>1, <2>2 DEF StartOk
  <2> QED
    BY <1>3, <1>8, <2>1, <2>2
       DEF Proceed, Build, TestPasses, TestRejects, AlreadyInstalled, ReplaceStopped,
           WriteConfig, Launch, Rollback, SetToNeedRestart, ApplyManaged,
           ApplyManagedSkips, procVars
<1>9. ASSUME NEW u \in Threads, Acquire(u) \/ CronTick(u) PROVE FALSE
  BY <1>3, <1>9 DEF Acquire, CronTick, procVars
<1>10. ~Watchdog /\ ~UpdateSetting
  BY <1>3 DEF Watchdog, UpdateSetting, procVars
<1>11. ~UNCHANGED vars
  BY <1>3 DEF vars, procVars
<1> QED
  BY <1>4, <1>5, <1>6, <1>7, <1>8, <1>9, <1>10, <1>11 DEF Next

\* RestartXray never takes a working process down for a configuration that was not
\* tested.
THEOREM KillsAreForTested == Spec => KillOnlyForTested
<1>1. IInv /\ [Next]_vars =>
        [\A q \in Procs, t \in Threads :
           (lock = t /\ st[q] = "running" /\ st'[q] = "killed" /\ q = p)
              => newCfg[t] \in ValidCfgs]_vars
  BY KillStep
<1> QED
  BY <1>1, Inductive, PTL DEF Spec, KillOnlyForTested

-----------------------------------------------------------------------------
(* XrayService implements Reconciler.                                       *)

\* Nothing the reconciler sees.
LEMMA Unseen ==
  ASSUME UNCHANGED <<dbCfg, flag, pc, lock, newCfg, oldCfg, Installed, lastOk>>
  PROVE  UNCHANGED R!vars
BY DEF R!vars, Due, OfAttempt

\* Before the first attempt nothing runs, and one is due.
LEMMA InitMaps == Init => R!Init
<1> SUFFICES ASSUME Init PROVE R!Init
  OBVIOUS
<1>1. Due
  <2>1. PICK t \in Admins : pc = [u \in Threads |-> IF u = t THEN "lockwait" ELSE "idle"]
    BY DEF Init
  <2> QED
    BY <2>1 DEF Due, Threads
<1> QED
  BY <1>1 DEF Init, R!Init, OfAttempt, Installed, Due

-----------------------------------------------------------------------------
(* The process.                                                             *)

\* A process that ends takes its configuration with it, when it is the current one.
LEMMA BuryMaps ==
  ASSUME IInv, NEW q \in Procs, Bury(q),
         UNCHANGED <<dbCfg, flag, lock, p, pc, newCfg, oldCfg, lastOk>>
  PROVE  R!Die \/ UNCHANGED R!vars
<1>1. Installed' = Installed \/ Installed' = NoCfg
  BY DEF Bury, Installed, IInv, TypeOK
<1>2. UNCHANGED <<Due, OfAttempt(newCfg), OfAttempt(oldCfg)>>
  BY DEF Due, OfAttempt
<1> QED
  BY <1>1, <1>2 DEF R!Die, R!vars

\* Spawning, reading the file and the finalizer of another process are not seen.
LEMMA QuietProcessMaps ==
  ASSUME IInv, NEW q \in Procs, Spawn(q) \/ Boot(q) \/ Finalize(q)
  PROVE  UNCHANGED R!vars
<1>1. Installed' = Installed
  BY DEF Spawn, Boot, Finalize, Stray, Unreferenced, IsRunning, Installed, IInv, TypeOK
<1> QED
  BY <1>1, Unseen DEF Spawn, Boot, Finalize, threadVars, localVars

\* The end of a process, however it comes.
LEMMA EndMaps ==
  ASSUME IInv, NEW q \in Procs, SpawnFault(q) \/ BootFails(q) \/ Crash(q) \/ Reap(q)
  PROVE  [R!Next]_(R!vars)
BY BuryMaps DEF SpawnFault, BootFails, Crash, Reap, threadVars, localVars, R!Next

-----------------------------------------------------------------------------
(* RestartXray.                                                             *)

\* Where the holder of the mutex stands, and its locals.
LEMMA Holder ==
  ASSUME IInv, NEW t \in Threads, pc[t] \in Critical
  PROVE  /\ lock = t
         /\ OfAttempt(newCfg) = newCfg[t] /\ OfAttempt(oldCfg) = oldCfg[t]
BY DEF IInv, Locking, OfAttempt, Threads

\* Return ends the attempt.
LEMMA ReturnEnds ==
  ASSUME NEW t \in Threads, NEW r \in BOOLEAN, Return(t, r)
  PROVE  /\ OfAttempt(newCfg)' = NoCfg /\ OfAttempt(oldCfg)' = NoCfg
         /\ lastOk' = r /\ flag' = flag
BY DEF Return, Unlock, OfAttempt

\* A return from a point after the database was read asks for nothing and forgets nothing.
LEMMA ReturnKeepsDue ==
  ASSUME IInv, NEW t \in Threads, NEW r \in BOOLEAN, Return(t, r), pc[t] \in Critical \ {"build"}
  PROVE  Due' = Due
BY DEF Return, Unlock, Goto, Due, IInv, TypeOK, Critical

\* Entering the critical section is not seen.
LEMMA AcquireMaps ==
  ASSUME IInv, NEW t \in Threads, Acquire(t)
  PROVE  UNCHANGED R!vars
<1>1. Due' = Due
  BY DEF Acquire, Goto, Due, IInv, TypeOK
<1>2. OfAttempt(newCfg)' = OfAttempt(newCfg) /\ OfAttempt(oldCfg)' = OfAttempt(oldCfg)
  BY DEF Acquire, OfAttempt, localVars, IInv, LocalsOK, Starting, Critical
<1>3. Installed' = Installed
  BY DEF Acquire, Installed, procVars
<1> QED
  BY <1>1, <1>2, <1>3 DEF Acquire, R!vars

\* The attempt looks.
LEMMA BuildMaps ==
  ASSUME IInv, NEW t \in Threads, Build(t)
  PROVE  R!Look
<1>1. pc[t] = "build" /\ pc[t] \in Critical
  BY DEF Build, Critical
<1>2. Due /\ Due' \in BOOLEAN
  BY <1>1 DEF Due, IInv, TypeOK
<1>3. OfAttempt(newCfg) = NoCfg /\ OfAttempt(newCfg)' = dbCfg
  BY <1>1, Holder DEF Build, OfAttempt, IInv, LocalsOK, TypeOK
<1>4. OfAttempt(oldCfg)' = OfAttempt(oldCfg) /\ Installed' = Installed
  BY DEF Build, OfAttempt, Installed, procVars
<1> QED
  BY <1>2, <1>3, <1>4 DEF Build, R!Look

\* ... or cannot.
LEMMA BuildFaultMaps ==
  ASSUME IInv, NEW t \in Threads, BuildFault(t)
  PROVE  R!Refuse
<1>1. pc[t] = "build" /\ pc[t] \in Critical
  BY DEF BuildFault, Critical
<1>2. Due /\ Due' \in BOOLEAN
  BY <1>1 DEF Due
<1>3. OfAttempt(newCfg) = NoCfg /\ OfAttempt(oldCfg) = NoCfg
  BY <1>1, Holder DEF IInv, LocalsOK, Starting, Critical
<1>4. Installed' = Installed
  BY DEF BuildFault, Installed, procVars
<1> QED
  BY <1>2, <1>3, <1>4, ReturnEnds DEF BuildFault, R!Refuse

\* The test, the file and the second process are not seen.
LEMMA InsideMaps ==
  ASSUME IInv, NEW t \in Threads, TestPasses(t) \/ WriteConfig(t) \/ Rollback(t)
  PROVE  UNCHANGED R!vars
<1>1. Due' = Due
  BY DEF TestPasses, WriteConfig, Rollback, Goto, Due, IInv, TypeOK
<1>2. OfAttempt(newCfg)' = OfAttempt(newCfg) /\ OfAttempt(oldCfg)' = OfAttempt(oldCfg)
  BY DEF TestPasses, WriteConfig, Rollback, OfAttempt, localVars
<1>3. Installed' = Installed
  <2>1. CASE TestPasses(t) \/ WriteConfig(t)
    BY <2>1 DEF TestPasses, WriteConfig, Installed, procVars
  <2>2. CASE Rollback(t)
    BY <2>2 DEF Rollback, Installed, Fresh, Unreferenced, IInv, TypeOK
  <2> QED
    BY <2>1, <2>2
<1> QED
  BY <1>1, <1>2, <1>3 DEF TestPasses, WriteConfig, Rollback, R!vars

\* The test fails, or cannot be made.
LEMMA TestFailsMaps ==
  ASSUME IInv, NEW t \in Threads, TestRejects(t) \/ TestFault(t)
  PROVE  R!GiveUp
<1>1. pc[t] = "test" /\ pc[t] \in Critical \ {"build"}
  BY DEF TestRejects, TestFault, Critical
<1>2. OfAttempt(newCfg) # NoCfg
  BY <1>1, Holder DEF IInv, LocalsOK, Critical
<1>3. Installed' = Installed
  BY DEF TestRejects, TestFault, Installed, procVars
<1> QED
  BY <1>1, <1>2, <1>3, ReturnEnds, ReturnKeepsDue
     DEF TestRejects, TestFault, R!GiveUp, R!Finish

\* What was seen is installed already.
LEMMA AlreadyInstalledMaps ==
  ASSUME IInv, NEW t \in Threads, AlreadyInstalled(t)
  PROVE  R!Install
<1>1. pc[t] = "decide" /\ pc[t] \in Critical \ {"build"}
  BY DEF AlreadyInstalled, Critical
<1>2. OfAttempt(newCfg) = newCfg[t] /\ newCfg[t] \in ValidCfgs /\ newCfg[t] # NoCfg
  BY <1>1, Holder DEF IInv, LocalsOK, Critical
<1>3. Installed = newCfg[t] /\ Installed' = Installed
  BY DEF AlreadyInstalled, IsXrayRunning, IsRunning, Installed, procVars
<1> QED
  BY <1>1, <1>2, <1>3, ReturnEnds, ReturnKeepsDue DEF AlreadyInstalled, R!Install, R!Finish

\* What both replacements do to what the reconciler sees.
LEMMA ReplaceMaps ==
  ASSUME IInv, NEW t \in Threads, NEW q \in Procs, Replace(t, q), pc[t] = "decide",
         st'[q] = "new"
  PROVE  /\ Installed' = NoCfg /\ Due' = Due /\ lock = t
         /\ OfAttempt(newCfg)' = OfAttempt(newCfg) /\ OfAttempt(newCfg) \in ValidCfgs
         /\ OfAttempt(oldCfg)' = oldCfg'[t] /\ OfAttempt(oldCfg) = oldCfg[t]
<1>1. pc[t] \in Critical
  BY DEF Critical
<1>2. Installed' = NoCfg
  BY DEF Replace, Installed
<1>3. Due' = Due
  BY DEF Replace, Goto, Due, IInv, TypeOK
<1> QED
  BY <1>1, <1>2, <1>3, Holder DEF Replace, OfAttempt, IInv, LocalsOK, Critical

\* A running process is taken down and remembered.
LEMMA ReplaceRunningMaps ==
  ASSUME IInv, NEW t \in Threads, ReplaceRunning(t)
  PROVE  R!TakeDown
<1>1. PICK q \in Procs : Replace(t, q) /\ st' = [st EXCEPT ![p] = "killed", ![q] = "new"]
  BY DEF ReplaceRunning
<1>2. pc[t] = "decide" /\ st'[q] = "new"
  BY <1>1 DEF ReplaceRunning, IInv, TypeOK
<1>3. Installed = cfg[p] /\ cfg[p] # NoCfg /\ oldCfg'[t] = cfg[p]
  BY DEF ReplaceRunning, IsXrayRunning, IsRunning, Installed, IInv, TypeOK, ProcsOK
<1> QED
  BY <1>1, <1>2, <1>3, ReplaceMaps DEF Replace, R!TakeDown

\* A process that is not spawned yet is replaced: for the reconciler it is gone.
LEMMA ReplaceStoppedMaps ==
  ASSUME IInv, NEW t \in Threads, ReplaceStopped(t)
  PROVE  R!Die \/ UNCHANGED R!vars
<1>1. PICK q \in Procs : Replace(t, q) /\ st' = [st EXCEPT ![q] = "new"]
  BY DEF ReplaceStopped
<1>2. pc[t] = "decide" /\ st'[q] = "new" /\ oldCfg' = oldCfg
  BY <1>1 DEF ReplaceStopped, IInv, TypeOK
<1> QED
  BY <1>1, <1>2, ReplaceMaps DEF Replace, R!Die, R!vars

\* The new process, or the one of the old configuration, is started.
LEMMA LaunchMaps ==
  ASSUME IInv, NEW t \in Threads, Launch(t)
  PROVE  R!Install \/ R!Restore
<1>1. pc[t] = "launch" /\ pc[t] \in Critical \ {"build"} /\ Starting(t)
  BY DEF Launch, StartOk, Critical, Starting
<1>2. /\ OfAttempt(newCfg) = newCfg[t] /\ newCfg[t] \in ValidCfgs /\ newCfg[t] # NoCfg
      /\ OfAttempt(oldCfg) = oldCfg[t]
  BY <1>1, Holder DEF IInv, LocalsOK, Critical
<1>3. Installed = NoCfg
  BY <1>1 DEF Installed, IInv, LocalsOK
<1>4. tgt[t] \in Procs /\ Installed' = cfg[tgt[t]]
  BY <1>1 DEF Launch, StartOk, Installed, IInv, LocalsOK, TypeOK
<1>5. CASE tgt[t] = p
  <2>1. cfg[tgt[t]] = newCfg[t] /\ Return(t, TRUE)
    BY <1>1, <1>5 DEF Launch, RollingBack, IInv, LocalsOK
  <2> QED
    BY <1>1, <1>2, <1>3, <1>4, <2>1, ReturnEnds, ReturnKeepsDue
       DEF Launch, StartOk, R!Install, R!Finish
<1>6. CASE tgt[t] # p
  <2>1. cfg[tgt[t]] = oldCfg[t] /\ oldCfg[t] # NoCfg
    BY <1>1, <1>6 DEF IInv, LocalsOK
  <2>2. Return(t, FALSE)
    <3>1. RollingBack(t)
      BY <1>6 DEF RollingBack
    <3> QED
      BY <3>1 DEF Launch
  <2> QED
    BY <1>1, <1>2, <1>3, <1>4, <2>1, <2>2, ReturnEnds, ReturnKeepsDue
       DEF Launch, StartOk, R!Restore, R!Finish
<1> QED
  BY <1>5, <1>6

\* Start fails: the attempt goes on with the old configuration, or ends.
LEMMA StartFaultMaps ==
  ASSUME IInv, NEW t \in Threads, StartFault(t)
  PROVE  R!GiveUp \/ UNCHANGED R!vars
<1>1. pc[t] \in Critical \ {"build"} /\ Starting(t)
  BY DEF StartFault, StartFails, Critical, Starting
<1>2. /\ lock = t /\ OfAttempt(newCfg) = newCfg[t] /\ newCfg[t] # NoCfg
      /\ OfAttempt(oldCfg) = oldCfg[t]
  BY <1>1, Holder DEF IInv, LocalsOK, Critical
<1>3. Installed' = Installed
  BY <1>1 DEF Installed, StartFault, StartFails, Bury, IInv, LocalsOK, TypeOK
<1>4. CASE EnterRollback(t)
  <2>1. Due' = Due
    BY <1>1, <1>4 DEF EnterRollback, Goto, Due, IInv, TypeOK, Critical
  <2>2. OfAttempt(newCfg)' = OfAttempt(newCfg) /\ OfAttempt(oldCfg)' = OfAttempt(oldCfg)
    BY <1>4 DEF EnterRollback, OfAttempt
  <2> QED
    BY <1>3, <1>4, <2>1, <2>2 DEF EnterRollback, StartFault, StartFails, R!vars
<1>5. CASE Return(t, FALSE)
  BY <1>1, <1>2, <1>3, <1>5, ReturnEnds, ReturnKeepsDue
     DEF StartFault, StartFails, R!GiveUp, R!Finish
<1> QED
  BY <1>4, <1>5 DEF StartFault

-----------------------------------------------------------------------------
(* The callers.                                                             *)

\* No caller touches the attempt under way, nor what is installed: StopXray's signal is
\* not the end of the process yet.
LEMMA CallersKeep ==
  ASSUME IInv, NEW t \in Threads,
         \/ SetToNeedRestart(t) \/ ApplyManaged(t) \/ ApplyManagedSkips(t)
         \/ CronTick(t) \/ Request(t)
  PROVE  UNCHANGED <<OfAttempt(newCfg), OfAttempt(oldCfg), Installed, lastOk>>
<1>1. UNCHANGED <<lock, newCfg, oldCfg, lastOk, p, cfg>>
  BY DEF SetToNeedRestart, ApplyManaged, ApplyManagedSkips, CronTick, Request, SaveInbound,
         CommitManaged, UpdateAccessIP, UpdateXray, StopXray, CallRestart, localVars, procVars
<1>2. UNCHANGED st \/ (IsXrayRunning /\ st' = [st EXCEPT ![p] = "killed"])
  BY DEF SetToNeedRestart, ApplyManaged, ApplyManagedSkips, CronTick, Request, SaveInbound,
         CommitManaged, UpdateAccessIP, UpdateXray, StopXray, procVars
<1>3. Installed' = Installed
  BY <1>1, <1>2 DEF Installed, IsXrayRunning, IsRunning, IInv, TypeOK
<1> QED
  BY <1>1, <1>3 DEF OfAttempt

\* A caller changes what is wanted, asks for an attempt, or does both.
LEMMA CallersMap ==
  ASSUME IInv, NEW t \in Threads,
         \/ SetToNeedRestart(t) \/ ApplyManaged(t) \/ ApplyManagedSkips(t)
         \/ CronTick(t) \/ Request(t)
  PROVE  [R!Next]_(R!vars)
<1> USE CallersKeep
<1>1. ASSUME dbCfg' \in Cfgs, Due' = Due \/ Due' = TRUE PROVE [R!Next]_(R!vars)
  BY <1>1 DEF R!Next, R!Change
<1>2. dbCfg' \in Cfgs
  BY DEF SetToNeedRestart, ApplyManaged, ApplyManagedSkips, CronTick, Request, SaveInbound,
         CommitManaged, UpdateAccessIP, UpdateXray, StopXray, IInv, TypeOK
<1>3. CASE SetToNeedRestart(t) \/ ApplyManaged(t) \/ CronTick(t) \/ SaveInbound(t)
           \/ UpdateAccessIP(t) \/ UpdateXray(t)
  <2>1. flag' \/ pc'[t] \in {"saved", "lockwait"}
    BY <1>3 DEF SetToNeedRestart, ApplyManaged, CronTick, SaveInbound, UpdateAccessIP,
                UpdateXray, CallRestart, Goto, IInv, TypeOK
  <2>2. Due'
    BY <2>1 DEF Due
  <2> QED
    BY <1>1, <1>2, <2>2 DEF Due
<1>4. CASE ApplyManagedSkips(t) \/ CommitManaged(t)
  <2>1. Due' = Due
    BY <1>4 DEF ApplyManagedSkips, CommitManaged, Goto, Due, IInv, TypeOK
  <2> QED
    BY <1>1, <1>2, <2>1
<1> QED
  BY <1>3, <1>4 DEF Request

\* The watchdog asks, and the settings change what is wanted.
LEMMA OthersMap ==
  ASSUME IInv, Watchdog \/ UpdateSetting
  PROVE  [R!Next]_(R!vars)
<1>1. UNCHANGED <<OfAttempt(newCfg), OfAttempt(oldCfg), Installed, lastOk>>
  BY DEF Watchdog, UpdateSetting, OfAttempt, Installed, procVars, threadVars, localVars
<1>2. dbCfg' \in Cfgs
  BY DEF Watchdog, UpdateSetting, IInv, TypeOK
<1>3. Due' = Due \/ Due' = TRUE
  BY DEF Watchdog, UpdateSetting, Due, threadVars, IInv, TypeOK
<1> QED
  BY <1>1, <1>2, <1>3 DEF R!Next, R!Change

-----------------------------------------------------------------------------
\* Every step maps to a step of the reconciler, or changes nothing it sees.
LEMMA StepMaps == ASSUME IInv, [Next]_vars PROVE [R!Next]_(R!vars)
<1>1. ASSUME NEW t \in Threads, Proceed(t) PROVE [R!Next]_(R!vars)
  BY <1>1, BuildMaps, InsideMaps, TestFailsMaps, AlreadyInstalledMaps, ReplaceRunningMaps,
     ReplaceStoppedMaps, LaunchMaps, CallersMap DEF Proceed, R!Next
<1>2. ASSUME NEW q \in Procs, Progress(q) PROVE [R!Next]_(R!vars)
  BY <1>2, QuietProcessMaps, EndMaps DEF Progress
<1>3. CASE Fault
  BY <1>3, BuildFaultMaps, TestFailsMaps, StartFaultMaps, EndMaps DEF Fault, R!Next
<1>4. ASSUME NEW t \in Threads, Acquire(t) \/ CronTick(t) \/ Request(t)
      PROVE  [R!Next]_(R!vars)
  BY <1>4, AcquireMaps, CallersMap
<1>5. CASE Watchdog \/ UpdateSetting
  BY <1>5, OthersMap
<1>6. CASE UNCHANGED vars
  <2>1. Installed' = Installed
    BY <1>6 DEF vars, procVars, Installed
  <2> QED
    BY <1>6, <2>1, Unseen DEF vars, threadVars, localVars
<1> QED
  BY <1>1, <1>2, <1>3, <1>4, <1>5, <1>6 DEF Next

\* RestartXray, the process and their callers are a reconciler: success is reported when
\* what the database held at the attempt runs, and then only; what runs is taken down
\* for a tested configuration only, and comes back when the new one cannot be started.
THEOREM Implementation == Spec => Reconciles
<1>1. Spec => R!Init /\ [][R!Next]_(R!vars)
  BY InitMaps, StepMaps, Inductive, PTL DEF Spec
<1> QED
  BY <1>1 DEF Reconciles, R!Spec

-----------------------------------------------------------------------------
(* The panel around the supervision.                                        *)

USE MainAssumption

\* The main goroutine is inside RestartXray only while startTask is.
MainOK ==
    loop # "task" => pc[Main] = "idle"

LifeInv == LifeTypeOK /\ IInv /\ MainOK /\ LeftRunningOnlyLate

-----------------------------------------------------------------------------
(* The steps of the main goroutine that change the state of XrayService.    *)

\* StopXray waits for the mutex, so nobody is inside RestartXray.
LEMMA StopServerXrayInv == ASSUME IInv, StopServerXray PROVE IInv'
<1>1. TypeOK'
  BY DEF IInv, TypeOK, ProcStates, PcStates, Critical, StopServerXray, StopXray,
         IsXrayRunning, IsRunning, threadVars, localVars
<1>2. Locking'
  BY DEF IInv, Locking, Critical, StopServerXray, StopXray, threadVars, localVars
<1>3. LocalsOK'
  BY DEF IInv, TypeOK, LocalsOK, Starting, Critical, Locking, StopServerXray, StopXray,
         IsXrayRunning, IsRunning, threadVars, localVars
<1>4. ProcsOK' /\ FileOK'
  BY DEF IInv, TypeOK, ProcsOK, FileOK, ProcStates, StopServerXray, StopXray,
         IsXrayRunning, IsRunning, threadVars, localVars
<1>5. InstalledOK'
  BY DEF IInv, TypeOK, InstalledOK, Critical, StopServerXray, StopXray, IsXrayRunning,
         IsRunning, threadVars, localVars
<1>6. FaithfulCurrent' /\ NoLostRestart'
  BY DEF IInv, FaithfulCurrent, NoLostRestart, StopServerXray, StopXray, threadVars,
         localVars
<1>7. StrayOnlyFromSpawnRace'
  BY DEF IInv, TypeOK, StrayOnlyFromSpawnRace, Stray, Unreferenced, StopServerXray,
         StopXray, IsXrayRunning, IsRunning, threadVars, localVars
<1> QED
  BY <1>1, <1>2, <1>3, <1>4, <1>5, <1>6, <1>7 DEF IInv

\* The process ends: the goroutines and their locals are gone.
LEMMA EndInv == ASSUME IInv, End PROVE IInv'
<1>1. TypeOK'
  <2>1. st' \in [Procs -> ProcStates] /\ pc' \in [Threads -> PcStates]
    BY DEF IInv, TypeOK, ProcStates, PcStates, End
  <2>2. /\ newCfg' \in [Threads -> Cfgs \cup {NoCfg}]
        /\ oldCfg' \in [Threads -> Cfgs \cup {NoCfg}]
        /\ tgt' \in [Threads -> Procs \cup {NoProc}]
        /\ checkTime' \in 0..1 /\ lock' \in Threads \cup {NoThread}
    BY DEF End
  <2>3. force' \in [Threads -> BOOLEAN]
    <3>1. force' = [t \in Threads |-> FALSE]
      BY DEF End
    <3> QED
      BY <3>1, Zenon
  <2>4. flag' \in BOOLEAN /\ lastOk' \in BOOLEAN /\ owed' \in BOOLEAN /\ silent' \in BOOLEAN
    <3>1. flag' = FALSE /\ lastOk' = FALSE /\ owed' = FALSE /\ silent' = FALSE
      BY Zenon DEF End
    <3> QED
      BY <3>1, Zenon
  <2>5. UNCHANGED <<dbCfg, p, file, cfg, loaded, fin, raced>>
    BY DEF End
  <2> QED
    BY <2>1, <2>2, <2>3, <2>4, <2>5, Zenon DEF IInv, TypeOK
<1>2. Locking' /\ LocalsOK'
  BY DEF Locking, LocalsOK, Starting, Critical, End, IInv, TypeOK
<1>3. ProcsOK' /\ FileOK'
  BY DEF IInv, TypeOK, ProcsOK, FileOK, IsRunning, End, ProcStates
<1>4. InstalledOK' /\ FaithfulCurrent' /\ NoLostRestart'
  BY DEF IInv, InstalledOK, FaithfulCurrent, NoLostRestart, Critical, End
<1>5. StrayOnlyFromSpawnRace'
  BY DEF IInv, TypeOK, LocalsOK, Starting, StrayOnlyFromSpawnRace, Stray, Unreferenced,
         IsRunning, ProcStates, End
<1> QED
  BY <1>1, <1>2, <1>3, <1>4, <1>5 DEF IInv

\* startTask calls RestartXray(true) on a goroutine that is in no other call.
LEMMA StartTaskInv == ASSUME IInv, pc[Main] = "idle", StartTask PROVE IInv'
<1>1. Main \in Threads
  BY DEF Threads
<1> QED
  BY <1>1 DEF IInv, TypeOK, Locking, LocalsOK, ProcsOK, FileOK, InstalledOK, FaithfulCurrent,
       StrayOnlyFromSpawnRace, NoLostRestart, ProcStates, PcStates, Critical, Starting,
       Stray, Unreferenced, StartTask, CallRestart, Goto, procVars

\* A new watchdog starts counting.
LEMMA AddJobsInv == ASSUME IInv, AddJobs PROVE IInv'
BY DEF IInv, TypeOK, Locking, LocalsOK, ProcsOK, FileOK, InstalledOK, FaithfulCurrent,
       StrayOnlyFromSpawnRace, NoLostRestart, ProcStates, PcStates, Critical, Starting,
       Stray, Unreferenced, AddJobs, procVars, threadVars, localVars
-----------------------------------------------------------------------------
(* Where the main goroutine is, and what it leaves running.                 *)

\* Only the goroutine a step belongs to moves.
LEMMA OtherPc ==
    ASSUME IInv, NEW t \in Threads, t # Main,
           Acquire(t) \/ Proceed(t) \/ CronTick(t) \/ Request(t)
    PROVE  pc'[Main] = pc[Main]
BY DEF IInv, TypeOK, Threads, Acquire, Proceed, CronTick, Request, Build, TestPasses,
       TestRejects, AlreadyInstalled, ReplaceRunning, ReplaceStopped, Replace, WriteConfig,
       Launch, StartOk, Rollback, SetToNeedRestart, ApplyManaged, ApplyManagedSkips,
       SaveInbound, CommitManaged, UpdateAccessIP, UpdateXray, CallRestart, Return, Unlock, Goto

\* A goroutine that is in no call has nothing to go on with.
LEMMA IdleStays ==
    ASSUME NEW t \in Threads, pc[t] = "idle"
    PROVE  ~Proceed(t) /\ ~Acquire(t)
BY DEF Acquire, Proceed, Build, TestPasses, TestRejects, AlreadyInstalled, ReplaceRunning,
       ReplaceStopped, WriteConfig, Launch, StartOk, Rollback, SetToNeedRestart, ApplyManaged,
       ApplyManagedSkips

\* What a fault leaves of the goroutine it hits: idle or in the rollback, and never idle before.
LEMMA FaultPc ==
    ASSUME IInv, pc[Main] = "idle", Fault PROVE pc'[Main] = "idle"
BY DEF IInv, TypeOK, Threads, Fault, BuildFault, TestFault, StartFault, StartFails,
       EnterRollback, SpawnFault, Crash, Bury, Return, Unlock, Goto, threadVars

\* MainOK is kept by every step.
LEMMA MainOKInv == ASSUME LifeInv, LifeNext PROVE MainOK'
<1> USE DEF LifeInv, MainOK
<1>0. Main \in Threads /\ Main \notin Crons
  BY DEF Threads
<1>1. ASSUME NEW s, Signal(s) PROVE MainOK'
  BY <1>1 DEF Signal, vars, threadVars
<1>2. CASE Receive
  BY <1>2 DEF Receive, vars, threadVars
<1>3. CASE StopServerXray
  BY <1>3 DEF StopServerXray, threadVars
<1>4. CASE StopCron
  BY <1>4 DEF StopCron, vars, threadVars
<1>5. CASE Exit
  BY <1>0, <1>5 DEF Exit, End
<1>6. CASE StartServer
  BY <1>6 DEF StartServer, vars, threadVars
<1>7. CASE StartTask
  BY <1>7 DEF StartTask
<1>8. CASE AddJobs
  BY <1>8 DEF AddJobs, threadVars
<1>9. CASE StartError
  BY <1>9 DEF StartError, vars, threadVars
<1>10. ASSUME NEW t \in Threads, Enter(t) \/ GoOn(t) PROVE MainOK'
  BY <1>0, <1>10, OtherPc, IdleStays DEF Enter, GoOn, lifeVars
<1>11. ASSUME NEW t \in Threads, Tick(t) PROVE MainOK'
  <2>1. t # Main
    BY <1>0, <1>11 DEF Tick, CronTick
  <2> QED
    BY <2>1, <1>11, OtherPc DEF Tick, lifeVars
<1>12. ASSUME NEW t \in Workers, Ask(t) PROVE MainOK'
  <2>1. t \in Threads /\ t # Main
    BY DEF Workers
  <2>2. CASE Request(t)
    BY <2>1, <2>2, <1>12, OtherPc DEF Ask, lifeVars
  <2>3. CASE UpdateSetting
    BY <2>3, <1>12 DEF Ask, lifeVars, UpdateSetting, threadVars
  <2> QED
    BY <2>2, <2>3, <1>12 DEF Ask
<1>13. ASSUME NEW q \in Procs, Child(q) PROVE MainOK'
  BY <1>13 DEF Child, Progress, Spawn, Boot, BootFails, Reap, Finalize, lifeVars, threadVars
<1>14. CASE Watch
  BY <1>14 DEF Watch, Watchdog, lifeVars, threadVars
<1>15. CASE LifeFault
  BY <1>15, FaultPc DEF LifeFault, lifeVars
<1>16. CASE Killed
  BY <1>0, <1>16 DEF Killed, End
<1>17. CASE Notify
  BY <1>17 DEF Notify, vars, threadVars
<1> QED
  BY <1>1, <1>2, <1>3, <1>4, <1>5, <1>6, <1>7, <1>8, <1>9, <1>10, <1>11, <1>12, <1>13, <1>14,
     <1>15, <1>16, <1>17 DEF LifeNext, MainStep

\* What a step of a goroutine does to the current process: it is the same as before, or
\* a new one, or has just been started.
LEMMA ProceedCurrent ==
    ASSUME IInv, NEW t \in Threads, Proceed(t), ~Started,
           p' # NoProc, st'[p'] \in {"starting", "running"}
    PROVE  p # NoProc /\ st[p] = st'[p']
<1>1. CASE Build(t) \/ TestPasses(t) \/ TestRejects(t) \/ AlreadyInstalled(t) \/ WriteConfig(t)
           \/ SetToNeedRestart(t) \/ ApplyManaged(t) \/ ApplyManagedSkips(t)
  BY <1>1 DEF Build, TestPasses, TestRejects, AlreadyInstalled, WriteConfig,
     SetToNeedRestart, ApplyManaged, ApplyManagedSkips, procVars
<1>2. CASE ReplaceRunning(t) \/ ReplaceStopped(t)
  BY <1>2 DEF ReplaceRunning, ReplaceStopped, Replace, Fresh, IInv, TypeOK, IsXrayRunning,
     IsRunning
<1>3. CASE Launch(t)
  <2>1. tgt[t] \in Procs /\ st[tgt[t]] = "new" /\ st'[tgt[t]] = "starting"
    BY <1>3 DEF Launch, StartOk, IInv, TypeOK, LocalsOK, Starting
  <2> QED
    BY <2>1 DEF Started
<1>4. CASE Rollback(t)
  BY <1>4 DEF Rollback, Fresh, IInv, TypeOK
<1> QED
  BY <1>1, <1>2, <1>3, <1>4 DEF Proceed

\* No other step starts anything: a process that runs or starts was there before.
LEMMA OthersCurrent ==
    ASSUME IInv, p' # NoProc, st'[p'] \in {"starting", "running"},
           \/ \E t \in Threads : Acquire(t) \/ CronTick(t) \/ Request(t)
           \/ \E q \in Procs : Progress(q)
           \/ Watchdog \/ UpdateSetting \/ Fault
    PROVE  p # NoProc /\ st[p] \in {"starting", "running"}
<1>1. ASSUME NEW t \in Threads, Acquire(t) \/ CronTick(t) \/ Request(t)
      PROVE  p # NoProc /\ st[p] \in {"starting", "running"}
  BY <1>1 DEF Acquire, CronTick, Request, SaveInbound, CommitManaged, UpdateAccessIP, UpdateXray,
     StopXray, IInv, TypeOK, IsXrayRunning, IsRunning, procVars
<1>2. ASSUME NEW q \in Procs, Progress(q)
      PROVE  p # NoProc /\ st[p] \in {"starting", "running"}
  BY <1>2 DEF Progress, Spawn, Boot, BootFails, Reap, Finalize, Bury, IInv, TypeOK, IsRunning
<1>3. CASE Watchdog \/ UpdateSetting
  BY <1>3 DEF Watchdog, UpdateSetting, procVars
<1>4. ASSUME NEW t \in Threads, BuildFault(t) \/ TestFault(t) \/ StartFault(t)
      PROVE  p # NoProc /\ st[p] \in {"starting", "running"}
  <2>1. CASE BuildFault(t) \/ TestFault(t)
    BY <2>1 DEF BuildFault, TestFault, procVars
  <2>2. CASE StartFault(t)
    <3>1. p' = p /\ st' = [st EXCEPT ![tgt[t]] = "dead"]
      BY <2>2 DEF StartFault, StartFails, Bury
    <3>2. p \in Procs /\ st \in [Procs -> ProcStates]
      BY <3>1 DEF IInv, TypeOK
    <3> QED
      BY <3>1, <3>2
  <2> QED
    BY <1>4, <2>1, <2>2
<1>5. ASSUME NEW q \in Procs, SpawnFault(q) \/ Crash(q)
      PROVE  p # NoProc /\ st[p] \in {"starting", "running"}
  BY <1>5 DEF SpawnFault, Crash, Bury, IInv, TypeOK
<1> QED
  BY <1>1, <1>2, <1>3, <1>4, <1>5 DEF Fault

\* LeftRunningOnlyLate is kept by every step.
LEMMA LeftRunningInv == ASSUME LifeInv, LifeNext PROVE LeftRunningOnlyLate'
<1> SUFFICES ASSUME loop' \in {"stopcron", "ended"}, p' # NoProc,
                    st'[p'] \in {"starting", "running"}
             PROVE  late' \/ (loop' = "ended" /\ sig' = "off")
  BY DEF LeftRunningOnlyLate
<1> USE DEF LifeInv
<1>1. CASE \/ Receive \/ StopCron \/ StartServer \/ StartTask \/ AddJobs \/ Notify
           \/ StartError \/ Killed
  BY <1>1 DEF Receive, StopCron, StartServer, StartTask, AddJobs, Notify, StartError, Killed, End
<1>2. ASSUME NEW s, Signal(s) PROVE late'
  BY <1>2 DEF Signal, vars, procVars, LeftRunningOnlyLate
<1>3. CASE StopServerXray
  BY <1>3 DEF StopServerXray, StopXray, IInv, TypeOK, IsXrayRunning, IsRunning
<1>4. CASE Exit
  BY <1>4 DEF Exit, End, IInv, TypeOK, IsRunning, LeftRunningOnlyLate
<1>5. ASSUME NEW t \in Threads, GoOn(t) PROVE late'
  <2>1. loop = "stopcron"
    BY <1>5 DEF GoOn, Alive
  <2> QED
    BY <1>5, <2>1, ProceedCurrent DEF GoOn, LeftRunningOnlyLate
<1>6. CASE \/ \E t \in Threads : Enter(t) \/ Tick(t)
           \/ \E t \in Workers : Ask(t)
           \/ \E q \in Procs : Child(q)
           \/ Watch \/ LifeFault
  <2>1. UNCHANGED lifeVars
    BY <1>6 DEF Enter, Tick, Ask, Child, Watch, LifeFault
  <2>2. p # NoProc /\ st[p] \in {"starting", "running"}
    BY <1>6, OthersCurrent DEF Enter, Tick, Ask, Child, Watch, LifeFault, Workers
  <2> QED
    BY <2>1, <2>2 DEF lifeVars, LeftRunningOnlyLate
<1> QED
  BY <1>1, <1>2, <1>3, <1>4, <1>5, <1>6 DEF LifeNext, MainStep

\* Every step keeps the invariant of the supervision.
LEMMA LifeIInv == ASSUME LifeInv, LifeNext PROVE IInv'
<1> USE DEF LifeInv
<1>1. CASE \/ Receive \/ StopCron \/ StartServer \/ StartError \/ Notify
           \/ \E s \in {"hup", "term"} : Signal(s)
  BY <1>1, StutterInv DEF Receive, StopCron, StartServer, StartError, Notify, Signal
<1>2. CASE StopServerXray \/ Exit \/ Killed \/ AddJobs
  BY <1>2, StopServerXrayInv, EndInv, AddJobsInv DEF Exit, Killed
<1>3. CASE StartTask
  BY <1>3, StartTaskInv DEF StartTask, MainOK
<1>4. CASE \/ \E t \in Threads : Enter(t) \/ GoOn(t) \/ Tick(t)
           \/ \E t \in Workers : Ask(t)
           \/ \E q \in Procs : Child(q)
           \/ Watch \/ LifeFault
  <2>1. Next
    BY <1>4 DEF Enter, GoOn, Tick, Ask, Child, Watch, LifeFault, Workers, Next
  <2> QED
    BY <2>1, NextInv
<1> QED
  BY <1>1, <1>2, <1>3, <1>4 DEF LifeNext, MainStep

\* Every step keeps the types of the life cycle's own variables.
LEMMA LifeTypeInv == ASSUME LifeInv, LifeNext PROVE LifeTypeOK'
BY Zenon DEF LifeInv, LifeTypeOK, LifeNext, MainStep, Signal, Receive, StopServerXray, StopCron, Exit,
   Killed, End, StartServer, StartError, StartTask, AddJobs, Notify, Enter, GoOn, Tick, Ask, Child, Watch, LifeFault,
   lifeVars

-----------------------------------------------------------------------------
(* The theorems.                                                            *)

\* The life cycle of the panel keeps the invariant of the supervision and its own.
THEOREM LifeInductive == LifeSpec => []LifeInv
<1>1. LifeInit => LifeInv
  <2> SUFFICES ASSUME LifeInit PROVE LifeInv
    OBVIOUS
  <2>1. IInv
    BY InitIInv DEF LifeInit
  <2>2. LifeTypeOK
    BY DEF LifeInit, LifeTypeOK
  <2>3. MainOK /\ LeftRunningOnlyLate
    BY DEF LifeInit, MainOK, LeftRunningOnlyLate
  <2> QED
    BY <2>1, <2>2, <2>3 DEF LifeInv
<1>2. ASSUME LifeInv, [LifeNext]_allVars PROVE LifeInv'
  <2>1. CASE LifeNext
    BY <1>2, <2>1, MainOKInv, LeftRunningInv, LifeIInv, LifeTypeInv DEF LifeInv
  <2>2. CASE UNCHANGED allVars
    <3>1. IInv'
      BY <1>2, <2>2, StutterInv DEF allVars, LifeInv
    <3>2. MainOK' /\ LeftRunningOnlyLate'
      BY <1>2, <2>2 DEF allVars, vars, lifeVars, threadVars, procVars, LifeInv, MainOK,
         LeftRunningOnlyLate
    <3>3. LifeTypeOK'
      BY <1>2, <2>2 DEF allVars, lifeVars, LifeInv, LifeTypeOK
    <3> QED
      BY <3>1, <3>2, <3>3 DEF LifeInv
  <2> QED
    BY <1>2, <2>1, <2>2
<1> QED
  BY <1>1, <1>2, PTL DEF LifeSpec

\* A panel that stops leaves an xray running only through the two windows late names, and
\* one that ends without stopping only when a signal came before signal.Notify.
THEOREM LeavesNothingRunning == LifeSpec => []LeftRunningOnlyLate
<1>1. LifeInv => LeftRunningOnlyLate
  BY DEF LifeInv
<1> QED
  BY <1>1, LifeInductive, PTL

\* What holds of the supervision alone holds across restarts and ends of the panel: no
\* restart of an inbound change is lost, nothing untested runs, and control of a live xray is
\* lost in the spawn window only.
THEOREM SupervisionSurvives ==
    LifeSpec => [](NoLostRestart /\ FaithfulCurrent /\ OnlyTestedRuns /\ StrayOnlyFromSpawnRace)
<1>1. LifeInv => NoLostRestart /\ FaithfulCurrent /\ OnlyTestedRuns /\ StrayOnlyFromSpawnRace
  BY DEF LifeInv, IInv, ProcsOK, OnlyTestedRuns
<1> QED
  BY <1>1, LifeInductive, PTL
=============================================================================
