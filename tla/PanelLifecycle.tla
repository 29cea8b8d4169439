---------------------------- MODULE PanelLifecycle ----------------------------
(***************************************************************************)
(* The panel's own life around the supervision of xray: the signal loop of *)
(* main.go, and Start, startTask and Stop of web/web.go, composed with the *)
(* goroutines of XrayService.                                              *)
(*                                                                         *)
(* What survives a SIGHUP is what XrayService keeps in package variables:  *)
(* the process, the mutex, the restart flag and the goroutines under way.  *)
(* The cron jobs and the watchdog's count do not.  Shutdown is called with *)
(* a cancelled context and cron.Stop does not wait: requests and jobs that *)
(* have begun go on beside a stopping panel, until the process ends.       *)
(***************************************************************************)
EXTENDS XrayService

CONSTANT Main    \* the main goroutine

ASSUME MainAssumption == Main \in Admins

VARIABLES
    loop,      \* where the main goroutine stands
    sig,       \* sigCh, which holds one signal; "off" until signal.Notify is called
    leaving,   \* the Stop under way is the last
    cronOn,    \* the cron of the current server runs
    late       \* history: since the StopXray of this Stop xray was started again, or
               \* StopXray found a process that was not spawned yet

lifeVars == <<loop, sig, leaving, cronOn, late>>
allVars  == <<vars, lifeVars>>

Workers == Threads \ {Main}
Alive   == loop # "ended"

LifeTypeOK ==
    /\ loop \in {"task", "notify", "serving", "stopxray", "stopcron", "start", "listen", "ended"}
    /\ sig \in {"off", "none", "hup", "term"}
    /\ {leaving, cronOn, late} \subseteq BOOLEAN

-----------------------------------------------------------------------------
(* Signals.                                                                 *)

\* Bug: the last signal is kept, not the first.
SignalReplacing(s) ==
    /\ Alive /\ sig # "off"
    /\ sig' = s
    /\ UNCHANGED <<vars, loop, leaving, cronOn, late>>

\* RestartPanel, or the system, signals: what does not fit into sigCh is dropped.
Signal(s) ==
    /\ Alive /\ sig # "off"
    /\ sig' = IF sig = "none" THEN s ELSE sig
    /\ UNCHANGED <<vars, loop, leaving, cronOn, late>>

\* The loop takes a signal: Stop, and Start again after a SIGHUP.
Receive ==
    /\ loop = "serving" /\ sig # "none"
    /\ leaving' = (sig = "term")
    /\ sig' = "none" /\ loop' = "stopxray" /\ late' = FALSE
    /\ UNCHANGED <<vars, cronOn>>

\* The process ends with its goroutines and its memory.  What was spawned runs on.
End ==
    /\ loop' = "ended" /\ cronOn' = FALSE
    /\ flag' = FALSE /\ lock' = NoThread /\ checkTime' = 0
    /\ pc' = [t \in Threads |-> "idle"] /\ force' = [t \in Threads |-> FALSE]
    /\ newCfg' = [t \in Threads |-> NoCfg] /\ oldCfg' = [t \in Threads |-> NoCfg]
    /\ tgt' = [t \in Threads |-> NoProc]
    /\ st' = [q \in Procs |-> IF IsRunning(q) THEN st[q] ELSE "dead"]
    /\ owed' = FALSE /\ silent' = FALSE /\ lastOk' = FALSE
    /\ UNCHANGED <<dbCfg, p, file, cfg, loaded, fin, raced, leaving, late>>

\* Nobody has asked for signals while the first Start runs: a SIGTERM, or the SIGHUP of
\* a RestartPanel, ends the process there and then.
Killed ==
    /\ Alive /\ sig = "off"
    /\ End
    /\ UNCHANGED sig

-----------------------------------------------------------------------------
(* Stop.                                                                    *)

\* Bug: xray is left running.
StopWithoutXray ==
    /\ loop = "stopxray"
    /\ loop' = "stopcron"
    /\ UNCHANGED <<vars, sig, leaving, cronOn, late>>

\* StopXray, which waits for the RestartXray under way.
StopServerXray ==
    /\ loop = "stopxray"
    /\ StopXray /\ UNCHANGED threadVars
    /\ late' = (p # NoProc /\ st[p] = "starting")
    /\ loop' = "stopcron"
    /\ UNCHANGED <<sig, leaving, cronOn>>

\* cron.Stop, Shutdown and Close, and a new server after a SIGHUP.
StopCron ==
    /\ loop = "stopcron" /\ ~leaving
    /\ cronOn' = FALSE /\ late' = FALSE
    /\ loop' = "start"
    /\ UNCHANGED <<vars, sig, leaving>>

\* Otherwise runWebServer returns.  What was spawned is left to x-ui.service, which
\* kills its control group.
Exit ==
    /\ loop = "stopcron" /\ leaving
    /\ End
    /\ sig' = "none"

-----------------------------------------------------------------------------
(* Start.                                                                   *)

\* Bug: the new server runs without its cron.
StartServerWithoutCron ==
    /\ loop = "start"
    /\ loop' = "listen"
    /\ UNCHANGED <<vars, sig, leaving, cronOn, late>>

\* A new cron, and initRouter, whose controllers register the restart job.
StartServer ==
    /\ loop = "start"
    /\ cronOn' = TRUE
    /\ loop' = "listen"
    /\ UNCHANGED <<vars, sig, leaving, late>>

\* A setting, the port or the certificate refuses: Start stops what it started, and
\* returns the error to runWebServer, which returns.
StartError ==
    /\ loop = "listen"
    /\ leaving' = TRUE /\ late' = FALSE
    /\ loop' = "stopxray"
    /\ UNCHANGED <<vars, sig, cronOn>>

\* The panel listens; startTask calls RestartXray(true) itself,
StartTask ==
    /\ loop = "listen"
    /\ CallRestart(Main, TRUE)
    /\ loop' = "task"
    /\ UNCHANGED <<dbCfg, flag, lock, p, file, checkTime, procVars, lastOk, owed, silent,
                   sig, leaving, cronOn, late>>

\* ... and adds a new watchdog when that has returned, with or without an error.
AddJobs ==
    /\ loop = "task" /\ pc[Main] = "idle"
    /\ checkTime' = 0
    /\ loop' = IF sig = "off" THEN "notify" ELSE "serving"
    /\ UNCHANGED <<dbCfg, flag, lock, p, file, procVars, threadVars, lastOk, owed, silent,
                   sig, leaving, cronOn, late>>

\* The first Start has returned, and only now sigCh is registered.
Notify ==
    /\ loop = "notify"
    /\ loop' = "serving" /\ sig' = "none"
    /\ UNCHANGED <<vars, leaving, cronOn, late>>

-----------------------------------------------------------------------------
(* The goroutines of XrayService beside it.                                 *)

Started == \E q \in Procs : st[q] = "new" /\ st'[q] = "starting"

\* What has begun goes on; what it starts after StopXray stays.
GoOn(t) ==
    /\ Alive
    /\ Proceed(t)
    /\ late' = (late \/ (loop = "stopcron" /\ Started))
    /\ UNCHANGED <<loop, sig, leaving, cronOn>>

Enter(t) == Alive /\ Acquire(t) /\ UNCHANGED lifeVars
Tick(t)  == Alive /\ cronOn /\ CronTick(t) /\ UNCHANGED lifeVars

Watch ==
    /\ cronOn /\ loop \in {"notify", "serving", "stopxray", "stopcron"}
    /\ Watchdog /\ UNCHANGED lifeVars

\* Handlers and DisableInvalidInbounds; one that began before Stop may write after it.
Ask(t)     == Alive /\ (Request(t) \/ UpdateSetting) /\ UNCHANGED lifeVars
Child(q)   == Alive /\ Progress(q) /\ UNCHANGED lifeVars
LifeFault  == Alive /\ Fault /\ UNCHANGED lifeVars

\* The first Start listens and has just called RestartXray(true).
LifeInit ==
    /\ Init /\ pc[Main] = "lockwait"
    /\ loop = "task" /\ sig = "off" /\ leaving = FALSE
    /\ cronOn = TRUE /\ late = FALSE

MainStep == StopCron \/ Exit \/ StartServer \/ StartTask \/ AddJobs \/ Notify

LifeNext ==
    \/ \E s \in {"hup", "term"} : Signal(s)
    \/ Killed
    \/ Receive \/ StopServerXray \/ MainStep \/ StartError
    \/ \E t \in Threads : Enter(t) \/ GoOn(t) \/ Tick(t)
    \/ \E t \in Workers : Ask(t)
    \/ \E q \in Procs : Child(q)
    \/ Watch \/ LifeFault

LifeSpec == LifeInit /\ [][LifeNext]_allVars

\* As in XrayService; the main goroutine runs too, and gets the mutex it waits for.
LifeFairness ==
    /\ \A t \in Threads : WF_allVars(GoOn(t)) /\ SF_allVars(Enter(t))
    /\ WF_allVars(\E t \in Crons : Tick(t))
    /\ WF_allVars(Watch)
    /\ \A q \in Procs : WF_allVars(Child(q))
    /\ WF_allVars(Receive) /\ SF_allVars(StopServerXray) /\ WF_allVars(MainStep)

FairLife == LifeSpec /\ LifeFairness

-----------------------------------------------------------------------------
(* Properties.                                                              *)

\* A panel that stops, or has ended, leaves an xray running that it controls only in
\* three cases: StopXray came while that one was not spawned yet, a RestartXray that was
\* waiting for StopXray has started it again, or a signal came during the first Start,
\* before signal.Notify, and ended the panel without any StopXray.
LeftRunningOnlyLate ==
    loop \in {"stopcron", "ended"} /\ p # NoProc /\ st[p] \in {"starting", "running"}
    => late \/ (loop = "ended" /\ sig = "off")

\* The goroutines and the main goroutine never wait for each other for ever: a SIGTERM
\* that has reached the channel ends the panel, whatever SIGHUPs, restarts of xray and
\* failures come before it.
TermEnds == sig = "term" ~> loop = "ended"

\* Restarts of the panel never break the healing: once requests, faults and signals
\* have stopped, a living panel has its xray serving for good.
LifeQuiet ==
    /\ ~LifeFault /\ ~StartError /\ ~Killed /\ \A t \in Workers : ~Ask(t)
    /\ \A s \in {"hup", "term"} : ~Signal(s)

HealsAcrossRestarts ==
    (<>[][LifeQuiet]_allVars /\ <>[](dbCfg \in ValidCfgs /\ Strays = {}))
        => <>[](loop = "ended" \/ Serves)
===============================================================================
