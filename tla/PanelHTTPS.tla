----------------------------- MODULE PanelHTTPS -----------------------------
(***************************************************************************)
(* Switching the panel between HTTP and HTTPS: web/service/cert.go (upload,*)
(* issue, enable, disable, with the roll-back), web/service/panel.go (the  *)
(* delayed SIGHUP), main.go (the signal loop) and Start, Stop and          *)
(* resolveHTTPSConfig of web/web.go.                                       *)
(*                                                                         *)
(* A certificate and its key are files with the same number.  The settings *)
(* told apart are webCertFile, webKeyFile and webCertMode; each Set* call  *)
(* is a transaction of its own, and nothing serialises the requests.       *)
(* What a request reads before its first write is one step.                *)
(***************************************************************************)
EXTENDS Naturals, FiniteSets

CONSTANTS
    Requests,     \* request goroutines
    MaxRequests,  \* bound: requests begun
    MaxTimers,    \* bound: restarts a goroutine has pending
    MaxFaults     \* bound: errors, kills, and files deleted

ASSUME BoundAssumption == {MaxRequests, MaxTimers, MaxFaults} \subseteq Nat

VARIABLES
    conf,      \* settings: [cert, key : Paths, mode : Modes]
    files,     \* [Pairs -> [crt, key]]: numbers, 0 when missing
    begun,     \* requests so far, which also numbers their certificates
    loopback,  \* webListen lets 127.0.0.1 reach the panel
    panel,     \* where the main goroutine stands
    boot,      \* the paths a Start in progress has read
    serves,    \* the listener: "closed", "http" or "https"
    sig,       \* a SIGHUP waits in sigCh, which holds one
    timers,    \* RestartPanel: signals to be sent, per goroutine that asked
    pc, op, goal, snap, back,  \* per request: place, operation, settings to write,
    made,                      \* snapshot, rolling back, number of its certificate
    faults,
    unread,    \* history: a restart was asked for and the settings not read since
    hurried    \* history: a switch began, or its probe gave up, before the last restart was
               \* over, or a fault hit one

reqVars   == <<pc, op, goal, snap, back, made>>
mainVars  == <<panel, boot, serves, sig>>
ghostVars == <<unread, hurried>>
httpsVars == <<conf, files, begun, loopback, mainVars, timers, reqVars, faults, ghostVars>>

Pairs == {"manual", "acme"}          \* panel.crt/.key and acme-panel.crt/.key
Paths == Pairs \cup {"none"}
Modes == {"none", "manual", "acme_http"}
Conf  == [cert : Paths, key : Paths, mode : Modes]
HTTP  == [cert |-> "none", key |-> "none", mode |-> "none"]
Versions == 0..MaxRequests
Steps == {"idle", "crt", "key", "capture", "setcert", "setkey", "setmode", "restart", "wait"}

HTTPSTypeOK ==
    /\ conf \in Conf /\ loopback \in BOOLEAN
    /\ files \in [Pairs -> [crt : Versions, key : Versions]] /\ begun \in Versions
    /\ panel \in {"up", "stopped", "readkey", "load", "down"}
    /\ boot \in [cert : Paths, key : Paths]
    /\ serves \in {"closed", "http", "https"} /\ sig \in BOOLEAN
    /\ timers \in [Requests -> 0..MaxTimers]
    /\ pc \in [Requests -> Steps]
    /\ op \in [Requests -> {"none", "upload", "issue", "enable", "disable"}]
    /\ goal \in [Requests -> Conf] /\ snap \in [Requests -> Conf]
    /\ back \in [Requests -> BOOLEAN] /\ made \in [Requests -> Versions]
    /\ faults \in 0..MaxFaults
    /\ unread \in BOOLEAN /\ hurried \in BOOLEAN

Exist(c)  == c.cert # "none" /\ c.key # "none"
               /\ files[c.cert].crt # 0 /\ files[c.key].key # 0
Match(c)  == files[c.cert].crt = files[c.key].key

\* readCertificateInfoFromFiles looks at the key only when there is one.
Readable(c) == files[c.cert].crt # 0 /\ (files[c.key].key # 0 => Match(c))
IsHTTPS(c) == c.cert # "none" /\ c.key # "none"
PairOf(p, m) == [cert |-> p, key |-> p, mode |-> m]

Pending == sig \/ panel # "up" \/ \E t \in Requests : timers[t] > 0
Idle    == \A t \in Requests : pc[t] = "idle"

-----------------------------------------------------------------------------
(* Requests.                                                                *)

Goto(t, l) == pc' = [pc EXCEPT ![t] = l]

Finish(t) ==
    /\ Goto(t, "idle")
    /\ op' = [op EXCEPT ![t] = "none"]
    /\ goal' = [goal EXCEPT ![t] = HTTP]
    /\ snap' = [snap EXCEPT ![t] = HTTP]
    /\ back' = [back EXCEPT ![t] = FALSE]
    /\ made' = [made EXCEPT ![t] = 0]

\* A handler starts: only a panel that has served can have taken the request.
Begin(t, what, step, g) ==
    /\ pc[t] = "idle" /\ panel = "up" /\ begun < MaxRequests
    /\ begun' = begun + 1
    /\ Goto(t, step)
    /\ op' = [op EXCEPT ![t] = what]
    /\ goal' = [goal EXCEPT ![t] = g]
    /\ hurried' = (hurried \/ Pending \/ ~Idle)
    /\ UNCHANGED <<conf, loopback, mainVars, timers, back, faults, unread>>

\* UploadCertificate has checked that the two belong together.
Upload(t) ==
    /\ Begin(t, "upload", "crt", PairOf("manual", "manual"))
    /\ made' = [made EXCEPT ![t] = begun + 1]
    /\ UNCHANGED <<files, snap>>

\* IssueHTTP: acme.sh has a new certificate and installs it in the panel's directory.
IssueHTTP(t) ==
    /\ Begin(t, "issue", "crt", PairOf("acme", "acme_http"))
    /\ made' = [made EXCEPT ![t] = begun + 1]
    /\ UNCHANGED <<files, snap>>

\* The pair that is configured, or the one of the mode.
EnablePaths ==
    IF IsHTTPS(conf) THEN [conf EXCEPT !.mode = IF @ = "none" THEN "manual" ELSE @]
    ELSE IF conf.mode = "acme_http" THEN PairOf("acme", "acme_http")
    ELSE PairOf("manual", "manual")

\* EnableHTTPS: resolveEnablePaths.
EnableHTTPS(t) ==
    /\ IsHTTPS(conf) \/ conf.mode # "none"
    /\ Exist(EnablePaths)
    /\ Begin(t, "enable", "capture", EnablePaths)
    /\ UNCHANGED <<files, snap, made>>

\* DisableHTTPS takes its snapshot and writes.
DisableHTTPS(t) ==
    /\ Begin(t, "disable", "setcert", HTTP)
    /\ snap' = [snap EXCEPT ![t] = conf]
    /\ UNCHANGED <<files, made>>

WriteFile(t, step, next, pair) ==
    /\ pc[t] = step
    /\ files' = [files EXCEPT ![goal[t].cert] = pair]
    /\ Goto(t, next)
    /\ UNCHANGED <<conf, begun, loopback, mainVars, timers, op, goal, snap, back, made, faults,
                   ghostVars>>

\* The certificate file is written, and then the key file.
WriteCert(t) == WriteFile(t, "crt", "key", [files[goal[t].cert] EXCEPT !.crt = made[t]])

Written(t) == IF op[t] = "upload" THEN "setcert" ELSE "capture"

\* Bug: a key file that exists is kept.
WriteKeyOnce(t) ==
    WriteFile(t, "key", Written(t),
              [files[goal[t].cert] EXCEPT !.key = IF @ = 0 THEN made[t] ELSE @])

WriteKey(t) == WriteFile(t, "key", Written(t), [files[goal[t].cert] EXCEPT !.key = made[t]])

\* applyHTTPSCertificate: the snapshot, and the pair is checked.
Capture(t) ==
    /\ pc[t] = "capture" /\ Readable(goal[t])
    /\ snap' = [snap EXCEPT ![t] = conf]
    /\ Goto(t, "setcert")
    /\ UNCHANGED <<conf, files, begun, loopback, mainVars, timers, op, goal, back, made, faults,
                   ghostVars>>

CaptureRefuses(t) ==
    /\ pc[t] = "capture" /\ ~Readable(goal[t])
    /\ Finish(t)
    /\ UNCHANGED <<conf, files, begun, loopback, mainVars, timers, faults, ghostVars>>

SetCertFile(t) ==
    /\ pc[t] = "setcert"
    /\ conf' = [conf EXCEPT !.cert = goal[t].cert]
    /\ Goto(t, "setkey")
    /\ UNCHANGED <<files, begun, loopback, mainVars, timers, op, goal, snap, back, made, faults,
                   ghostVars>>

\* Bug: restoreSettings forgets the key file.
SetKeyFileForward(t) ==
    /\ pc[t] = "setkey"
    /\ conf' = IF back[t] THEN conf ELSE [conf EXCEPT !.key = goal[t].key]
    /\ Goto(t, "setmode")
    /\ UNCHANGED <<files, begun, loopback, mainVars, timers, op, goal, snap, back, made, faults,
                   ghostVars>>

SetKeyFile(t) ==
    /\ pc[t] = "setkey"
    /\ conf' = [conf EXCEPT !.key = goal[t].key]
    /\ Goto(t, "setmode")
    /\ UNCHANGED <<files, begun, loopback, mainVars, timers, op, goal, snap, back, made, faults,
                   ghostVars>>

\* The mode left by DisableHTTPS names the files that could be enabled again.
DisabledMode(t) ==
    IF snap[t].mode = "acme_http" /\ Exist(PairOf("acme", "acme_http")) THEN "acme_http"
    ELSE IF Exist(PairOf("manual", "manual")) THEN "manual" ELSE "none"

SetWebCertMode(t) ==
    /\ pc[t] = "setmode"
    /\ conf' = [conf EXCEPT !.mode =
                  IF op[t] = "disable" /\ ~back[t] THEN DisabledMode(t) ELSE goal[t].mode]
    /\ IF op[t] = "upload" THEN Finish(t)
                           ELSE Goto(t, "restart") /\ UNCHANGED <<op, goal, snap, back, made>>
    /\ UNCHANGED <<files, begun, loopback, mainVars, timers, faults, ghostVars>>

\* RestartPanel: a goroutine that sleeps and then sends SIGHUP.
RestartPanel(t) ==
    /\ pc[t] = "restart" /\ timers[t] < MaxTimers
    /\ timers' = [timers EXCEPT ![t] = @ + 1]
    /\ unread' = TRUE
    /\ Goto(t, "wait")
    /\ UNCHANGED <<conf, files, begun, loopback, mainVars, op, goal, snap, back, made, faults, hurried>>

\* restartPanel of the settings page, which waits for nothing.
ReloadRequest(t) ==
    /\ pc[t] = "idle" /\ panel = "up" /\ begun < MaxRequests /\ timers[t] < MaxTimers
    /\ begun' = begun + 1
    /\ timers' = [timers EXCEPT ![t] = @ + 1]
    /\ unread' = TRUE
    /\ hurried' = (hurried \/ Pending \/ ~Idle)
    /\ UNCHANGED <<conf, files, loopback, mainVars, reqVars, faults>>

\* The probe on 127.0.0.1: a listener answers, the new one or still the old one.
Ready(t) ==
    /\ loopback /\ panel = "up"
    /\ serves = IF IsHTTPS(goal[t]) THEN "https" ELSE "http"

ProbeOk(t) ==
    /\ pc[t] = "wait" /\ Ready(t)
    /\ Finish(t)
    /\ UNCHANGED <<conf, files, begun, loopback, mainVars, timers, faults, ghostVars>>

\* Bug: the roll-back is itself rolled back.
ProbeTimeoutForEver(t) ==
    /\ pc[t] = "wait" /\ ~Ready(t) /\ timers[t] = 0
    /\ goal' = [goal EXCEPT ![t] = snap[t]]
    /\ back' = [back EXCEPT ![t] = TRUE]
    /\ Goto(t, "setcert")
    /\ hurried' = (hurried \/ Pending)
    /\ UNCHANGED <<conf, files, begun, loopback, mainVars, timers, op, snap, made, faults,
                   unread>>

\* Nothing has answered for 15 s, long after the signal was sent: rollbackListenerState,
\* or the end of it.
ProbeTimeout(t) ==
    /\ pc[t] = "wait" /\ ~Ready(t) /\ timers[t] = 0
    /\ IF back[t]
       THEN Finish(t)
       ELSE /\ goal' = [goal EXCEPT ![t] = snap[t]]
            /\ back' = [back EXCEPT ![t] = TRUE]
            /\ Goto(t, "setcert")
            /\ UNCHANGED <<op, snap, made>>
    /\ hurried' = (hurried \/ Pending)
    /\ UNCHANGED <<conf, files, begun, loopback, mainVars, timers, faults, unread>>

-----------------------------------------------------------------------------
(* The main goroutine.                                                      *)

\* A signal that does not fit into the channel is dropped.
SendSIGHUP(t) ==
    /\ timers[t] > 0
    /\ timers' = [timers EXCEPT ![t] = @ - 1]
    /\ sig' = TRUE
    /\ UNCHANGED <<conf, files, begun, loopback, panel, boot, serves, reqVars, faults,
                   ghostVars>>

\* Stop: the listener is closed; handlers in progress go on, the context of Shutdown
\* being cancelled.
Stop ==
    /\ panel = "up" /\ sig
    /\ sig' = FALSE
    /\ panel' = "stopped" /\ serves' = "closed"
    /\ UNCHANGED <<conf, files, begun, loopback, boot, timers, reqVars, faults, ghostVars>>

\* resolveHTTPSConfig reads the two settings one after the other.
GetCertFile ==
    /\ panel = "stopped"
    /\ boot' = [boot EXCEPT !.cert = conf.cert]
    /\ unread' = FALSE
    /\ panel' = "readkey"
    /\ UNCHANGED <<conf, files, begun, loopback, serves, sig, timers, reqVars, faults, hurried>>

\* disableHTTPSForMissingFiles when a file is gone.
GetKeyFile ==
    /\ panel = "readkey"
    /\ LET b == [boot EXCEPT !.key = conf.key] IN
       IF ~IsHTTPS(b) \/ Exist(b)
       THEN boot' = b /\ UNCHANGED conf
       ELSE boot' = [cert |-> "none", key |-> "none"] /\ conf' = HTTP
    /\ panel' = "load"
    /\ UNCHANGED <<files, begun, loopback, serves, sig, timers, reqVars, faults, ghostVars>>

\* The process is gone, with its requests and timers, and no unit restarts it.
Exit ==
    /\ panel' = "down" /\ serves' = "closed" /\ sig' = FALSE
    /\ boot' = [cert |-> "none", key |-> "none"]
    /\ timers' = [t \in Requests |-> 0]
    /\ pc' = [t \in Requests |-> "idle"]
    /\ op' = [t \in Requests |-> "none"]
    /\ goal' = [t \in Requests |-> HTTP] /\ snap' = [t \in Requests |-> HTTP]
    /\ back' = [t \in Requests |-> FALSE] /\ made' = [t \in Requests |-> 0]
    /\ unread' = FALSE
    /\ UNCHANGED <<conf, files, begun, loopback>>

Listen ==
    /\ panel = "load"
    /\ IF IsHTTPS(boot) THEN Exist(boot) /\ Match(boot) /\ serves' = "https" ELSE serves' = "http"
    /\ panel' = "up" /\ boot' = [cert |-> "none", key |-> "none"]
    /\ UNCHANGED <<conf, files, begun, loopback, sig, timers, reqVars, faults, ghostVars>>

\* LoadX509KeyPair fails, Start returns the error, and runWebServer returns.
StartFails ==
    /\ panel = "load" /\ IsHTTPS(boot) /\ ~(Exist(boot) /\ Match(boot))
    /\ Exit
    /\ UNCHANGED <<faults, hurried>>

\* Somebody starts the panel again.
StartPanel ==
    /\ panel = "down"
    /\ panel' = "stopped"
    /\ UNCHANGED <<conf, files, begun, loopback, boot, serves, sig, timers, reqVars, faults,
                   ghostVars>>

-----------------------------------------------------------------------------
(* Faults.                                                                  *)

Fault == faults < MaxFaults /\ faults' = faults + 1

\* A setting cannot be saved: a switch returns at once, a roll-back goes on.
SetFails(t) ==
    /\ Fault /\ hurried' = TRUE
    /\ pc[t] \in {"setcert", "setkey", "setmode"}
    /\ IF ~back[t] THEN Finish(t)
       ELSE /\ Goto(t, CASE pc[t] = "setcert" -> "setkey" [] pc[t] = "setkey" -> "setmode"
                         [] OTHER -> "restart")
            /\ UNCHANGED <<op, goal, snap, back, made>>
    /\ UNCHANGED <<conf, files, begun, loopback, mainVars, timers, unread>>

\* A file cannot be written or is refused once it is (no full chain), or a setting
\* cannot be read: the request returns at once.
WriteFails(t) ==
    /\ Fault /\ hurried' = TRUE
    /\ pc[t] \in {"crt", "key", "capture"}
    /\ Finish(t)
    /\ UNCHANGED <<conf, files, begun, loopback, mainVars, timers, unread>>

\* The port is taken, or a setting cannot be read.
StartError ==
    /\ Fault /\ hurried' = TRUE
    /\ panel \in {"stopped", "readkey", "load"}
    /\ Exit

Killed ==
    /\ Fault /\ hurried' = TRUE
    /\ panel # "down"
    /\ Exit

\* Somebody deletes files; a start under way or a request may be in the middle of them.
DeleteFiles ==
    /\ Fault
    /\ \E p \in Pairs, gone \in SUBSET {"crt", "key"} \ {{}} :
         files' = [files EXCEPT ![p] = [crt |-> IF "crt" \in gone THEN 0 ELSE @.crt,
                                        key |-> IF "key" \in gone THEN 0 ELSE @.key]]
    /\ hurried' = (hurried \/ panel \notin {"up", "down"} \/ ~Idle)
    /\ UNCHANGED <<conf, begun, loopback, mainVars, timers, reqVars, unread>>

-----------------------------------------------------------------------------
\* A panel as installed, listening where it was told to.
HTTPSInit ==
    /\ conf = HTTP /\ files = [p \in Pairs |-> [crt |-> 0, key |-> 0]] /\ begun = 0
    /\ loopback \in BOOLEAN
    /\ panel = "up" /\ boot = [cert |-> "none", key |-> "none"] /\ serves = "http" /\ sig = FALSE
    /\ timers = [t \in Requests |-> 0]
    /\ pc = [t \in Requests |-> "idle"] /\ op = [t \in Requests |-> "none"]
    /\ goal = [t \in Requests |-> HTTP] /\ snap = [t \in Requests |-> HTTP]
    /\ back = [t \in Requests |-> FALSE] /\ made = [t \in Requests |-> 0]
    /\ faults = 0 /\ unread = FALSE /\ hurried = FALSE

Request(t) == \/ Upload(t) \/ IssueHTTP(t) \/ EnableHTTPS(t) \/ DisableHTTPS(t)
              \/ ReloadRequest(t)

Proceed(t) ==
    \/ WriteCert(t) \/ WriteKey(t) \/ Capture(t) \/ CaptureRefuses(t)
    \/ SetCertFile(t) \/ SetKeyFile(t) \/ SetWebCertMode(t)
    \/ RestartPanel(t) \/ ProbeOk(t) \/ ProbeTimeout(t)

Main == Stop \/ GetCertFile \/ GetKeyFile \/ Listen \/ StartFails

HTTPSNext ==
    \/ \E t \in Requests : \/ Request(t) \/ Proceed(t) \/ SendSIGHUP(t)
                           \/ SetFails(t) \/ WriteFails(t)
    \/ Main \/ StartPanel \/ StartError \/ Killed \/ DeleteFiles

HTTPSSpec == HTTPSInit /\ [][HTTPSNext]_httpsVars

\* Goroutines run and timers fire; nobody has to start the panel again.
Fairness ==
    /\ \A t \in Requests : WF_httpsVars(Proceed(t)) /\ WF_httpsVars(SendSIGHUP(t))
    /\ WF_httpsVars(Main)

HTTPSFairSpec == HTTPSSpec /\ Fairness

-----------------------------------------------------------------------------
(* Properties.                                                              *)

\* A panel whose switches neither overlapped nor were hit by a fault is up or on its way,
\* and once they are over the next Start will succeed on its settings, whatever files
\* were deleted since.
Restartable ==
    ~hurried /\ Idle => /\ panel # "down"
                        /\ IsHTTPS(conf) /\ Exist(conf) => Match(conf)

\* A switch that failed and was alone leaves the settings as it found them, and those
\* the panel is going to read, unless Start found files missing.
RolledBack ==
    \A t \in Requests :
        ~hurried /\ back[t] /\ pc[t] = "wait" => conf = snap[t] \/ conf = HTTP

\* Every restart asked for is carried out, and with it a request ends.
Reloads == /\ unread ~> ~unread
           /\ \A t \in Requests : pc[t] = "wait" ~> pc[t] = "idle"
=============================================================================
