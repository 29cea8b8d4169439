# A TLA+ model of v-ui

v-ui is a web panel that runs one `xray` process. The panel is a Go program:
gin handlers and cron jobs work on one SQLite database, build a configuration
from it, and restart xray when it has changed. The modules here model the parts
where goroutines, the database, files and the child process meet, and three
parts of the xray the repository carries with it: how it routes, its pipes and
its mKCP transport. TLC checks small instances, TLAPS proves the main
invariants for every instance.

All paths below are relative to `src/`.

## The system

| Part | State it keeps | Operations | Talks to |
|---|---|---|---|
| Xray supervision: `xray/process.go`, `web/service/xray.go`, `web/job/check_xray_running_job.go` | the package variables `p`, `lock`, `isNeedXrayRestart`, `result`; `bin/config.json`; the child process | RestartXray, StopXray, the 10 s restart job, the 30 s watchdog, Start, Stop, the finalizer | database, operating system |
| Outbounds and routing: `web/service/outbound.go`, `routing.go` | tables `outbounds`, `routing_rules` | add, update, delete, toggle, reorder, AI template; all end in commitManagedChange | settings, supervision |
| Configuration builder: `web/service/xray.go`, `xray/config.go` | none | GetXrayConfig in both modes, what tunnels add, Config.Equals | all tables |
| Inbounds and traffic: `web/service/inbound.go`, `web/job/xray_traffic_job.go`, `check_inbound_job.go` | table `inbounds`; counters inside xray | add, update, delete, the 10 s traffic job, the 30 s limit job | supervision (restart flag) |
| Access IP aggregation: `web/service/access_ip.go`, `web/job/access_ip_job.go` | table `access_ip_records`, the offset file, the summary file, xray's access log | ProcessAccessLog, clear, switch | settings, logrotate |
| Certificates and HTTPS: `web/service/cert.go`, `web/controller/cert.go` | settings, certificate files | upload, issue, enable, disable, readiness probe, roll-back | panel restart, acme.sh |
| Web server life cycle: `web/web.go`, `main.go`, `web/service/panel.go` | listener, cron, signal channel | start, stop, SIGHUP, SIGTERM | everything |
| Settings: `web/service/setting.go` | table `settings` | read with defaults, save one, save all, reset | everything |
| Database set-up: `database/db.go`, `v2ui/` | schema | migration, seeding, index repair | |
| xray-core, pipes: `xray-core/transport/pipe` | a buffer, its state, two notifiers | read, write, close, interrupt | both halves of every connection |
| xray-core, mKCP: `xray-core/transport/internet/kcp` | windows, acknowledgements, six states | push, flush, input, read, close | UDP |
| xray-core, the rest | | protocols, transports, DNS, statistics | |
| One port for HTTP and HTTPS; users, sessions, pages; port limits; server status; scripts | | | |

What is hard here, and so what the properties are about: restart requests from
requests and jobs race with restarts under way; the child process starts, reads
its file and dies at its own times; the panel restarts itself beside all that;
every database change is followed by steps outside the transaction, and every
setting is written in one of its own; files written by two programs are read by
offset; each step of a long handler can fail; in xray, signals are given after
the mutex is released, and datagrams are lost, repeated and reordered.
`PROJECT.json` lists these hazards line by line with the properties that cover
them.

What makes each part correct:

- supervision: no restart request is lost, what runs is what the panel reports
  and the database says, a live xray is never out of control except in a window
  we can name, and a broken panel heals;
- life cycle: a panel told to end ends and leaves no xray behind, a restart
  serves the new settings and breaks none of the above;
- outbounds and routing: a rule's target exists, managed mode commits only what
  xray accepts, a template is idempotent;
- builder: xray routes as the tables say, the API stays reachable, a tunnel is
  unrestricted and changes nothing for others;
- access IPs: each line counted once, none skipped, cleared lines stay cleared;
- inbounds: traffic is charged once, an inbound over its limit stops;
- certificates and settings: a failed switch leaves the old settings in force,
  certificate and key fit, what a page shows is what is used;
- pipes and mKCP: order, no loss, no end before the data, nobody stuck but by a named
  defect at the wrap of mKCP's numbers.

## The modules

| Module | Models | Runs with | Proofs |
|---|---|---|---|
| `XrayService` | RestartXray and everything that calls it, Start and Stop of the process, the child process itself | `MCXrayService` | `SupervisionProofs` |
| `Reconciler` | what the supervision promises, without goroutines and processes; `XrayService` implements it | `MCXrayService` | `SupervisionProofs` |
| `PanelLifecycle` | the signal loop, Start, startTask and Stop, composed with all of `XrayService` | `MCPanelLifecycle` | `SupervisionProofs` |
| `ManagedRouting` | OutboundService, RoutingService, commitManagedChange | `MCManagedRouting` | `ManagedRoutingProofs` |
| `ConfigBuild` | GetXrayConfig and xray's choice of an outbound | `MCConfigBuild` | `StartProofs` |
| `AccessIP` | access_ip.go, xray's log, logrotate | `MCAccessIP` | `AccessIPProofs` |
| `InboundTraffic` | inbound.go, its controller and jobs, xray's counters | `MCInboundTraffic` | `InboundTrafficProofs` |
| `PanelHTTPS` | cert.go, RestartPanel, the listener and the files it loads | `MCPanelHTTPS` | `StartProofs` |
| `Settings` | setting.go and all that write settings one by one | `MCSettings` | `SettingsProofs` |
| `Pipe` | transport/pipe with common/signal | `MCPipe` | `PipeProofs` |
| `Kcp` | transport/internet/kcp, one direction of a connection | `MCKcp` | `KcpProofs` |

`PanelLifecycle` extends `XrayService` and adds a goroutine and the restarts of
the server; `XrayService` instantiates `Reconciler` (`R == INSTANCE ...`). The
others stand side by side: each takes from the others what it needs as an
abstraction and says so. `XrayService` sees the database as one value `dbCfg`,
the configuration it would build; `InboundTraffic` sees a restart as the
reading of the rows and a replacement.

In every module a request, job or loop of the program is a goroutine whose
`pc` says between which two of its steps it stands. A step ends where another
goroutine can see or do something in between: at a lock, a transaction, a
file operation, a signal, the end of a query whose result is used later. A
variable with the comment "history" is not in the program; it remembers
something for a property.

### XrayService and Reconciler

| In the model | In the code |
|---|---|
| `p`, `lock`, `flag` | the package variables `p`, `lock`, `isNeedXrayRestart` of `web/service/xray.go` |
| `file` | `bin/config.json`; `Partial` while it is being written |
| `st`, `cfg`, `loaded`, `fin` | per `xray.Process`: spawned, running, killed or dead, the configuration it was made with, the one it has read, whether its finalizer is armed |
| `newCfg`, `oldCfg`, `tgt`, `force` | locals of RestartXray |
| `Acquire`, `Build`, `Test...`, `AlreadyInstalled`, `Replace`, ... | the stretches of RestartXray between its calls |
| `Spawn`, `Boot`, `Crash`, `Reap`, `Finalize` | the goroutine Start leaves behind, the child process, the garbage collector |
| `CronTick`, `Watchdog` | the 10 s and 30 s jobs |

Start returns before its goroutine has spawned the command, so a second
RestartXray in that window finds "not running" and stops nothing. That is the
one way to lose control of a process (`raced`).

`Reconciler` knows what is wanted, whether an attempt is due, what the attempt
under way has seen and taken down, and what runs. The mapping (`R`) reads
"due" from the flag and from the goroutines that are going to call
RestartXray, and "seen" from the locals of the holder of the mutex.

### PanelLifecycle

`loop` is the main goroutine: it takes a signal, stops xray (through the same
mutex RestartXray holds), stops the cron without waiting for the jobs, and
starts a new server, whose startTask restarts xray, or ends. `sig` is the
channel, which holds one signal and is there only after `Notify`: runWebServer calls
signal.Notify when the first Start has returned. A signal that comes before, or the
SIGHUP of a RestartPanel, ends the process by its default action, without StopXray
(`Killed`). Both ends of the process forget its memory (`End`); what was spawned runs
on, until x-ui.service, which is not modelled, kills what is left of its control group.
What a SIGHUP leaves alone is what `XrayService` keeps in package variables. A SIGKILL,
a SIGINT (not registered) and a panic are not modelled: they are to xray what `Killed` is,
at any later time.

### ManagedRouting

`out` and `rules` are the two tables, `managed` the setting, `baseOk` whether
xray accepts the rest of the configuration. An outbound is marked with whether xray
accepts it (`ok`), and `BadMatches` are the match conditions that ValidateRule lets through and
xray refuses, such as a domain, an address or a port that does not parse: the test of a
commit (`Valid`) looks at both tables. The body of a transaction is one
step; AddRule's validation, which precedes its transaction, and the second
validation and restart, which follow the commit, are steps of their own.

### ConfigBuild

The tables are the state, and the configuration is an operator of it
(`XrayConfig`: the tables or the template, then what tunnels add), as it is a function
in the code. xray's router takes the first rule that matches and its dispatcher the
outbound of that tag, or the first one; without any that is the commander's, until a
tunnel adds one, which then takes the traffic of all. A rule has fields that are present or
not; those `routingRule` does not know are lost where the panel rewrites a rule, and one
it knows in another form only (`OddForms`: `"port": 53`, where it wants a string) cannot be
unmarshalled: GetXrayConfig then returns an error (`Builds`) in managed mode, and in the
other as soon as one tunnel is enabled, for all inbounds.
Names are not resolved (domainStrategy AsIs). Of the template managed mode uses only
whether its rules can be unmarshalled, so two templates are tried there.

### AccessIP

`log`, `offset`, `records` and `summary` are the access log, the state file,
the table and the summary file; `mu` is accessIPMu. A run is `Begin` (the
switch is read), `Open`, `Fill` and `Upsert` per line, `SaveOffset`,
`DumpSummary`. `Rotate` is logrotate's copytruncate. `truncated` remembers whether a
run has noticed: until one has, and has saved its offset, a log that grows past the
old offset hides lines (`Overgrown`).

### PanelHTTPS

`conf` holds webCertFile, webKeyFile and webCertMode, each written in a step of
its own; `files` the two pairs of files, a number telling which certificate and
which key belong together. A switch goes through `capture`, `setcert`,
`setkey`, `setmode`, `restart`, `wait`, and in a roll-back through the last five
again. `panel` is the main goroutine: `Stop`, `GetCertFile`, `GetKeyFile` and
`Listen` or the end of the process. `loopback` is FALSE when webListen keeps
127.0.0.1 from reaching the panel: then every probe times out and every switch
is rolled back. RestartPanel cannot fail on the systems supported
(os.FindProcess does not), so that branch is left out. Settings that have no
effect on the listener (issuer, expiry, status, provider, domain) are too, and
so are certificate paths typed into the settings page.

### InboundTraffic

`rows` is the table; a port stands for itself and for the tag made of it.
`owner` and `bytes` are what xray serves and has counted, `gotOwner` and `got`
what the traffic job has read and not yet written. `owner` remembers which
inbound a tag was when xray was started: the program does not know it, the
properties do. gorm's Save updates by id and inserts when it found no row
(external, gorm 1.21); its SQLite driver makes `Id` a plain integer primary key, so that
SQLite gives out the id above those in use, which a deleted inbound may have had. A page
that still shows that one writes its count and its switch over the new one; `inherited`
names the ids that happened to.

### Settings

`rows` is the table, ids included: saveSetting looks for a row and then saves,
and no index makes a key unique, so two rows of one key can arise and a read
takes the first. `missed` remembers, of a client between the two, that another has
inserted in the meantime the row it should have found (or put another key's under the id
it did find), and `raced` that it has saved all the same: ShownIsUsed and NothingUndone
excuse that, and no other way to a second row. `todo` is what a request still has to save. The two settings that
must fit together and one that a page and a command write stand for all. `alone`,
`whole` and `torn` remember who overlapped with whom and what failed: PairFits excuses
that, and one more thing, which only the proof brought up, as it takes four requests: a
`setting -port` that found its row before a `setting -reset` saves it afterwards by its
id, which by then may be the id of a certificate's row (`Takes`). That Start goes back to
HTTP when the files are missing (`disableHTTPSForMissingFiles`, which writes both keys) is
in PanelHTTPS and not here.

### Pipe

`data` is the buffer, in writes of one unit; `readSignal` and `writeSignal` the
two notifiers, `done` the closed channel. A write is refused, put in, thrown
away (discardOverflow) or waits; the signal that follows is a step of its own
(`SignalReaders`, `SignalWriters`). Interrupt throws data away, Close does not; what
discardOverflow drops is reported to the writer as written, and is not counted so here.

### Kcp

A writes and B reads. `window` and `cache` are the lists of segments of either
end, `acklist` what B acknowledges, `net` the datagrams under way, which may be
lost, taken twice and in any order. Numbers are modulo `Mod`; where the code
compares them with `<` the model does (`ClearTo`, `ClearAcks`, `Blockers`), where it
subtracts, `Minus`. Left out: time (a timer may have expired whenever it is
looked at, a segment may be due in any flush), the round-trip and congestion
figures, fast retransmission and the flag that asks for an early ping, which
only choose when something is sent; the limit of 128 acknowledged numbers; the
other direction. The code looks at the state and acts later, without a lock, in six
places. Two are two steps each: the writer (`WriteCheck`, `Push`) and the reader (`Read`,
`ReadCheck`). In Close, OnPeerClosed, the command Terminate and flush the act is to set
the state; each of these is one step, so that two of them acting on one look, which can
set the state back (an end that is PeerTerminating becomes ReadyToClose), is not
modelled. A Terminated end takes nothing more.

`skipped` remembers that Clear, given a number from before the wrap, has taken a segment
from after it for an older one (`Skips`). That is a defect of the code: B may not have
that segment, A has it no longer, and B then waits for it for good. NothingLost,
NeverStuck and EndIsTrue say what holds as long as this has not happened, on both sides of
the wrap.

## The runs

| Run | Question | Instance |
|---|---|---|
| `xray_safety` | Is a restart ever lost, is a process lost otherwise than in the spawn window, does what runs agree with the database? Is every step one of `Reconciler`? | one request, one tick, three Process objects, two accepted configurations and one refused, one race |
| `xray_live` | Is every change followed by a restart, does a broken panel heal? | two objects, one good and one bad configuration, no race |
| `panel_lifecycle` | Does a SIGTERM end the panel and leave nothing running, does the supervision survive restarts? | one request, one tick, two objects, one configuration |
| `routing_safety` | Do the tables stay consistent under two requests? Does the AI template repeat itself? | direct and two user outbounds, two tags, two rules, one match condition xray takes and one it refuses |
| `routing_targets` | Does every rule have a target, as ARCHITECTURE.md says? **Violated** | the same |
| `config_build` | Does xray route as the tables say? | every state of two inbounds, one outbound and two rules, five templates, two of them in managed mode |
| `accessip` | Is a line counted twice, skipped, brought back? Is every line counted in the end? | the job and a request, two lines of one key, two times, one rotation, one failure |
| `panelhttps` | Does a switch end, roll back, leave a panel that starts? | three requests in turn, one fault |
| `inbound_traffic` | Is traffic charged once, are limits enforced, do deleted inbounds stay away? | two pages, two ports, two ids, a limit of two, one deletion, fault or expiry |
| `settings` | Does the panel keep the last values and a pair that fits, does a page show what is used? | two clients, three requests, one fault |
| `pipe` | Does a pipe keep the order, end after the data, forget nobody? | two writers, two readers, four writes, every kind of pipe |
| `kcp` | Does mKCP keep the order, lose nothing, get on and end rightly? | windows of two, two datagrams, numbers modulo 16: two segments from 12, three from 14 |

The bounds, and why they are enough:

- `Procs` bounds the Process objects alive at once: the current one, the one
  being started, one left behind. A dead one is used again. `MaxStray` bounds
  the objects replaced before they were spawned; with 1 the race happens and
  its consequences can be followed, and with 0 liveness is asked of the rest.
- `panel_lifecycle` has one configuration: which one runs is the matter of the
  other runs, and here it only matters whether one does.
- `checkTime` is capped at 1: the watchdog asks at the second miss in a row and
  at every later one.
- `Oids`, `Rids`: pools of row identities, free ones are used again. The code
  only compares tags and match conditions, and two rules suffice for every pair. The VIEW
  `ButAnswer` leaves out the last answer, which only ErrorMeansRolledBack looks at.
- `MaxLines` 2, `MaxRotations` 1, `MaxFaults` 1: a line before the rotation and
  one after it, and a failure that makes a run count again; keys do not meet in
  the code.
- `MaxRequests` 3 in turn (upload, enable and disable), `MaxTimers` 2: two
  restarts under way are all that differs from one, as the channel holds one
  signal. Overlapping switches are the matter of `settings`.
- `MaxTraffic` 2 and a limit of 2: below, at the limit, and traffic in two of
  the three places (row, job, xray) at once. `MaxId` 2 allows an inbound that takes
  over the port, or the id, of another. `MaxRequests` 2 counts pages and additions,
  `MaxEvents` 1 deletions, failures, crashes and expiries: a page, a deletion and an
  addition under the page's id fit.
- `settings`: `MaxId` 5 holds the rows three requests can make; two clients
  overlap, and the third request reads what they have left.
- `pipe`: limits -1 (none), 0 and 1, with and without discardOverflow; four
  writes fill the pipe, wait, and find room.
- `kcp`: two segments from 12 stay before the wrap (a gap, an old acknowledgement, a late
  copy); from 14 two stand before it and the third beyond it. Two datagrams leave room for
  a late one beside a new one. `TwoFromFar` is the bound on the first.
- `config_build`: `InManaged` has a template that can be read and one that cannot. Legacy
  mode does not read the tables, which are empty there.
- A fault is any error of a database, file or command, a crash, a kill, a file
  deleted by somebody, an expiry.

`CHECK_DEADLOCK FALSE` is set in PanelLifecycle (the process ends), PanelHTTPS,
InboundTraffic, Settings (when the requests are used up an idle panel does
nothing), Pipe and Kcp (a finished pipe or connection does nothing).

The type invariants of `AccessIP`, `PanelHTTPS` and `Settings` are not run; those of `XrayService`, `PanelLifecycle`, `ManagedRouting`,
`ConfigBuild`, `AccessIP`, `PanelHTTPS`, `InboundTraffic`, `Settings`, `Pipe` and `Kcp` are
proved. That of
`InboundTraffic` is run too, as it says that the index keeps ports apart.

## Fairness

Go schedules goroutines that can run and its mutexes hand over to waiters that
have starved: strong fairness on `Acquire`, on the StopXray of a stopping panel and on the steps of
AccessIP that take its mutex. Cron starts the jobs again and again (weak
fairness on each tick: their guards, such as a raised flag, hold until it runs);
a child process that was spawned reads its file or exits. Nothing is assumed of
requests, signals, faults, xray's traffic or logrotate. `SelfHeals`,
`HealsAcrossRestarts` and `Delivered` are stated for executions in which faults
and requests stop. In PanelHTTPS timers fire and the loop runs; nobody has to
start a panel that ended. Pipe and Kcp have no fairness: that nobody is
forgotten or stuck is stated as an invariant, saying who is on the way.

## What is proved

TLAPS proves for all values of the constants:

- `SupervisionProofs`: `IInv` is an invariant of `XrayService`, and from it
  TypeOK, NoLostRestart, FaithfulCurrent, OnlyTestedRuns,
  StrayOnlyFromSpawnRace, SettledAgrees and the action property
  KillOnlyForTested. None of these is inductive. That the current process works
  with the configuration the panel reports needs to know what a process that has not read
  the file yet is going to find (`FileOK`), which needs to know that only the
  holder of the mutex writes it (`Locking`), and that the process it makes is
  new and has its configuration (`LocalsOK`), and what each state of a process
  has read (`ProcsOK`). SettledAgrees needs `InstalledOK`: what a restart has
  read is still the database's unless a change is owed.
- There too: XrayService implements `Reconciler`. The initial states
  map to initial states; each action is shown, under `IInv`, to be one of the
  abstract actions or a stutter.
- And `LifeInv` adds to `IInv` what the signal loop relies
  on; every step of the loop keeps the supervision's `IInv`, so its properties
  hold through restarts, and LeftRunningOnlyLate follows, with its third case, a signal
  before signal.Notify.
- `ManagedRoutingProofs`: `IInv` (TypeOK, SystemOutboundsIntact,
  DanglingOnlyByRenameOrLateAdd) is an invariant, and the three action
  properties DeleteNeverOrphans, ManagedCommitsAreValid and
  TemplateNeverDuplicates hold of every step. Most actions end in `Commit`;
  the lemmas `CommitCases` and `CommitTyped` say what that does, once.
- `StartProofs`, of `ConfigBuild`: RoutesByTables, ApiReachable, TunnelsUnrestricted and
  TunnelsChangeNoOther for any tables. The order of the rules is a sequence described by how many rules
  come before each one; that this is a permutation, and which rule of it is the
  first to match, is what most lemmas are about. All four speak of a configuration that can be built (`Builds`), and
  TunnelsChangeNoOther says besides when a tunnel keeps it from being built. It compares the
  configuration, before and after the change, with the one without tunnels (`Plain`): it
  has one rule more, which decides nothing for other traffic (`OneRuleMore`), and an
  outbound at the end (`StillDistinct`).
- There too, of `PanelHTTPS`: Restartable and RolledBack, for any requests, timers and
  faults. While nothing is hurried (`Calm`), one request is at work at a time (`Alone`),
  a restart is pending only when that one waits for it or has ended (`AtRest`), and
  `Knows` says for each place in cert.go what the request relies on: that its pair
  of files fits once the key has followed the certificate, that the settings written so
  far are those of its goal, that what it would restore can be loaded (`Sound`).
  Restartable needs the same of a Start that is under way (`Starting`): the key it reads
  belongs to the certificate it has read before.
- `AccessIPProofs`: NothingSkipped, CountedOncePerRun, ClearedStayCleared and ReportExact, for any
  number of requests, truncations and failures. `FreshAhead` says that what lies
  beyond the place reached was counted only by runs that failed, and that a place
  beyond the end of a truncated log reaches nothing; `Buffer` that what is buffered is
  a stretch of the log, or of one that is gone; `NoneBehind` that what lies before is
  dealt with. ReportExact comes on top of that: `SumsUp` says of each row that its
  hits are as many as the lines counted for it and times they were, and that the ends of
  its span are times of such lines with all the others between; it needs `Filed`, that a
  number stands for one line and that what is buffered was written by xray.
- `InboundTrafficProofs`: TypeOK, NeverOvercharged, NothingLost and NoResurrection, for any pages,
  ports and limits. A unit of traffic is in xray, with the job, or in a row, and a page
  may put an old row back: `Covered` says that what a row or a page has, with what the
  job holds at any port and xray at any port for the same inbound, is not more than it
  carried; `Owned` that a port's traffic is that of the inbound that has the port unless
  it is in `inherited`. A step that moves traffic then changes nothing, and the lemmas
  `FormsMove`, `RowsKeep`, `CountsMove` and `PutsRowKeeps` say so for each kind of step.
  NothingLost, the equation behind that bound, follows from `Exact`: a configuration has
  an inbound at one port, so that what a place holds for it is the count of one port
  (`Of`), and the job holds nothing between two runs.
- `SettingsProofs`: TypeOK, ShownIsUsed, PairFits and NothingUndone, for any clients,
  values and numbers of requests and failures. `Work` says what a request of each kind
  still has to save; `Knows` what a client has read and can rely on as long as it is
  `alone`: the row it found, the values its page shows, what it captured, that its
  certificate is in force when it comes to its key; `Looked` that a client about to save
  has found the one row its key has, unless it has `missed` another's, so that no key gets
  a second row but by a save that did. The lemmas `PutAlone`, `PutUnraced` and
  `PutKeeps` say what a save does to what is read; they rest on `LeastOf`, that a set of
  numbers has a least one, which follows from the library's well-founded order on finite
  sets. PairFits needs besides that a pair that does not fit is being written (`Fitting`), that
  no two writers are both alone (`OneWrote`) and that what a roll-back would restore fits
  (`FitToRestore`).
- `PipeProofs`: order, end and wake-ups, for any number of goroutines and any
  limit. The invariant needs that the channel is closed exactly when the pipe
  has ended and that a writer that writes has something to write.
- `KcpProofs`: InOrder, NothingLost, NeverStuck and EndIsTrue, for every `Mod`, window
  and base. `Order` says that a number stands for one item everywhere, which holds
  while fewer segments than `Mod` are written (`NumbersLast`: no datagram lives
  until its number comes round); `Truthful` that what B acknowledges has
  arrived; with these `Keeps` (A gives up nothing else, but by `skipped`) is
  inductive, as are `Ending` (A leaves when all has arrived) and `Answered`: of what A
  still has, B goes on acknowledging all that has arrived, but for numbers beyond the
  wrap, which B's own number tells A of. NeverStuck follows from `Keeps` and `Answered`.

The assumptions are those the modules name (null values outside the sets they
extend, tags of the system and of users disjoint, accepted configurations among
all, writers apart from readers, numbers that last). The proofs have a lemma or a
step per action and combine them by the disjuncts of `Next`.

Only model-checked: all liveness, as fairness and ENABLED are out of the prover's reach.

## Where the code and its documents differ

`routing_targets` shows one: a rule can keep a target that does not exist, as
renaming an outbound looks at no rule. Others were met and have no run:

- a change can be answered with an error and stay in the database
  (`web/service/outbound.go:312` against docs/ARCHITECTURE.md:189-190;
  ErrorMeansRolledBack in `ManagedRouting` states what is promised);
- a run waiting for the mutex counts lines after the aggregation was switched
  off (`access_ip.go:61` reads the switch before it takes the mutex);
- when the panel cannot start after a switch to HTTPS, the process ends and
  nothing is rolled back (docs/CERT_PHASE2_RESULT.md:49);
- mKCP, "A Fast and Reliable ARQ Protocol" (`kcp.go:1`), can lose data and then stand still
  when its numbers pass 2^32: `sending.go:60` compares without regard to the wrap, and
  clears segments the receiver has not got. TLC finds it when `~skipped` is taken out of
  NeverStuck. And its flush takes the time before it reads the time stamps it
  subtracts, so that a stamp set in between makes a timer expire at once.

The models show more that no document speaks of, and the properties name it as
an exception: a process lost in the spawn window (`raced`), an xray started
again while the panel ends (`late`) or left by a signal before signal.Notify, two rows of
a setting whose saves have overlapped (`raced` in Settings), counters written back from an old page
(`disturbed`), even those of a deleted inbound over those of the one that got its id,
and traffic charged to the inbound that takes a port over (`inherited`), a deleted inbound that comes back through Save (`raced` in
InboundTraffic), the halves of two overlapping switches mixed (`disturbed` in
Settings), an end reported while the last segment arrives (`excused` in Kcp).

## What is not modelled

Port limits (a script programs nftables), host statistics, users, sessions and
pages, the listener for HTTP and HTTPS on one port, scripts, the migrations of
the schema; the texts of settings and of xray's JSON beyond what is compared;
the legacy clean-ups and AddInbounds, which run when nobody else does. acme.sh,
DNS, UDP and gorm are external. In `XrayService` a configuration is read from the
tables in one step; the program makes several queries.

Of `xray-core`, a copy of a third-party program of some 110,000 lines that the
panel starts but does not call, only the choice of an outbound, pipes and mKCP
are modelled. Most of the rest encodes and decodes protocols, parses JSON into
generated types, and encrypts: sequential conversions without state a checker
could explore. What would be worth modelling next: the sessions of mKCP's
listener, the session workers of `common/mux`, and the policy timers of
`app/dispatcher`.
