# A formal model of commatrix

commatrix records which hosts and services a machine talks to. A collector
process per host reads the kernel's connection table, folds connections onto
*edges* (protocol, direction, local address, peer address, service port) and
keeps a row per edge in an SQLite database; a central database merges the hosts.
The modules here are TLA+ models of the collector, of the central database and of
the elevation commands, checked with TLC on small instances and, where stated, proved
with TLAPS for all values of the constants.
Paths below are relative to `src/`.

## The system

| Part | State it keeps | Operations | Models |
|---|---|---|---|
| Sysctl guard (`commatrix/conntrack.py`, class `SysctlGuard`) | host sysctls, state file, `originals`, `changed` | `apply`, `restore`, `restore_from_file` | `SysctlGuard` |
| Store (`commatrix/store.py`) | tables `flows`, `flow_events`, `dns_events`, `runs`, `hosts` | `record_edge`, prunes, run ledger, `record_dns_events`, `import_dict` | `EdgeStore`, `RunLoop`, `NameMaps`, `CentralMerge` |
| Run loop (`commatrix/collector.py`, `run_loop`) | cycle count, listener, monitors, guard | cycles, signals, shutdown | `RunLoop` |
| Event listener (`commatrix/ctnetlink.py`) | `_active`, `_destroyed`, `_sock`, `_stop` | thread `run`/`_record`, `drain`, `stop` | `EventCapture`, `RunLoop` |
| DNS and SNI monitors (`commatrix/dns.py`, `commatrix/sni.py`, `platform/win/winetw.py`) | event buffer, IP-to-name map, `_sock` | thread, `lookup`, `drain`, `stop` | `NameMaps`; threads in `RunLoop` |
| Capture back-ends (`conntrack.py`, `sockdiag.py`, `sockets.py`, `platform/win/iphlp.py`) | nothing between calls | choice of a back-end, snapshot, label | `CaptureSource` |
| Normalisation, attribution (`flows.py`, `collector.py`) | nothing between calls | `normalize_entry`, `_resolve_pid`, `_edges_from` | `FlowFold` |
| A polling cycle, Linux or Windows (`collector.py`, `platform/win/capture.py`, `runloop.py`) | the tables as read, one after the other | `poll_once`, `build_edges`, drains | `PollCycle` |
| Resource governor (`commatrix/resources.py`) | nothing between calls | `throttle_sleep`, `disk_status` | its decisions are nondeterministic |
| Central side (`aggregate.py`, `collector_server.py`, `Store.import_dict`) | central database, the server's lock, SQLite's write lock | export, push, ingest, merge | `CentralMerge`, `CentralView` |
| Elevation (`elevate_linux.py`, `platform/win/elevate.py`, `platform/win/runtime.py`) | drop-in, polkit rule, scheduled task, account, saved state | apply, revoke, (un)install | `ElevateLinux`, `ElevateWindows`, `Elevate` |
| Identification, posture checks, reports, CLI, packaging | none, or read only | | not modelled |

How they interact: `run_loop` is the only thread that writes the database. It
calls the guard before the first cycle and in its `finally` block, starts the
monitor threads and drains them under their locks once per cycle. The guard
communicates with an earlier or later process only through its state file;
systemd runs `restore-sysctls` as `ExecStopPost` after every end of the service.
Everything a cycle computes is lost when the process dies; what was committed,
and the host's sysctls, are not. The central side is another process on another
host: request threads that share one lock, and the `aggregate` command, which
shares only the database file with them. Elevation is run by an administrator and
talks to the collector through systemd or the scheduled task.

What is hard: kills between any two file calls; the wall clock, which may be
stepped; counters that vanish with their connections; threads that are told to
stop anywhere; buffers at their limits; exceptions and signals in the `finally`
block. `PROJECT.json` lists these hazards at their lines with the properties
that cover them, and those no property covers yet with the reason.

What makes each part correct:

- guard: the administrator's settings are never lost and come back;
- store: estimates are exact while they can be, never too high for a connection
  at a time, never falling; the IR log and the rows agree;
- event capture: the listener's picture is the kernel's; traffic is in exactly
  one place until it is recorded or knowingly thrown away;
- run loop: it ends, puts the sysctls back, and the ledger tells how long nobody
  collected;
- a poll: an edge is keyed by the service that was asked for, has the bytes of its
  connections, a warning where nothing counted them, and a process that held it,
  although the tables are read at different moments;
- names: a name is the last answer for the address and not older than its time to
  live; what a monitor heard comes into the log once, in order;
- central side: the central rows are those of `CentralView` whatever the transport,
  order and failures; a body that is acknowledged is merged, as a whole; when a host
  that pushes falls silent its rows become current;
- elevation: what apply found is not lost on the way, revoke brings it back, and the
  administrator's account and the task's action stay what they were.

Where the code does not do what its documentation or comments say, a run that expects
a violation shows it in five cases, each with an entry under "findings" of
`PROJECT.json` that quotes the line. Others, which have no run of their own, are told
below with the component they belong to.

## Plan

Done, in this order: `SysctlGuard`, `EdgeStore` with `ByteEstimate`, `EventCapture`,
`RunLoop`, `CentralMerge` with `CentralView` and the refinement, `Elevate`, `PollCycle`
with `CaptureSource`, `FlowFold` and `NameMaps`. Of all of them the safety properties
the passing runs check are proved as well.

Left:

1. `Governor`: the arithmetic of `throttle_sleep` against the CPU budget.
2. A poll that yields an edge twice (two namespaces with the same addresses)
   composed with `EdgeStore`.
3. Proofs under weaker assumptions: `NeverOverestimates` for edges with several
   connections, which needs a term for what closings hide; connections of a host
   with itself over another address than the loopback one (`TopologyAssumption`).

## Modules and runs

Each `MC*.tla` gives TLC its instances; each `.cfg` names one run. All runs use
two workers and end in less than four minutes.

### SysctlGuard (`MCSysctlGuard`)

One step is one file-system call of one process: a sysctl read or written, the
state file opened (which empties it), filled, read, removed. `originals`,
`changed`, `payload` and `todo` are the variables of the same name and the rest
of a loop. `unit` is what systemd will do next: `ExecStopPost`, then a restart
after a failure. The environment kills (`Crash`), cuts the power (`PowerLoss`,
after which sysctls have the administrator's values), and an administrator
changes settings when no collector runs (`AdminSet`). `Faults` says which writes
may fail, and whether the state file may go with the unit's RuntimeDirectory.

- `MCSysctlGuard.cfg`: one service, both managed sysctls, two kills or power
  losses, failing writes in `apply` and `restore`. Two kills reach every pair of
  interrupted process and interrupted recovery (collector then `ExecStopPost`,
  collector then its successor). `BaselineRecoverable`, `CapturedIsBaseline`,
  `CleanExit` and, under fairness, `HostReturned` hold.
- `MCSysctlLost.cfg`: the state file cannot be written. `CapturedIsBaseline` is
  violated: `apply` goes on, and after a kill the next run takes "on" for the
  original.

With "runtime" in `Faults` `BaselineRecoverable` does not hold: when the collector and
its `ExecStopPost` are both killed, systemd removes the RuntimeDirectory before the
restart, and the state file with it (`systemd/commatrix-collector.service:58`).

Fairness: a process that is not killed goes on, and systemd starts what it owes
(`ExecStopPost`, the restart). A collector need not end and nobody need start one.

### EdgeStore (`MCEdgeStore`)

The kernel side of an edge is the number of its tracked connections and the sum
of their counters. A cycle is `StartCycle`, the two retention deletes with one
cutoff, passes of `prune_to_budget`, `Poll`, and one transaction per edge
(`RecordEdge`); the kernel, the clock and death come between any two. A restarted
collector is one that sleeps, since nothing of a cycle outlives the process.
`prune_dns_events_older_than`, the third retention delete, is in `NameMaps`. Whether
the files exceed the budget and whether free space is below the floor is
nondeterministic: both depend on everything else on the disk.

- `MCEdgeStore.cfg`: one edge (rows of different edges meet only in the budget's
  choice of victims), one connection at a time, two units of traffic, a clock
  of four instants that is stepped at will, a threshold and a retention of two.
  Two units are enough for a counter that rises, falls and rises again; four
  instants for a gap below, at and above the threshold and a row that is too old.
  At most two events are kept, a "new" and one reactivation. `SnapshotCovered`,
  `NeverOverestimates`, `ExactWhileOpen`, `GapsAccountedFor`, `EventsMatchRow`
  and `RowsOnlyGrow` hold.

`NeverOverestimates` needs one connection at a time: with two, one that closes
while the other grows can make the code count traffic twice, which `store.py`
allows for ("best-effort").

### EventCapture (`MCEventCapture`)

The kernel announces creation, update and end of flows into a socket buffer of
`MaxQueue` events and loses what finds it full; the thread works them off
(`Receive`); the loop drains under the lock (`StartRecording`) and commits edge by
edge. History variables say what was announced (`reported`), of which flow
something was thrown away since (`blurred`), and where the traffic of an edge
went (`carried`, `dropped`, `captured`). A paused cycle drains and discards.

- `MCEventCapture.cfg`: two flows of one edge and every buffer small enough to
  overflow (two events, one live flow, one end), one restart, a subscription that
  may be refused. `ListenerFollows`, `TrafficConserved` and, under fairness,
  `OpenFlowsRecorded` hold.
- `MCEventShort.cfg`: nothing is lost, two short flows of one edge end before two
  successive drains. `EndedFlowsCounted` is violated: the second adds nothing.

When the thread's own subscription is refused after the probe succeeded, it warns that
it is "falling back to polling" (`commatrix/ctnetlink.py:280`) and ends; nobody looks at
`auth_failed`, and the loop goes on draining a listener that never fills. The model has
this state; `OpenFlowsRecorded` is about a listener that listens.

Fairness: the thread and the loop are scheduled, and the loop again and again
takes a cycle that records rather than one below the floor of free space.

### RunLoop (`MCRunLoop`)

The main thread from `start_run` through `SysctlGuard.apply`, the signal handlers,
the start of the monitors, the cycles, the `finally` block and the atexit handler,
with the monitor threads beside it. A signal is KeyboardInterrupt wherever the
main thread is once the handlers are armed, and deadly before; only the loop's
body is inside `try`. `stop()` is three steps (set the event, test `self._sock`,
use it). `struck` (history) is where the last signal of the run found the main thread:
`NothingOwedAtExit` says that a process that exits owes the sysctls only if that was
during `apply`, before the handlers were armed, or in the atexit callback. It does not
speak of the monitors, which end with the process. `lives` records when each process really began and ended, which
`run_stats` is compared with.

- `MCRunLoop.cfg`: two runs of two cycles with the event listener and the DNS
  monitor, one signal, any number of kills, exceptions wherever the code may
  raise; a clock of four instants, cycles of up to one. `BlindSpotHonest`,
  `NothingOwedAtExit`, `ClosedSessionsStay` and, under fairness, `RunsEnd` hold.
  Deadlock is not checked: when the runs are used up the system is over.
- `MCRunLedger.cfg`: one run with the DNS monitor, no signal, no error.
  `CleanShutdownIsRecorded` is violated: the thread sets `self._sock` to None
  between the test and the use in `stop()`, and `finish_run` is not reached. (With
  a signal it is violated without any monitor: between the installation of the
  handlers and the `try` a SIGTERM passes the `finally` block by.)

What `NothingOwedAtExit` excepts is more than a comment admits. The handlers are still
armed in the atexit callback (`commatrix/collector.py:365`): a first signal passes the
`finally` block by or leaves it, a second raises KeyboardInterrupt inside
`guard.restore`, the interpreter prints it and exits with the sysctls switched on,
although the docstring of `_install_restore_handlers` (`collector.py:342`) says they are
restored on SIGTERM and SIGHUP and at exit. `ExecStopPost` puts them back, under systemd.

Fairness: only of the main thread. The monitor threads may stand still for ever,
which is what `RunsEnd` is about: `stop()` joins nobody.

`BlindSpotHonest` assumes what the ledger assumes: one collector at a time, and a
clock that is not set back. Its slack of two cycles per run is the age of the last
heartbeat of a killed run: it carries the start of its cycle.

### CentralMerge (`MCCentralMerge`)

A host's database is its rows as the collector last recorded them (`local`); a row
is its replaced counters (`bytes`), its minimum (`first_seen`) and its maximum
(`last_seen`, which stands for `last_active` and `max_gap` as well). `Export` writes
the snapshot file and brings a copy of it into the central directory, or, of a file
that was being rewritten, no copy that is JSON; when the file is fetched makes no
difference beyond which version the copy is of. `PullFile` merges the copy that is
there, however old and however often. A worker is a request in a thread of the
server, or a run of `aggregate`. It takes a body (`Push`), the copy of a snapshot
file in the central directory (`PullFile`) or a database (`PullDatabase`), and goes
through `import_dict`: `UpsertHost`,
which commits on its own, one `MergeRow` per flow, `Commit`. `working` is what the
open transaction sees, `writer` who has SQLite's write lock. A statement may fail
(`Fault`), a wait for SQLite may time out (`Busy`), the server with all its threads or
a run of the command may be killed (`Die`). After a failure the server and
`aggregate_snapshots` close their store and roll back; `aggregate_databases` keeps its
connection with what the failed database left in it, and the next `UpsertHost`
commits that.

`CentralView` is the abstract specification: a step merges one snapshot that is being
imported as a whole (`MergeWhole`); the row has the counters of the version merged
last, the earliest first and the latest last sighting of all versions merged. The one
exception is named: `MergeTorn`, which merges any rows of one host, is possible only
while rows of a database that failed in `aggregate_databases` wait in its open
transaction (`TornBody`). That is what the code does and calls best effort; nothing
covers it. The refinement mapping (`MergesLikeView`) is `table <- central.rows`,
`merged <- central.merged`, where `merged`, a history variable, is the set of versions
merged into a row, and `offered <- Bodies`, the snapshots workers have in hand.

- `MCCentralMerge.cfg`: a host with two edges, two workers, two sightings, one rare
  event (a deleted row, a failed statement, a death). Two edges are what makes a
  partial merge, two workers what makes the locks matter, two sightings an old and a
  new version. `MergesLikeView`, `AnsweredMeansMerged`, `PushesAreAtomic` and, under
  fairness, `EveryPushAnswered` and `EventuallyCurrent` hold. They
  are about flows: the host and its parameters are committed by `upsert_host` before
  the flows and stay when those fail.
- `MCCentralReplace.cfg`: one worker. `ReplacedWholesale`, the docstring of
  `import_dict` (`commatrix/store.py:626`), is violated: sightings and gaps are merged,
  so once retention deleted the row on the host the central row is no version the host
  ever had.

Fairness: an importer that began goes on (SQLite's busy timeout ends every wait), a
thread that waits for the server's lock gets it some time (strong fairness, for the
lock is given back again and again), and the hosts in `Pushers` push again and again.
The shipped `commatrix-export.service` exports and has the push as a commented
alternative, one of the two, so nothing is assumed of exports, of copies, or of
`aggregate`, which a person (or `ansible/report.yml`, into a fresh database) runs.

`EventuallyCurrent` therefore speaks of a host that pushes, when nobody aggregates any
more. Until then an old snapshot, repeated or delayed, sets the counters back, because
`bytes` is replaced and not merged; of a host that only exports, a stale copy that is
aggregated last leaves them so for good.

### Elevate (`MCElevate`)

`ElevateLinux`: one step is one file written or removed, or one call of systemctl. A
write truncates first, so it may leave a part; every step may fail and end the
command, which may also be killed anywhere. `before` is what `apply_elevate` read,
`saved` the state file. Two history variables say what there was: `original`, the
administrator's files before any elevation, and `found`, the files as the last apply
that saved its state found them; `blind` that a revoke since then had no state file,
in which case it removes both files whosever they are.
`ElevateWindows`: one step is one call of `schtasks` or `net user` or one write of the
state file, with the installer and the uninstaller of the task, which goes on when
revoke raises (`SkipRevoke`); `Faults` says which calls may fail. `apply_elevate` asks
for the task's action twice and for the account twice (`QueryTask` and `Rebind`,
`QueryUser` and `EnsureUser`), and each answer may be wrong by itself: no action when
schtasks fails or speaks another language than English, Czech or German
(`TaskAnswers`), no account when net user fails (`UserAnswers`). Whom the task ran as
before is saved too, but nothing reads it back. `Elevate` is a host of either kind.

- `MCElevate.cfg`: every call may fail but the queries; nothing is bounded, as the
  state is finite. `PreviousRecoverable` and `RevokeUndoesApply` are about `found`, and
  hold for retries after killed applies and half-done revokes as well; `AdminAccountKept`
  and `TaskCommandKept` hold.
- `MCElevateRevoke.cfg`: only the creation of the SYSTEM task in revoke may fail.
  `RevokePutsBack`, that revoke restores the layout from before elevation or the SYSTEM
  task (`docs/elevation-en.md:125`, `elevate_linux.py:8`), is violated: the account is
  deleted all the same, and the state forgotten. Without any failing call the property is
  violated on Linux: a second apply saves what the first one wrote, and revoke leaves the
  service elevated.

`AdminAccountKept` and `TaskCommandKept` hold only as long as the queries are answered.
With "query_user" in `Faults` a failed query followed by a good one makes the
administrator's account look like one commatrix made, and revoke deletes it. (An apply
repeated on an account commatrix did make saves the opposite, and then no revoke deletes
it.) With "query_task" a default command takes the place of the package's, when
schtasks fails or answers in another language.

### PollCycle (`MCPollCycle`)

`CaptureSource` says which back-end is named (`CaptureBackend`), which is read
(`SourceRead`) and what each yields of the same connections: conntrack knows who
opened a connection, also of those that ended a moment ago and of forwarded ones; a
socket knows only its own end. A connection has counters if accounting was on when it
was opened, by `SysctlGuard.apply` or the host (`counted`). `FlowFold` is `normalize_entry`, `_resolve_pid` and the
adding up of `_edges_from`. `NameMaps` are the two monitors: link to systemd-resolved
or a raw socket, buffer, name map with its clean-up and its time to live, and the
`dns_events` table with its retention; the Windows monitor, which reads the newest
records of a channel again and again. `PollCycle` composes them: entries, sockets,
owners, processes are read in four steps while connections open, close and expire,
listeners go, processes exit and their pids are used again; which processes the walk
over `/proc` may look into is the host's business (`MayWalk`: all for root, or as
elevation grants, else those of the own user); then the edges are built, recorded, and both
monitors drained and logged in separate steps. The process may die between any two;
a cycle may be paused below the floor of free disk.

- `MCPollCycle.cfg`: the hosts considered (`MCSetups`) are every combination of source
  asked for, tools present, privileges and accounting with one connection at rest; one
  host per kind of back-end, Windows included, with two connections that share an
  edge, or one inbound and one loopback connection, and two changes per cycle; UDP, a
  connection in another namespace and a forwarded one with one change; the service
  account that may look into one process or two; and three changes for one connection
  and its process. Two changes reach every pair of a connection that ends and a
  listener or process that goes between any two reads; a change per cycle and several
  cycles reach a connection that is reopened with counters beside one without. Beside
  them two hosts with monitors (both, on Windows one), two events, two names for one
  address, a buffer of one, a time to live of one and a retention of one (`Naming`).
  `KeyedByListeningSide`, `QualityHonest`, `OwnerHeldIt`, `LoggedOnce`, `NamesFresh`
  and, under fairness, `EventuallyLogged` hold. With one address the clean-up of a name
  map has something to keep but nothing to take away; that it leaves the fresh names of
  any number of addresses is shown by the theorem `FreshNames` only.

Fairness: the cycle of a collector that runs goes on, and not every cycle is paused. A
monitor need not hear anything.

What the properties except, the code does:

- An inbound connection read from socket tables becomes an outbound edge to the peer's
  ephemeral port.
- `read_tcp_diag` swallows every OSError (`commatrix/sockdiag.py:173`), so where sock_diag
  answers the probe and nothing after, the fallback to `/proc/net/tcp` that
  `docs/how-it-works.md:50` names is never reached and all TCP flows are missing
  (`KeyedByListeningSide` leaves them out).
- `capture_backend` does not always name the source that is read, as its docstring says
  (`conntrack.py:539`): it takes an installed conntrack command for a working one, and
  knows sock_diag in the place of conntrack. The properties go by what was read.
- `QualityHonest` says that an edge without a warning has counters of one of its
  connections at least, not of all: connections older than accounting have none, and
  `capture.quality` says "exact" (`conntrack.py:568`) all the same. It is also recorded
  before `apply` has switched accounting on, and again only after sixty cycles
  (`claimed`).

`/proc/net/nf_conntrack` that may not be read ends the loop (`ReadDenied`) instead of
falling back. On Windows old records are read again as new: `LoggedOnce` and the
freshness of names are stated for Linux. What an edge tells of its process is of
whoever has the pid when `collect_processes` looks it up; `OwnerHeldIt` is about the pid.

## Proofs

`tlapm` checks every leaf of the eight proof modules. Seven are about a component;
`SumTheorems` is about sums over finite sets (`SumFunctionOnSet` of the community
modules). The library's induction theorems take an operator as a parameter and
cannot be cited; `SumTheorems` and `PollCycle_proofs` therefore do induction with a
set of "good" arguments, over the subsets of a finite set (`SubsetInduction`) or the
prefixes of a sequence, whose minimal counterexample well-foundedness gives.

`SysctlGuard_proofs` (any sysctls, any number of kills): `TypeCorrect` without
further assumptions. `Recoverable`, `CapturesBaseline` and `ExitsClean` for one
process at a time (`SingleProcess`: a collector or the `ExecStopPost` that follows
it) whose recovery is reliable (`ReliableRecovery`: only the sysctl writes of
`apply` and `restore` fail, and the state file outlives a killed `ExecStopPost`).
`BaselineRecoverable` alone is not inductive: nothing in it says that a file
about to be removed is no longer needed. The invariant `IInv` adds what the file
contains (`FileInv`) and, per process, what it still has to visit before the file
may go (`RecoveryInv`: while `restore_from_file` works, every sysctl that differs
is still to be visited), what it has read (`CaptureInv`) and what it owes
(`OwedInv`: every sysctl that differs is in `changed`). `MCSysctlLost.cfg` shows that
reliable recovery is needed.

`EdgeStore_proofs` (any edges, traffic, clock, retention): `TypeCorrect`,
`CoversSnapshot`, `Grows`, `Exact`, `GapsAgree`, `EventsAgree`,
and `Bounded` under `MaxConns = 1`. Steps are
first classified (`RowSteps`, `Steps`): those that write no counter, a poll, and
the recording of one edge; rows otherwise only disappear. `ExactInv` relates a row
and the snapshot taken but not yet recorded to the kernel's counter as long as no
connection ended; `BoundInv` splits what an edge carried into what the row counts
and what the connection still open may add. Exactness and the bound both need the
snapshot in the cycle's hands (`CycleInv`), because traffic, closings and death
come between the poll and the transaction. `ByteEstimate`'s `Delta` enters through
`DeltaFacts` only. For `GapsAgree` and `EventsAgree`
a step either leaves the row and the log of an edge alone, or deletes, after which the
edge's history is `trimmed`, or records it (`LogSteps`). Both properties are inductive
with `LogInv`: an edge without a row and with its history intact has no events, so
that the "new" event is its first; the bytes the events report are a sum to which one
event adds what the row grew by.

`RunLoop_proofs` (any monitors, runs, cycles, signals, kills and exceptions):
`TypeCorrect`, `ExitOwesNothing`, `ClosedStay`, `LedgerIsHonest`. `BlindSpotHonest`
compares two sums, over the rows and over the lives of the processes; it is proved
row by row (`RowInv`) and added up with `SumTheorems`. The row of the present process
is at most a cycle behind its `start`, and `start` a cycle behind the clock
(`CycleInv`); that this row is the last one, and still open until `finish_run`, is
`SessionInv`, which also gives `ClosedSessionsStay`.

`EventCapture_proofs` (any flows and edges, any sizes of the buffers, any restarts):
`TypeCorrect`, with the bounds of `_record`; `Follows`; `NothingLost`. Conservation is
shown operator by operator: what a queue of events is worth for an edge is additive
in its parts, so that an event that is announced, lost, received, pushed out of a
full table, drained or committed moves its flow's counter from one term of the sum to
another. `ListenerFollows` speaks of the last word on a flow in the socket's buffer; an
event that is taken or lost leaves every other flow's last word where it was.

`CentralMerge_proofs` (any hosts, edges, importers, bounds; assumed is only that
`NoRow` is no version and `Nobody` nobody): `TypeCorrect`, `AnswersHonest`,
`PushAtomic` and the refinement, `Refines`. Steps are first classified by what they do
to the hosts, to the database (a row merged, a commit, a rollback) and to one worker
(`Steps`, `WorkSteps`). The invariant `IInv` says of a row that it tells the first and
last sighting of what was merged (`TableInv`), of the open transaction that it merged
at most one version into rows of one host only (`TransactionInv`, which is why a
commit is one `Merge` of `CentralView`, also when `aggregate_databases` commits what a
failed database left), and of a worker which rows it has through and that it still is
the writer then (`TaskInv`). `AnsweredMeansMerged` alone is not inductive: it needs
that a transaction is nobody else's to roll back. That the maximum and minimum of
`CentralView` are the row's follows from `TableInv` without induction, since both are
attained.

`Elevate_proofs` (any set of faults): `HostTypeCorrect`, `NothingIsLost`,
`RevokeRestores`, `AccountSafe` under "query_user" \notin `Faults` and `ActionSurvives`
under "query_task" \notin `Faults`, without which they are false. The invariant `HInv` adds to `PreviousRecoverable` that apply is past saving
before it writes (`StateInv`), what revoke has put back so far (`RevokeInv`), and that
revoke on Windows has a state file to read (`StepInv`). The two theorems with an
assumption have an invariant of their own each: whose account there is (`AccountInv`)
and which command was read and saved (`CommandInv`).

`PollCycle_proofs` (any connections, listeners, hosts, changes per cycle, names and
sizes of buffers): `PollTypes`, `EdgesKeyed`, `HonestQuality`, `OwnersHeldIt`,
`FreshNames`, `EventsLoggedOnce`. The properties speak of the moment the edges are
there, or of one step; the invariant `PollInvariants` says what was read until then:

- `KernelInv`: what is in use has not exited, what is steady is open, and nothing has
  counters where accounting never was on;
- `SourceInv`: the back-end named and the source read are functions of the host, where
  conntrack is read one of its back-ends is named, and nothing of an earlier poll is
  left;
- `ReadInv`: each table read contains every end of a steady connection and no
  socket the host never had, whatever closed between two reads. This is why an owner
  found at the third read is an owner of a flow of the first;
- `NameInvariants`: a map has exactly what was heard last of an address and is not
  clearly too old (`FreshInv`), the events in buffers, hand and log are apart and in
  order (`OrderInv`).

From there `FlowIsTrue` shows that an entry which describes a connection is
normalised to the flow of that connection, seen from the right side; `FlowsApart`
that two connections never become one flow; `ConntrackFlows` that the flows of a
poll are therefore one to one with the connections; and the byte sums of an edge and
of its connections are equal by `SumRename`. Assumed are `TopologyAssumption` (two
connections have no end in common; a connection of the host with itself runs over
the loopback address; no other connection has an address of the host at both ends),
`PollCycleAssumption` (a connection has carried bytes, whether or not they were
counted; a listener is a socket with the fields of one) and `FlowFoldAssumption` (no label is not a label).
The runs' instances satisfy them. A host that connects to itself over its LAN
address is outside these theorems and the runs.

Model-checked only: `HostReturned`, `OpenFlowsRecorded`, `RunsEnd`,
`EveryPushAnswered`, `EventuallyCurrent` and `EventuallyLogged`: liveness, out of the
prover's reach.

## Not modelled

- Reports, command line, configuration, Zabbix, DoH and time posture, process and
  service identification: they read, format and call out; no state of theirs
  survives a call, except for host parameters written as one row.
- Parsers (netlink attributes, `/proc` tables, DNS messages, TLS ClientHello): the
  models start from what they yield.
- How the Windows loop is stopped, its priorities and its file permissions; its
  cycle is in `PollCycle`.
- The CPU throttle: it decides how long a sleep is, and the models let every sleep
  take any time.
- Descriptive columns of a row, `observations`, and packets, which are counted by
  the same expressions as bytes.
- Several processes on one database or one state file: `SysctlGuard` can be
  instantiated with them, but the documentation promises nothing for that case.
- File modes, installers, images and playbooks.
