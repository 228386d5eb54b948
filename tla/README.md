# Chutney in TLA+

Chutney configures, starts, watches, tests and stops a network of tor
processes on one host. This directory holds TLA+ models of the parts of it in
which order and failure matter, the TLC runs that check them on small
instances, and TLAPS proofs for every size of the constants. Paths below are
relative to the root of the repository; `TorNet.py` is
`lib/chutney/TorNet.py`.

## The system

### Components, their state and operations

| Component | State | Operations | What makes it correct |
|---|---|---|---|
| `Network.wait_for_bootstrap` (TorNet.py:2507) | last statuses per controller, start, next report, check counter | one pass over the controllers, answer, report, sleep | True only for a ready network, patience until the limit, always an answer |
| Directory info status (TorNet.py:1287-1941) | none; reads the directory files of other nodes | status of a file, combination, summary, search | finds what is there and nothing else; independent of dict order |
| Node controllers (TorNet.py:899-1397) and `Network.start/stop/restart/hup/status` (2399-2701) | pid file, lock file, process table | check, start, hup, stop, cleanup | one tor per node, found by its pid file; stop stops all; kills last; each answer true at some moment |
| Traffic tester (`lib/chutney/Traffic.py`) | socket map, client states, buffers, test suite | one handler per socket event | True only if all data came back unchanged; nobody waits for nobody |
| Verification (`scripts/chutney_tests/verify.py`) | time, listener port | retry loop over traffic testers | retries until success or time out, amount of data |
| Configuration (TorNet.py:404-896, 2106-2397) | the nodes directory and its link; keys and torrc files in it | configure (once per configuration phase), supported, new nodes directory | files of all phases agree; nothing written before all is checked; old network not lost |
| Templating (`lib/chutney/Templating.py`) | none | lookup through parents, expansion | ends; gives what the templates mean, or an exception |
| Shell tools (`tools/*.sh`) | counters of attempts, phases and rounds | attempts, bootstrap by phases, verify rounds, log filters | exit status 0 only for a network that was verified; old tors stopped first |
| `networks/`, `torrc_templates/` | data | | |
| `eltor/` | | separate scripts around a fork of tor | |

### How they interact

`tools/test-network.sh` runs attempts; one attempt (`test-network-impl.sh`,
`bootstrap-network.sh`) calls `chutney configure` for each configuration phase,
and for each launch phase
`start`, `status` and `wait_for_bootstrap`, then `verify`, then `stop`. Every
`chutney` command is a process of its own: between commands the only state is
in files (pid files, logs, the directory files that tor writes) and in the tor
processes. `wait_for_bootstrap` asks each controller for its log status, and
for the status of its descriptor in the files of all other nodes. `verify`
builds a `TrafficTester`, whose clients connect through the SOCKS ports of the
tors to the tester's own listener.

### What is hard here

* The tors run concurrently with every command: they write pid files late,
  exit between a check and a signal, take a file away between `exists()` and
  `open()`, fold a journal into a file that has been read, log and download
  between two reads.
* Processes are known by pid files only, which go stale.
* The wait loop is timed with a wall clock that may jump or stand still.
* The directory status is five nested combinations of statuses with different
  rules for missing files.
* The traffic tester is a circle of clients, tors and servers that a single
  thread serves, with buffers that fill up.
* Launch phases: what exists, is launched, and is searched are different sets.
* A test is three nested scripts under errexit, any command of which may fail;
  the next attempt inherits tors and directories from the last.
* `verify` retries on a wall clock and reuses a port.
* Several `configure` commands write the files of one network; each goes
  through all keys and collects the lines that name them anew, and each step of
  it may raise an exception.

`PROJECT.json` lists these hazards with their lines and the properties that
address them.

## Modules

| Module | Models | Kind |
|---|---|---|
| `WaitForBootstrap` | `wait_for_bootstrap`; "published" is answered in one step | specification |
| `WaitForBootstrapProofs` | | proofs |
| `DirInfoStatus` | `getFileDirInfoStatus`, `combineDirInfoStatuses`, `summariseCacheDirInfoStatus`, and the order-free reference `Winning` | operators |
| `DirInfoPoll` | `getNodeCacheDirInfoStatus`: one poll of one node's files, while they are written | specification, extends `DirInfoStatus` |
| `DirInfoProofs` | | proofs |
| `Bootstrap` | relays, bridges and clients: the search from node to node inside `wait_for_bootstrap` | composition: instances of `WaitForBootstrap` |
| `BootstrapProofs` | | proofs |
| `NodeLifecycle` | `start`, `stop`, `restart`, `hup`, `status` over tor processes | specification |
| `NodeControl` | what the user of these commands can rely on, without pids, files and signals | abstract specification |
| `NodeHistory` | `NodeLifecycle` with a history of which nodes were up together, and its mapping to `NodeControl` | refinement |
| `NodeLifecycleProofs` | | proofs |
| `Traffic` | `TrafficTester.run` with both chat types, with a proxy and without | specification |
| `TrafficProofs` | | proofs |
| `Verify` | `run_test`: tries, pauses, port, amount of data; the tester is one step | specification of a round, with its operators |
| `TestNetwork` | the scripts around the commands: attempts, phases, rounds, stops | composition, extends `Verify` |
| `TestNetworkProofs` | | proofs |
| `Templating` | environments, computed values, includes, the iterated substitution | operators |
| `TemplatingProofs` | | proofs |
| `Configure` | `configure` step by step in each phase, inside the scripts | detailed specification, extends `TestNetwork` and `Templating` and refines the former |
| `ConfigureProofs` | | proofs |
| `MC*` | values of the constants for the runs | |

A definition that models code has its lines in the `map` of `PROJECT.json`;
definitions marked external model tor, the operating system or asyncore, from
how the code uses them.

### State and actions

**WaitForBootstrap.** `notice`, `info`, `published` are what the tors have
written; `recentNotice`, `recentInfo` the cached statuses of the controllers;
`wall`, `start`, `nextPrint`, `checks` the timing variables of the loop. A
pass takes `PollLogs` and `PollDirInfo` for each node, with steps of the tors
in between, then `ReadClock` and one of `AllBootstrapped`, `LimitReached`,
`PrintTooSoon`, `PrintStatus`, `NoPrintDue`, and `SleepAndCount`. `WaitMinTime`
is the sleep before True. With `Steady` the clock advances by what passed (up
to `MaxPass` per pass, plus the sleeps); else every reading is arbitrary.

**DirInfoPoll.** `file` holds what each directory file has about this node:
missing, empty, short, long without the entry, or listed. `ReadFile` reads the
next one, `Summarise` combines. `Write` and `EmptyJournal` are the other tor: it
adds to a file, or ends a fold of a journal (`.new`) into its main file, which
has the journal's entries by then. `folded` remembers the journals that were
emptied between the two reads. Of tor it is assumed that it removes none of
these files, so that what exists can be opened, and that an entry of a main
file or a consensus stays for the length of a poll.

**Bootstrap.** `cached[c]` is the set of nodes whose files have the entry of
c. `SearchNext` and `SearchLast` look into the files of one other node each,
`Download` may happen between them. All other steps are those of
`WaitForBootstrap`.

**NodeLifecycle.** `owner` is the process table; `stage` says how far each tor
is: launched, starting (it has the lock file and is in the background), running
(it has its pid file), leaving (it has removed it and shuts down). `pidfile` and
`lockfile` are the run files. A command (`Begin`) walks over the nodes, and each
of its file operations and signals is a step that a tor can overtake. `getPid`
and `isRunning` are the same steps wherever they are called, with their place in
`at`: `FindPidfile` (`exists()`), then `ReadPid` or `GetPid` (`open()`, by
`isRunning` itself or by `check`, `stop` and `hup`, which give the pid to
`isRunning`), `OpenRaises` when the file has gone in between, `AskRaises` when
`kill(pid, 0)` fails with anything but ESRCH, and `isRunning(answer)` in the step
that uses the answer. `check` may print a pid that is `None` (`FormatRaises`).
`Launch` is `Popen`, which may fail and then ends the command (`LaunchRaises`);
`Communicate` goes on once the launched process has ended (`child`), which is
when its tor is in the background, or dead. `Poll` and `Report` end a round of
`stop`; `Sleep` to `RenamePidfile` are its clean-up, where `remove` and `rename`
may raise too (`CleanupRaises`). Tors crash, shut down after SIGINT in two steps
(`Shutdown` removes the pid file, `Exit` ends the process and may remove the
lock file), or ignore it; `Interrupt` is Ctrl-C.

**NodeControl** and **NodeHistory.** In `NodeControl` a tor is up or down.
It goes down when it likes, and comes up only by `start`, or by `restart` after
the whole network has been down at once, and only in the phase of the command.
`Answer` says what each result means: `Done` for `ok` (`start` and `status`:
every node of the phase has been up; `hup`: every node has; `stop`: all are
down now; `restart`: all were down at once), `Refused` for a failure (some node
was down; `stop` and `restart` never fail). An exception, of any command, means
that a node which was up when the command could see it has gone down
(`Overtaken`), or that a node which `start` or `restart` was to bring up is down
(`Unlaunched`). `seen` is the set of the values of `up` since the command began:
the code looks at one node after the other, so an answer is true of each at a
moment of its own. `NodeHistory` adds `seen` to `NodeLifecycle` (`HistorySpec`);
it restricts no step. A node is up from its launch until it begins to shut down
(`Up`).

**Traffic.** Data is counted in pieces, one per `send()`. `Select` is one
`select()`, `Handle` one handler; handlers run in the order of `asyncore.poll`
(all that is readable, then all that is writable, each in the order of the
socket map). `AcceptClient`, `GrantStream`, `Carry`, `EndStream`, `BreakStream`
and `Corrupt` are the tors, or the system between the sockets. `mode` is the
chat type and whether the clients have a proxy: an `EchoClient` checks
(`Check`) what an `EchoServer` sends back (`Echo`); without echo a `Source`
sends and a `Sink` checks, whose test exists only once it has been accepted
(`Accept`, `Register`). Without a proxy `Connect` takes the place of `Request`
and `Connected`. `Return` may also be the timeout at any time.

**Verify** and **TestNetwork.** `at` is the command that the scripts call
next, `attempt`, `phase`, `n_rounds` their counters; `args` holds the options
and `net` the network file, both chosen at the start. `tors` pairs each running
tor with the nodes directory (numbered by `dir`) it was started from, `booted`
says who has bootstrapped there. A command that has a module of its own is one
step here: it succeeds with what is shown there (`Stop` and `StopAtTheEnd`:
`StopIsComplete`; `Start`: `StartHonest`; `Wait`: `SuccessSound`;
`TransmitSucceeds`: `TrueMeansVerified`), or it fails with whatever part of its
effect. A round (`BeginRound` to `Verified`) runs testers of a duration in
`Durations`; the pause up to `Interval` belongs to the try that failed. `port`
is taken by the listener of a tester that was built for nothing, until the
garbage collector (`CollectGarbage`) finds it. `Configure` is in three actions
here: a new directory, an end of all phases, and a failure at any point.

**Templating.** A text is a sequence of tokens: a literal, a number, a line
about a node and its keys, or something to be replaced (a variable, an include,
a program, an include whose name is a variable). An environment is a sequence
of dictionaries, the most specific first. `Lookup` takes an explicit value of
the first, then what `TorEnviron` computes (`Sums`, `Texts`), then the parents'
values. `Format` substitutes until nothing changes, at most `MaxIterations`
times; what may fail is a set of at most one text.

**Configure.** `at = "configuring"` of `TestNetwork` becomes a walk: `step` is
what `configure` does next (`CheckConfig`, `PreConfig` for each node, `Config`
or `SkipConfig` for each node, `WriteArti`), `nodenum` the node, `config_idx`
the phase. `auths` and `bridges` are the lines that a command has collected;
they are lost when it ends. `cert`, `id` and `torrc` are on the disk: how often
the certificate and the router key of a node were made in this directory, and
the text of its torrc. `Raise` is an exception, possible at each step.

## Runs

| Run | Shows | Bounds |
|---|---|---|
| `wait_steady` | True is truthful, minimum run time, patience on a prompt host, success of a pass that begins ready | 2 nodes (a publisher and an onion service), limit 20, reports every 8, checks every 2, passes of up to 1 |
| `wait_skew` | the loop ends with any clock, within `MaxPasses` | 1 node that may restart, clock readings 0..8, limit 5 |
| `wait_no_log` | finding: no log at the first look, an exception | 2 nodes |
| `lifecycle_safety` | pid and lock files, starts, stops, the order of signals; each answer is true of the network: `NodeControl` is implemented | 2 nodes, both in the second of 2 phases, 4 pids, 2 polls per round |
| `lifecycle_chaos` | every command ends, at any time, with pid reuse (also by processes that may not be signalled) and interrupts, unless `start` waits for ever for the tor it has launched | 1 node, in the second of 2 phases, 2 pids |
| `lifecycle_stop_race` | finding: a tor that exits before its signal ends stop | 2 nodes |
| `dirinfo_poll` | no false success, no false alarm but in two cases that it names, no dependence on order | all kinds of nodes and files, 3 initial contents per file (at most 2 files missing), 2 writes or folds |
| `dirinfo_missing` | finding: a missing consensus of a directory server | no writes |
| `bootstrap_search` | the search implements `WaitForBootstrap`, safety and liveness | authority, relay, onion service; limit 2 |
| `bootstrap_bridges` | finding: later phases are not searched | bridge authority, bridge, bridge client |
| `traffic_echo` | verified means verified; counters; nothing is lost; nobody is stranded or stuck | all 4 modes (echo or not, proxy or not), 2 clients, 2 pieces each, one send buffer of 3 and one of 1 |
| `test_network` | the torrc files of all phases name the keys that are there; nothing is made before the check; templates give what they mean; no orphans; exit status 0 is earned; rounds keep their pace, get their port and their data; the test ends; configure implements `TestNetwork` | 8 networks (clients of an exit and an onion service; two clients; a bridge before its authority; an authority that is no relay; templates that loop, are too deep, misspelt, or give themselves) of up to 2 configuration and 2 launch phases, at most 4 iterations of a template; 9 sets of options: 1 or 2 attempts and rounds, times negative, zero and positive, data of 0 to 3 blocks; tries of 0, 4 and 13 s at an interval of 9 |

Why the bounds suffice. The wait loop treats nodes alike apart from what they
publish, so one of each kind and one pass that mixes them covers a pass; the
limit spans two reports, and the check counter reaches both of its limits. A
process is compared only by its pid, two nodes are enough for a signal or a
file to reach the wrong one, and four pids for each of them to have an old and
a new tor; stop repeats the same step, so two polls stand for 15. The poll of
the directory files covers all files of each kind of node, in three of their five
contents (a write brings the other two);
two writes at every point of the poll let a fold of a journal, an entry in the
main file and then an empty journal, fall between the two reads. Two clients share a listener and a select; the cases of
the send (both producers in the first push, later pushes, full buffer) all
occur with two pieces and the two buffer sizes. The scripts need a second attempt and a second round to
inherit something, and a second phase to skip one; the durations are a try that
fails at once, one within the interval, and the longest (a timeout of 8 seconds
and a select of 5), and the data sizes lie on, below and above the block size.
For the files to disagree, two configuration phases and a node whose line comes
after one that needs it are enough; a template of one level more than
`MaxIterations` allows, and one at the limit, are among those expanded.
The theorems below remove the bounds for the wait
loop, the search, the processes, the poll, the scripts, configure, the templates
and the tester.

`CHECK_DEADLOCK FALSE` stands in runs where the system ends: a wait that has
returned, a poll with its verdict, a tester that has returned.

### Assumptions of the environment

* `Settled` (`lifecycle_safety`): a command begins when each tor has its pid
  file or is gone. The scripts sleep 3 seconds after a start
  (`tools/bootstrap-network.sh:97`). `lifecycle_chaos` is run without it, and so
  has the window in which a tor is not found (TorNet.py:1178).
* `Timely` (`lifecycle_safety`): a tor that has removed its pid file is gone
  within `STOP_WAIT_TIME`, for which `stop` sleeps before its clean-up if it has
  found a tor running. Until then `isRunning` takes it for stopped.
* `PidReuse = FALSE` in `lifecycle_safety`: with reuse, a stale pid file leads
  the code to signal a stranger (TorNet.py:1125), against which it has no
  protection. The theorems under `Settled` alone hold with reuse too.
* Tor, given `RunAsDaemon` (`torrc_templates/common.i:27`), takes its lock file
  and then goes into the background; it writes its pid file, in one step, at a
  later time. When it shuts down it removes its pid file, then maybe its lock
  file, never that of another tor, and exits. (A pid file without a number reads
  like no file.)
* `WaitForBootstrap` without restarts for `SuccessMeansReady`: with restarts a
  log may say 100% of a process that has gone.
* `TestNetwork`: `stop` finds every tor of the newest directory (`Settled`
  again), the clock of a round does not jump, and at least one connection is
  made per client. With `CHUTNEY_CONNECTIONS=0` a round succeeds without sending.
* `Configure`: dictionaries and files hold texts without a deferred include
  (`HoldsTemplates`). The only one is in the pattern of `_getTorrcTemplate`
  (TorNet.py:661); `torrc_templates/` has none.

### Fairness

* `wait_*`: weak fairness of the loop, a sequential program that is not blocked
  by anything but its sleeps. Nothing is assumed of the tors.
* `lifecycle_chaos`: weak fairness of the command, whose steps are system calls
  that return, apart from `communicate()`: its step is enabled only once the
  launched process has ended. Nothing is assumed of tors or other processes,
  which may hang; so `CommandsEnd` has the wait for a tor that neither goes into
  the background nor exits as its exception.
* `bootstrap_search`: weak fairness of the search and the loop.
* `test_network`: weak fairness of the scripts, whose commands end on their own
  (`Returns`, `CommandsEnd`; that no `start` waits for ever for a tor is assumed
  here), and of the steps of `configure`, which waits for
  nobody; nothing of tors and the garbage collector.
* `traffic_echo`: none. Instead of liveness it is checked that a client which
  can still be served is never without an event (`IdleMeansVerified`).

## What the runs found

1. `wait_no_log`: TorNet.py:1342-1345 returns the status of a missing log and
   does not store it; `isBootstrapped` then unpacks `None`.
2. `lifecycle_stop_race`: `os.kill` at TorNet.py:1229 raises when the tor has
   exited since it was seen alive, as does `open()` at 1101 when its pid file has
   gone since `exists()`, and `stop` leaves the other tors running, not even
   asked to exit.
3. `dirinfo_missing`: missing consensuses of directory servers are not errors
   after all, whatever the comment at TorNet.py:1685-1687 says.
4. `bootstrap_bridges`: nodes of launch phases after the first are never
   searched (TorNet.py:1480), against README.md:287-288.

For two of them a theorem says when the promise does hold: `AnswersWithLogs`
(1: every log is there when the wait begins) and `BridgesReachedInOnePhase`
(4: the whole network is launched in the first phase). For the second, the
refinement of `NodeControl` says what an exception still means: a tor that was
up during the command has gone down.

Differences that were seen while modelling and have no run of their own:
`restart` (TorNet.py:2411-2416) stops every node, starts only those of the
current phase and drops the result; a slow host meets the internal timing
error long before the limit (2589); microdescriptors are checked although
README.md:292-298 lists them as not checked; README.md:270-271 gives
a default of 120 seconds for `CHUTNEY_START_TIME`, TorNet.py has 60; an echo
client whose send buffer is full may close before its own send test is
decided, and the tester then waits for its timeout. `supported` never objects
(`isSupported`, TorNet.py:698-711, has no `return True`, and each node that is
not supported resets `missing_any`, 2316-2319), so the status 77 of
`bootstrap-network.sh:78` does not occur; it would be lost twice, since
`test-network-impl.sh:7` and `test-network.sh:417` ask for `$?` after `!` and
after an `if`. A negative `CHUTNEY_START_TIME` does not end the script "straight
after launching" (`tools/test-network.sh:82`), it goes on to verify. `_calculate_reps`
sends one block more than the rounding its comment describes. A verify time of 0
fails without a try. A network without clients ends a round with an exception
in `bind()` instead of "Failure" once the leaked listener is met.

Of `configure` and the templates: when the name of a new nodes directory is
taken, `get_new_absolute_nodes_path` goes on with a string, which has no
`exists` (TorNet.py:205), against its comment on collisions (187-192); its
default `now=time.time()` is the time of the import. `self.dir`, which
`arti.toml` gives as its path (2378), is empty in every phase but the first.
`${path:}` tests a program with `0x111` for `0o111` (Templating.py:306).
A text that substitution gives back unchanged is returned with its variables
(393). A value that `TorEnviron` computes comes before one that a parent says
explicitly, since each environment of a chain can compute it (217-224): a
`specialize`d or copied node does not inherit its parent's `nick`.
`networks/bridges-obfs4` configures its client in a second phase to have the
line of the running bridge (`pt_extra`, TorNet.py:1971-1972), but
`bootstrap-network.sh:88-91` goes through all configuration phases before
anything is launched.

## Proofs

All of these hold for every value of the constants that satisfies the named
assumptions of the modules.

**WaitForBootstrap.** `TypeCorrect`; `BoundedUnderAnyClock` from
`BoundInv`, which bounds the passes by the reports printed so far (each needs
`nextPrint` to move on) and the checks since the last; `SuccessSound` from
`LogsInv` and `SeenInv`: once a node was seen ready in this pass it stays
ready, since without restarts logs and directories only grow, so readings of
different times add up to a statement about now; `MinimumRunTimeKept`; and
`PromptHostPatient` from `ClockInv`, which relates the clock to the counted
checks, so that a report is never due early. `AnswersWithLogs`: if every log is there
when the wait begins (`LogsExist`), no status is ever `None` (`LogsThere`), and
`wait_for_bootstrap` never raises.

**NodeLifecycle.** Under `Settled`, with pids reused or not, the invariant
`IInv` joins where a call and a command may be (`CallInv`, `VerbInv`), when a tor
can be without its pid file (`StageInv`: only while `start` runs, and only one
it has launched), that a pid a command holds is still that of the only tor of
its node (`HeldInv`), how far a stop has got (`StopInv`: once a poll has found
all tors down, none comes back), and how often a tor was asked (`AskedInv`). None
of the properties is inductive alone: that a tor is found depends on what the
cleanup may remove, which depends on the poll, which depends on the pids it has
read. `LiveTorsFound`, the action property `KillComesLast` and the first half of
`StopIsComplete` follow; `OneTor` (no two tors work on a data directory) is a
consequence of the first. The second half, about the run files a stop leaves,
needs `~PidReuse` and `CInv` (`OwnInv`: what a file names is the node's own tor
or dead; `CleanedInv`). `StartHonest` needs no assumption: `StartInv` says that
`launched` and `ok` count the nodes that the loop has passed. `MaxPolls` is
arbitrary in the proofs.

`ControlRefined`, under `Controlled == Settled /\ ~PidReuse`, is the refinement of
`NodeControl`. Its invariant `HInv` says that what a command has learnt was true when it learnt it: `PhaseInv` and
`HupInv` relate `ok` to the nodes that the loop has passed and to the history,
`NodeInv` says that a node which is signalled was up, one that is launched is
down, and a file that has gone since it was seen took its tor along (so an
exception is due to a tor that went down), `RestartInv` that `restart` launches
nothing before all were down. It is inductive only together with `IInv` and
`CInv`: "was up" is learnt from a pid file, and `launch` follows a check that has
looked for one. `UpStep` then sorts the steps into
those that leave the set of live tors alone, lose one, or gain one, and
`ControlStep` maps each to `GoesDown`, `ComesUp`, `Begin`, `Answer` or a stutter.

`CommandsRunOut` is the part of `CommandsEnd` that is not about fairness, and
needs no assumption on tors and pids: `Left`, six numbers (the part of the
command, the rounds of signals, whether the round still signals, the polls, the
nodes, the steps at a node), becomes less in the lexicographic order with each
step of the command or interrupt, and no step of a tor or another process
changes it. That this order is well-founded is `MeasuresEnd`: every set of such
measures has one that none is less than.

**DirInfoPoll.** `CombineCommutes` and `CombineAssociates`: which status wins
does not depend on order or grouping. `SuccessSound` and `FlavoursSound` for
any number of writes and folds, from `ReadInv` (what a status says about its file:
an entry that was read stays in that file or in its alternative, so a success
stays true) and `VerdictInv` (all files are read before the verdict), with lemmas
on the codes a combination can have. `CompleteFound` is the other direction, with
`FoundInv`: an entry that was there when the poll began is still in one of its
files that has not been read, or was found, or has been moved past the reader
(`Moved`). Why a status that could not be searched is outweighed only by an empty
file (`EmptyOutweighs`) is `UnsearchedInv`. `OrderNeverMatters`
rests on `Wins`, the winner of a set of statuses: one more status is combined
with the winner of the others (`NextWins`), so each fold is the winner of the
keys it goes through, in whatever order.

**Bootstrap.** `PublishedAtSuccess` from `SearchInv` (while no search has
failed, the nodes searched so far had the entry) and `PassInv` (the nodes this
pass has found are still published), both kept because here a file that has an
entry keeps it. One look of `Bootstrap` finds each entry that is there; that a
poll can miss one which is folded meanwhile, and then says that a ready network
is not ready yet, is a matter of `DirInfoPoll` (`ReadyPassSucceeds` assumes that
it does not happen in that pass). It holds with restarts and any clock, unlike `SuccessSound`. `SearchRefines`
shows that each step is a step of `WaitForBootstrap` or a stutter under the
mapping of `W`: its poll of the directory happens at the first search that
fails, since from then on the answer is fixed, or at the last one. Through that
mapping `SearchKeepsPromises` carries the theorems of the wait loop over: with
downloads in the middle of a search, True still means that all is ready, the
passes are bounded, and a prompt host still waits until the limit. It assumes of the constants what the loop assumes
(`LoopAssumption`). `BridgesReachedInOnePhase` is `PublishedAtSuccess` for the
networks whose launch phases are all searched.

**TestNetwork**, with the invariant of its `IInv`: no tor runs when `configure`
is next and all tors are in the newest directory (`DirInv`), which needs each
failing `stop` to end the attempt; the rounds are reached only with the last
phase done (`PhaseInv`); a round that counts has reached all targets since the
last `configure` (`RoundInv`). From it `NobodyOrphaned`, `SuccessEarned`,
`PortFree` and `DataCarried`, the last with a lemma on the division in
`Repetitions`. `RoundsKeepPace` rests on `PaceInv`: how far the time and the
tries of a round may be apart, whatever each try took. `TypeCorrect` follows
from the bounds on counters in `CountInv` and `SystemInv`. `TestRunsOut` is the
part of `Ends` that is not about fairness: `Left`, five numbers (the attempts, the
stage of the attempt, its phases or rounds, the commands still due, the time of
the round), becomes less with each step of the scripts, and no tor and no
collector changes it. That measures of any length cannot become less for ever is
the lemma `MeasuresEnd` of `ConfigureProofs`, which serves `TestRunsOutInside` too.

**Configure.** `ConfigureRefines` shows the safety part of the refinement:
each step of configure is one of `NewNodesDir`, `ConfigureFails` and
`Configured`, or a stutter. So `ScriptsKeepTheirPromises` has the theorems of
`TestNetwork` for the detailed specification. `TestRunsOutInside` appends to
`Left` three numbers for the place inside configure (`LeftInside`), so that the
node by node steps count down too. `TorrcsAgreeAlways` needs the
invariant `CInv`: keys of the nodes that the current command has passed exist
and never change again (`KeysInv`), hence its lines, and those of every earlier
phase, are those of the keys on the disk (`LinesInv`); so each torrc that has
been written since `nodenum` passed its node, in this phase or an earlier one,
is what its template gives for them (`TorrcInv`), and the last phase has passed
all. `CheckedBeforeWritten` is `CheckInv`. The proofs up to here use nothing of
`Format` but that it is a function of the environment.

**Templating.** `FormatIsTheFixedPoint`: `Format` gives a text if and only if
substitution reaches it within `MaxIterations` and leaves it unchanged;
otherwise it gives none, the exception. It rests on three facts about `After`,
the texts after 0, 1, 2, ... substitutions: there is at most one at a time
(`AfterAtMostOne`), it stays once it repeats (`AfterStays`), and `AfterUnfolds`,
the recursion. The induction over the iterations is that of `Induction`: a set
of numbers with 0 and the successor of each of its members is all of `Nat`, from
the least element of the complement; it takes a set and no operator, so it can
be cited.

`FormatIsMeaning` is the correctness of the expansion. `Format` works from
outside: it replaces everything that can be replaced, and again, until nothing
changes. `Meaning` is told from inside: within n levels a token means what its
value means within n - 1, and a text what its tokens mean. For every
environment, all files and every `MaxIterations` the two agree, and one is
without a result when the other is; apart from a text that substitution
reproduces (`x` with the value `${x}`), which `Format` returns as if it were
finished. The proof goes over sets of texts with at most one element, so that
an exception is the empty set and needs no case of its own: replacing the tokens of
a text is a product of such sets, and `ExpandedTwice` says that replacing twice is
replacing once by the replaced values. Hence a text means within n + 1 levels
what its substitution means within n (`MeaningAfterOne`), and its meaning is
what is left after all substitutions, if nothing replaceable is
(`MeaningIsPlain`). `Meanings` is a function over the names of the world;
`TokensIn` shows that substitution never leaves them, and nothing depends on
what tokens outside would mean.

`TorrcsExpanded` joins `FormatIsTheFixedPoint` with `TorrcsAgreeAlways`: whatever
a tor is started with is one text that one more substitution leaves as it is.
`ExpansionAlwaysExact` is `FormatIsMeaning` for the worlds that configure makes
(`WorldHolds`: its lines are texts without variables), and shows that the check
is enough: authority and bridge lines in place of the defaults never take a
meaning away (`LinesAreSimpler`, `MeaningSurvives`), so a template that the
check could expand is expanded when it is written (`CheckSuffices`). It rests on
`HoldsTemplates`, an assumption of `Configure`: dictionaries and files hold
texts, and none of them defers an include.

**Traffic.** A handler concerns one client, so the invariant is one statement
per client: its pieces add up (`Kept`), its two ends fit together (`Linked`),
its tests say what is true (`Told`); `Only` says that a handler leaves every
other client alone. `Fresh` is what an event still finds as `select()` saw it
although other handlers have run since: without it a push of the read phase
could overfill the buffer for the write phase, and a connection could be
accepted twice. That the counters agree rests on what adding and removing one
test does to a cardinality. `TypeCorrect`, `CountersRight`, `PiecesKept` and
`TrueIsVerified` follow, for all numbers of clients, all modes and failing tors.

The second part of `TrafficProofs` builds on that invariant for the clients
whose tors do not interfere. `Sound`: what is closed, at either end, is verified, since the
server closes only after its verdict or after the client (`Late`), and the
client only after the verdict or the server. With `Begun` (what is left to
send, and whether the producer behind it has been asked), `IdleIsVerified`
follows for `Pieces # 0`: with no data at all no checker is ever called.
`Flushing` is the order behind `NobodyStranded`: from the moment the last piece
is handed over, either it has not been read by the server, or the client's
write event of this same `select()` is still to come, after the one of the
server; so the producer reports success before the piece can come back. It
needs `Cap[c] > Pieces`, without which the write event may be missing.

**Only model-checked.** Liveness (`Returns`, `ReadyPassSucceeds`,
`CommandsEnd`, `Ends`) and the fairness in `ImplementsTestNetwork` and
`ImplementsWait`, which are out of the prover's reach (of `CommandsEnd`, `Ends`
and `Returns` the safety halves are proved: `CommandsRunOut`; `TestRunsOut` and
`TestRunsOutInside`; `BoundedUnderAnyClock`). Every
invariant and every other action property of the passing runs has a theorem.

## What is not modelled

* The log filters among the shell scripts: text tools without state.
* Of `configure`: the filter of a torrc by the options that the tor binary
  knows, the contents of `arti.toml`, directories and file modes, and
  `pt_extra`, which is always empty under the scripts.
* Of the controllers: `start` without `RunAsDaemon` (`poll_launch_time`, which
  `common.i:27` has no use for), and the run of `tor --version` in `check`.
* The `ValueError` for an ed25519 key file of the wrong size (TorNet.py:927-931),
  which would end `wait_for_bootstrap`; tor is taken to write that file whole.
* Where a `recv()` cuts the data of the tester: bytes are counted in pieces of
  one `send()`, so the slicing in `DataChecker.consume` (Traffic.py:207-222) for a
  read that ends inside a piece is a count.
* `Template.freevars`, which no command uses, and the syntax of templates.
* What reports print; the parsing of log lines beyond what they say; torrc
  files; valgrind.
* `eltor/`: scripts around a tor fork, apart from chutney.

## Plan

In the order of importance; all but number 6 are there.

1. `WaitForBootstrap`, its proofs.
2. `NodeLifecycle`, its proofs.
3. `DirInfoStatus`, `DirInfoPoll`, their proofs; `Bootstrap`, which composes
   them with the wait loop and refines it.
4. `Traffic` with echo clients.
5. `Verify` and `TestNetwork`, its proofs.
6. `TestNetwork` over the commands of `NodeLifecycle` instead of its one-step
   `Stop` and `Start`, as a refinement.
7. `Configure`: keys, lines and configuration phases, the new nodes directory
   and its link; its proofs.
8. `Templating`: lookup and the limit on expansions, as a recursive function.
9. Traffic without echo (Sink and Source) and without a proxy.
