# drbd9-tests: a TLA+ verification project

The repository is a test suite for DRBD 9. A *coordinator* (a Python test
script together with `python/drbdtest.py`) drives a cluster of *hosts* over
ssh: it makes storage, writes configuration files, brings resources up, blocks
the network, follows events and kernel logs, and cleans up. `run.py` runs many
such scripts against a set of VMs. What is modelled here is the framework and
the runner: the part that must be right for a test result to mean anything.
DRBD itself is external.

Every definition that models code is listed with its source lines under `map`
in `PROJECT.json`; definitions marked external stand for programs outside the
repository, as the code uses them.

## 1. Inventory

| component | state | operations | interacts with |
|---|---|---|---|
| `OrderedSet`, `Collection` (`ordered_set.py`, `drbdtest.py`) | a list and a dictionary from member to index | add, update, discard, difference_update, pop, remove, slices, copies | every collection of nodes, volumes, connections; `forbidden_patterns` |
| configuration files (`Resource`, `Node`, `Volume`) | options of the resource, members, volumes per node with their minor numbers, a `config_changed` flag per node; the file on each host | setters, `add_disk`, `remove_disks`, `add_node`, `remove_node`, `rename`, `touch_config`, `update_config` | each `Node.run()` writes the file first if the flag is set |
| kernel log capture (`start_dmesg`, `stop_dmesg`, `FirstWriteTrap`, `Tee`) | a remote process, ssh, a thread, a condition, a list of streams | start, wait for the process ID, add and remove captures, stop, join, search | main thread, pipe thread, ssh, remote shell |
| life cycle (`setup`, `teardown`, `Cleanup`, `atexit`) | handlers, `skip_cleanup`, exit status; on each host ssh, the module, a network namespace with its devices, iptables chains, dmesg, events, configuration, helper scripts, SELinux rules; pools, volumes, resources | setup, the script, teardown, `Resource.cleanup`, `Cluster.cleanup` | all of the above |
| backing storage (`disktools.py`) | pool object, `Node.disks`; on the host the group, volumes, device mapper stacks, snapshots | create and remove pools, volumes, stacks | life cycle, DRBD |
| network blocking (`block_path`, `block_packet_type`) | iptables rules, shells in the background | block, unblock, timed block | tests that follow on the same host |
| local runner (`run.py`) | counters, results, `result_db` in memory and on disk, a timer thread, the VMs | prepare VMs, run a test, time out, clean up, save, SIGINT | test scripts, VMs |
| events and forbidden patterns (`event`, `logscan` of `drbdtest.py`) | patterns; per node the lines of `drbdsetup events2` not yet taken | the operations that run a command and wait for its event; masking in `down` and `detach`; `up_wait` | Logscan (a library), the kernel |
| endurance tests (`endurance.py`) with background writer (`busywrite.py`) and traffic control (`trafficcontrol.py`) | fio processes and the remembered process ID; qdiscs in the kernels; disk delays; time | `run`, `run_resync`; start, stop, wait; make, slow down, reset | later tests on the same nodes |
| CI test generator (`vmshed_tests_generator.py`) | the versions asked for, the header line of every test file, what was written | compare versions, read, choose tests, VMs and variants | CI |
| random cluster driver, TLS, Windows hosts, target helpers, provisioning | see `components` in `PROJECT.json` | | |

What is hard here: a thread and a remote process behind every kernel log; a
timer thread and signals in the runner; shells that outlive the call and the
test that started them; commands that can fail anywhere, in clean-up code too;
objects in the coordinator that stand for things on hosts and must not drift
from them. `hazards` in `PROJECT.json` lists these places by line, with the
properties that cover them or the reason why none does.

What makes the components correct:

- collections: members are distinct and in insertion order, list and
  dictionary agree;
- configuration: a command never runs with a file that does not show the
  coordinator's objects; minor numbers of a node are distinct;
- log capture: all that the kernel logged is searched, stopping is safe at any
  time and twice, the start does not hang;
- life cycle: hosts are left without what the framework undoes, and artifacts
  are removed, or untouched where evidence is to be kept; the exit status of a
  teardown that searches the logs tells of bad ones;
- storage: the objects describe the devices; what is made is removed;
- network: rules are exactly those of the blocks in force;
- runner: what was asked for is run; tests do not overlap, start on clean VMs,
  cannot hang the runner; stored results are not lost, unless the runner dies
  while it writes them;
- events: an operation ends by its own event, which was not thrown away before;
  a forbidden line raises, and no other does;
- endurance tests: the load is the one that was asked for, whatever earlier
  tests left behind; there is IO for all of a resync; the test ends in time and
  leaves nothing behind;
- CI generator: a test is written exactly if it fits every version in the
  cluster, for a total order of versions.

## 2. Modules

| module | models | state and actions |
|---|---|---|
| `InsertionOrder` | the abstract list of distinct members | what `OrderedSet` promises |
| `OrderedSet` | `ordered_set.py` | `items`, `map`; `Add`, `Discard`, `Pop`, `Slice`. Copies and slices replace the object followed. It implements `InsertionOrder` (`OrderSpec`) |
| `ConfigSync` | `Resource`/`Node`/`Volume` as far as `Node.config()` reads them | a file is a record of what its text depends on: name, options, volumes, members. An action per setter; `UpdateConfig` clears the flag, then writes, and may fail in between. `owed` records the changes for which a script has to call `touch_config()` |
| `DmesgCapture` | one capture, with the main thread, the pipe thread, ssh and the remote shell as processes | lines go from the kernel through ssh to the thread and into the streams of the `Tee`. The first chunk can hold more than the process ID. `Wait` is a condition without predicate, as in the code |
| `Lifecycle` | one script from the command line to the end of `atexit` | one resource on `NumHosts` hosts; each loop over hosts is a step that can stop at any host; handlers run last in, first out. `Framework` lists what `Host()` changes on a host, in order, with a network namespace or without; `Undone` what `cleanup_framework()` undoes of it. `teardown()` is called with `validate_dmesg` or without, or not at all |
| `Storage` | one host's pool, volumes and stacks | operations of the script, each with the ways in which it can fail half-way, then `Node.cleanup()` and `Host.cleanup()`. Volumes are stacks of layers, devices are (volume, data or metadata, layer) |
| `NetFilter` | one host's chains over several tests | rules are counted; a call runs its commands one by one, between those of the shells |
| `Runner` | `run.py` | main thread, timer thread, test script and a helper process holding its pipe, SIGINT; the preparation of the VMs, whose resources a test leaves down, up or held open by one or two others; `results`, `result_db`, `file`. Storing is two steps, `open(..., 'w')` and `json.dump()`, between which the file is empty (`cut`); SIGINT may come again in between, and the runner may die at any point. The tests come from a file of test sets or from `generate_test_set`. Logical volumes are not followed: `cleanup()` may find some on any VM |
| `Events` | one resource's operations, the streams of event lines, `forbidden_patterns` | an operation masks patterns, runs its command node by node, makes its `event()` calls one after the other and restores the patterns; each call takes lines from the streams of the nodes it waits for; any of it may raise, and the script may go on. `Awaited` lists which calls an operation makes. Operations of the same form share an entry; of `primary(force=True)` the form with `wait=True` and a disk that is not UpToDate is modelled. What a disk is after an attach its metadata say (`Settled`); `down` may find a disk to detach |
| `BusyWrite`, `TrafficControl` | the two helper classes, without a `Next` of their own | fio processes and `_fio_pid`; root qdiscs and slowed connections |
| `Endurance` | `endurance.py`, composed from the two | several tests in a row on the same nodes: `run`, `run_resync`, or a script with its own use of the helpers; a test may fail at any step, in the construction of a `TrafficControl` half-way. A clock runs in `setup()`, in the load, until a killed fio is gone, and in `teardown()` |
| `CiSelection` | `vmshed_tests_generator.py` | arguments and file headers are chosen in `Start`; versions are sequences of integers, with negative ones for the strings that can occur. `Inf`, for `float('inf')`, is a constant above all numbers in use |
| `ConfigSyncProofs`, `LifecycleProofs`, `NetFilterProofs`, `DmesgCaptureProofs`, `EnduranceProofs`, `StorageProofs` | | the inductive invariant of the module, theorems and proofs |
| `CollectionProofs` | | the same for `OrderedSet` and for `Events`: what collections are made of, and their operations that wait |
| `RunnerProofs` | | the same for `Runner` and for `CiSelection`: the two programs that choose tests and run them |
| `MC...` | | instances for TLC |

The modules are kept apart because the code joins them at a narrow place:
`Lifecycle` sees of storage only that a host has a pool and volumes, and of the
log capture that it runs; `Storage` and `DmesgCapture` detail these.
`Endurance` is the place where three parts of the code share state, and there
they are composed.
`OrderedSet` and `CiSelection` name their specifications `SetSpec` and
`Generates`, so that a module of proofs can extend them together with `Events`
and `Runner`.
Definitions whose comment begins with "Defect" are variations of the definition
that follows, with a plausible error; they are used by nothing but the mutation
tests listed in `PROJECT.json`.

## 3. Runs

| run | expected | what it shows | bounds |
|---|---|---|---|
| `sequential` | pass | `OrderedSet`: list and dictionary agree; no duplicates; `InsertionOrder` is implemented. `CiSelection`: versions are ordered like numbers; development builds are the newest of their series; a test is written exactly if it fits all versions given | 4 keys: enough for a member before, at and behind a removed one and one that comes back. 20 versions of length 1 to 4 around 8.4, 9.0 and 9.1 with wildcards, development builds and words, in all pairs; 2 files. The two parts share nothing, and in each behaviour only one of them moves |
| `config_sync` | pass | a member's file is current, flagged, failed or owed a `touch_config()`; then only volumes and members can be stale; minors are distinct | 2 nodes, 2 names, 2 option values, 3 changes by the script: one to make stale, one elsewhere, one to repair. The number of writes is not bounded |
| `config_fresh` | violation | another node's `add_disk()` makes a file stale without a flag | as above |
| `dmesg_capture` | pass | nothing that arrived goes unsearched; the thread survives captures that come and go; the process ID is known when stopping needs it, and a second stop is harmless; a main thread that waits in time is woken | 3 lines: one that can be glued to the process ID, one in the pipe, one in the thread's hands. The session may end by itself |
| `dmesg_start` | violation | the notification can precede the wait, which then never ends | |
| `lifecycle` | pass | for each `--cleanup` policy and an error anywhere: artifacts removed or kept as asked; connections, processes and chains of the framework removed; pools returned before connections close; exit status 0 of a teardown that searches the logs only with good ones | 2 hosts: one that is done, or not reached, and one that fails; with and without a namespace. The theorems are for any number |
| `storage` | pass | while the script runs the devices are those of `Node.disks`; without a failed command nothing is left (but see ZFS snapshots); after a failure in the script only a device mapper target keeps the pool | 2 volumes with external or internal metadata, all stacks, all backends: one volume before the failing one |
| `net_filter` | pass | rules equal blocks in force plus timed blocks not ended; unblocking finds its rules; timed blocks end | 2 jump targets of a path and a packet, 1 block each, 2 shells, 2 tests, 2 rules per path (RDMA; the four of TCP repeat the same steps) |
| `runner` | pass | every test asked for is run on as many VMs as it can use; tests do not overlap, start on VMs with nothing up and the module loaded; fail fast; a return value of 0 means success; stored results survive SIGINT, also while they are stored, and are lost only if the runner dies between emptying and filling the file; a hanging test is ended | 2 tests on 1 and 2 VMs, from a file with one of them in two sets, or by name, 1 excluded, 1 that needs too many VMs, 0 or 1 to skip, 2 iterations, 1 earlier result, VMs held open at the start |
| `events` | pass | what is waited for has not been thrown away; operations end by their own events; a line raises exactly if it is to be forbidden | 2 nodes, one with DRBD 8.4, 1 volume, 2 operations, 1 fault: one operation to leave lines or masked patterns behind and one to meet them. Several volumes are left to the theorems |
| `endurance` | pass | the load runs at the rate asked for; a test that ends well leaves nothing behind; one writer at a time; a round that gets through `stop()` had IO at each of its events | 3 nodes, 3 tests: two can leave shaping on different nodes before the third. Times in units in which fio of a resync runs for 2, an event takes up to 1, `run()` waits up to 3 and the load takes 2: a round can outlast fio. `MaxPause` bounds what has no limit in the code, `MaxTime` each test |
| `endurance_timeout` | violation | a resync test that ends well can take longer than the 10 minutes of the suite | the times of the code in units of 30 seconds (load 18, fio 2, event 1, suite 20); `setup()`, `teardown()` and the end of fio take up to 1; 2 nodes, 1 test |

`CHECK_DEADLOCK FALSE` is set where the process modelled ends; a bound
that stops a script from changing things more often has the same effect.

### Fairness

- `DmesgCapture!FairSpec`: main thread and pipe thread are scheduled, ssh
  forwards what it has, and the remote shell prints its process ID. Nothing is
  assumed of which thread comes first or of the kernel's log.
- `NetFilter!FairSpec`: a call that has begun runs its commands, and a shell
  wakes up from its sleep and runs its commands. The script need not do
  anything.
- `Runner!FairSpec`: the main thread and the timer thread run. The test script
  and its helpers need not ever end, and the loading of a module need not
  either (the code waits for it without a timeout).

### What the violations show

They state what a comment or docstring in the repository says; each is
described with the quotation under `findings`.

1. `Node.add_disk()`, `remove_disks()` and `Collection.remove()` leave files of
   other members stale; two tests call `touch_config()` by hand for that reason.
2. The first write of dmesg can be trapped before the main thread waits.
3. The runtime of 9 minutes is "to ensure that we finish within the timeout" of
   10; a last round of a resync that begins just before, the end of fio and the
   teardown can take more than the minute left, with every event in time.

Other places where the code differs from what it says, seen in the models but
without a run of their own:

- "self.disks = []  # by volume" (`drbdtest.py:1817`): a volume number beyond
  the end of the list is appended at another position, and the configuration
  numbers volumes by position.
- `cleanup_framework()` "should always be run" (`drbdtest.py:1528`): an error in
  the clean-up of a host keeps it from the hosts after it (the steps
  `PoolRemovalFails` and `FrameworkCleanupFails` of `Lifecycle`). It is to
  "clean up changes made for the test framework" and undoes only some of them
  (`Undone`): with a network namespace, that stays on the hosts with the devices
  moved into it, and so do the chains made outside of it. `init_host()` of the
  next such test on the host then finds no devices to move, or fails at
  `ip netns add`. One script, `tests/net-namespaces-config-change`, deletes the
  namespace of one node as part of its test; that step is not modelled.
- `main()` of `run.py` returns the exit code of the last iteration, and its
  caller drops it.
- "We wait up to 30s for the resync to complete. Perform IO for longer than
  this" (`endurance.py:106`): there are four waits of up to 30 seconds, and fio
  runs for 60. A round whose events are slow fails in `stop()`, as fio is gone:
  this is what `IoThroughout` rests on.
- A variant with a minimal version is added above that version and not at it,
  while a test with a minimal version is written at it, too
  (`vmshed_tests_generator.py:81`, `:166`).

Properties that hold only with an exception say so in their statement:
`NothingLeft` (ZFS: `zfs destroy` refuses a volume with a snapshot),
`RulesAccounted` and `UnblockWorks` (a shell left by an earlier test may delete
the rules of this one), `ZeroMeansSuccess` (a timer that fires after the script
has exited with 0), `ForbiddenRaises` (an operation that raised leaves its
patterns out of the set), `StillToCome` (`detach()` and `up_unconnected()` of
several volumes of a node wait twice), `OwnEvent` (lines of operations that did
not wait, or raised, on the same node; and the UpToDate of a disk that `attach()`
does not wait for, which a forced promotion takes for its own), `HistoryKept`
(the file between its being emptied and filled), `FrameworkGone` (clean-ups that
raise; the namespace with its devices, the chains outside of it, configuration,
SELinux rules, helper scripts, and the module without a teardown, which nothing
undoes), `ExitZeroMeansClean` (scripts that end without `teardown()`, or with
`validate_dmesg=False`), `FreshUnlessOwed` (a node whose file could not be
written), `NothingUnsearched` (lines in the same chunk as the process ID),
`RateAsAsked` and `NothingLeftBehind` (nodes shaped by a
test that failed before its `reset()`), `DevelopmentNewest` (versions whose
second element is a number; with a `*` or a word there, "less than the next
minor version" has no meaning). `AllRun` counts names: with a name that occurs
twice, a later result replaces the earlier one, so that of the tests asked for
at most as many names as were skipped have no result.

## 4. Theorems

TLAPS proves these for every value of the constants.

- `CollectionProofs`, of `OrderedSet`: `OrderedSetConsistent` (keys of the
  dictionary = members of the list), `OrderedSetDistinct` (no duplicates),
  `OrderedSetRefines` (the class implements `InsertionOrder`). None of the
  invariants is inductive alone: that `Add` introduces no duplicate needs the
  dictionary to know every member, and that `Discard` keeps them equal needs
  that the list held the member once. The inductive invariant is their
  conjunction with the type and the bound on the indices. Lemmas about removing
  the first occurrence from a list carry the argument.
- `CollectionProofs`, of `Events`, for any nodes, volumes and calls, and any
  number of operations and failures: `ForbiddenAlwaysRaises`,
  `AlwaysStillToCome`, `AlwaysOwnEvent`. For the first one it is enough that the
  set of forbidden patterns is what was declared without what is masked or was
  left out (`Masked`). The others rest on `EventsInv`. `CallsMade` ties the
  calls still to be made to what the current one waits for. `WhoseLines` and
  `LineOrder` say of the lines not taken yet which operation they belong to and
  what can follow a line of the current one: nothing of an earlier operation,
  and nothing of its own behind its `Final` line: "destroy", "Diskless", or
  what the disk is after an attach (`Settled`).
  `WaitedFor` says that an operation does not return while a line of its own is
  left, except those of `Settled`, and so `LeftOver` holds: only
  such lines stay behind. Two kinds of wait take such a line for their own: the
  forced promotion, which is the exception in `OwnEvent`, and
  the second call of `up_unconnected()`, of which `PassedOver` says that its
  first call has dropped them. `Fits` says what every sequence of lines that the
  kernel may write for an operation has in common. `ToBeSeen` states what `StillToCome` needs of calls
  that are still to be made.
- `ConfigSyncProofs`: `ConfigSyncType`, `ConfigSyncFresh`, `ConfigSyncOwnPart`,
  `ConfigSyncMinors`. The inductive invariant adds to the checked ones that all
  minor numbers of a node are below its host's counter, without which a new
  number could be one in use. Its preservation is proved action by action. The
  bound on the number of changes plays no part in the argument.
- `LifecycleProofs`, for any number of hosts: `FrameworkAlwaysGone`,
  `ArtifactsAlwaysGone`, `EvidenceAlwaysKept`, `ConnectionAlwaysOutlives`,
  `PoolsAlwaysReturned`, `ExitZeroAlwaysClean`. The properties speak of the
  end; the invariant says for each phase which handlers are registered
  (`Phases`), that `skip_cleanup` agrees with the policy and with what the
  script has met (`SkipAgrees`), which hosts are connected, and what each
  handler has removed by the time it returns (`FrameworkRemoved`,
  `ArtifactsRemoved`). `ArtifactsMade` is needed for a setup that fails: there
  is no handler of the resource then, and it must have nothing to do.
- `NetFilterProofs`, for any paths, packets, blocks and shells:
  `RulesAlwaysAccounted`, `UnblockAlwaysWorks`. `RulesAccounted` speaks of the
  time between two calls; `Accounted` also counts the commands that the call in
  progress has run. That each command of a shell changes the sum of both sides
  alike needs to know how far the shell is (`ShellsKnown`), and the lemmas
  `HoldingNew` and `HoldingMoved` say how the number of shells that hold a rule
  changes. That a `-D` finds its rule follows from the sum: the block it undoes
  is counted.
- `RunnerProofs`, for any tests, VMs, iterations and earlier results:
  `OneTestAlwaysAtATime`, `AlwaysFailFast`, `ZeroAlwaysMeansSuccess`,
  `TestAlwaysStartsClean`, `HistoryAlwaysKept`, `AllAlwaysRun`. The invariant
  ties the processes of a test to the main thread's place (`Processes`), the VMs
  prepared so far to being clean (`Clean`), the counters to the exit code
  (`Counters`), and the file, where it is not cut short, to what is in memory
  (`History`). For
  `AllAlwaysRun`, `Progress` relates the counters to the places of the plan that
  are behind the current one: `num_total` and `num_skipped` add up to their
  number, the skipped ones are the first, and each of the others has a result
  under its name, on the VMs of one of the places with that name. Lemmas about
  the lexicographic order of the places (a first one exists, each has a next
  one, and nothing lies between) carry the counting.
- `RunnerProofs`, of `CiSelection`, for any versions, test files and selections:
  `VersionsAreOrdered`, `LowerIsOrder`, `DevelopmentIsNewest`, `WritesWhatFits`.
  The loop of `is_lower()` ends at the first element that decides, and this is
  the first digit in which the numbers differ (`LowerIsBelow`, with the least
  element of a set of numbers from well-founded induction). That this order is
  strict and weak makes "not below the lower of two" the same as "not below
  either", from which `WritesWhatFits` follows. `GeneratorInv` says that each
  file passed so far was written as it should be, or not at all.
- `DmesgCaptureProofs`, for any number of lines: `NothingEverUnsearched`,
  `ThreadAlwaysSurvives`, `StopAlwaysWorks`. The invariant is that all that came
  out of ssh is, in this order, in the first message, in the stream, in the
  hands of the thread, and in the pipe (`Flow`), together with the order in
  which thread, ssh and file end (`Ending`): the search finds all because the
  last two are empty by then.
- `EnduranceProofs`, for any number of nodes and tests, and any times:
  `RateAlwaysAsAsked`, `NothingEverLeftBehind`, `AlwaysOneWriter`,
  `IoAlwaysThroughout`. `Progress` follows the loops over the nodes: which ones
  this test has reset and slowed down. `NoGap` says that a round that had no
  fio at one of its events has none any more, as none is started within the
  round; `stop()` needs one.
- `StorageProofs`, for any number of volumes: `AlwaysRecordedExact`,
  `NothingEverLeft`, `OnlyTargetsEverPin`. The invariant adds that a snapshot
  has its origin, that there is a pool object for what is in a pool (`Pooled`),
  and what `Node.cleanup()` hands over to `Host.cleanup()` (`ForHost`). The
  lemma `AllRemovable`, that a removal from the top of each stack meets no
  device in use, carries the argument.

Each inductive invariant has one lemma per action, or per conjunct where one
argument serves many actions.

Assumptions: those named in the modules (`...Assumption`), evaluated by TLC in
the runs. They say types and ranges of the constants, that no path of
`NetFilter` is a packet type, that the minimal versions in the headers of test
files are numbers (they are, in all of them), that a call of a script is of an
operation in `Awaited`, on at least one node and volume, and on all of them for
`up_wait()`, and that test sets are lists.

Only model-checked: the liveness properties `WaiterWoken`, `PathsOpenAgain` and
`TestEnds`, as the prover does not treat fairness. Every other property of a
passing run is stated by a theorem.

Two properties were restated when their proofs failed. `OwnEvent` had excepted
the lines of single operations that did not wait; with three operations the one
between two others can leave a line that a wait of the third takes for its own
on the same node, and the exception is of the node. `DevelopmentNewest` had a
gap at versions whose second element is not a number.

## 5. Not modelled, and why

- DRBD, the kernel, the volume managers, iptables, ssh and `atexit` are external;
  the modules say what they assume of them.
- Logscan, which takes lines from the streams, is a library; `Events` says what
  the code relies on: lines are taken in order, once, from the streams that are
  still waited for, and a forbidden one raises. Several resources, whose lines
  share the streams, and more than one peer per node are left out.
- Test scripts: each is one walk through the actions modelled here.
- The statistics and `--analyze` of the runner; `get_write_kib()` of the writer;
  metadata and sizes of volumes; the text of configuration files and of the
  generator's output; the table of a device mapper target: computations without
  state that others see.
- Time, but in `Endurance`: `lead_seconds` of a timed block, the five minutes of
  the timer and the sleep of a shell are delays of any length.
- The reuse of process numbers: `do_timeout()` can kill a process group that is
  gone when the timer fires between `p.wait()` and `timer.cancel()`.
- An fio that fails by itself: it ends early, `wait()` does not look at its exit
  status, and `IoThroughout` counts processes. `primary(force=True, wait=False)`,
  and a forced promotion of a disk that is UpToDate already.
- What the code does not promise: that results of this run survive an exception
  in the preparation of a VM (they are stored at the end and on SIGINT only), that
  logical volumes of a successful test are gone (the next iteration takes them
  for original ones), that artifacts are kept when a bad log ends the test with
  `sys.exit(3)` (no excepthook is called).
- The random cluster driver (`tests_special/random`): its threads stress DRBD,
  not the framework; exceptions of actions still outstanding after the last
  round are not raised by it.
- Windows hosts: a second implementation of the interface that is modelled for
  Linux, with other commands; `block_path()` and `prepare_auto_promote()` there
  refer to names that do not exist (`self.port`, `time`).
- TLS set-up, target helpers, provisioning: sequences of commands and pure I/O
  without state of their own.

## 6. Plan

Done: `OrderedSet` and its refinement; `ConfigSync`; `DmesgCapture`;
`Lifecycle`; `Runner` with the selection of tests; `Storage`; `NetFilter`;
`Events`; `Endurance` with `BusyWrite` and `TrafficControl`; `CiSelection`;
theorems for all of them.

Next: reads of a removed log capture (position of the stream) in
`DmesgCapture`; several resources in `Lifecycle` and `Events`.
