------------------------------ MODULE Endurance -----------------------------
(***************************************************************************)
(* The endurance tests, endurance.py, with the background writer and the   *)
(* traffic control they use.  Tests run one after the other on the same    *)
(* nodes; between them the runner kills what still writes, and the disks   *)
(* are made anew, but nobody looks at the qdiscs.                          *)
(*                                                                         *)
(* A third kind of test stands for the scripts of tests/ that use writer   *)
(* and traffic control in their own way.  Any command may fail; the test   *)
(* ends there, with what it has set up left in place.  Time passes in      *)
(* everything that can take long: setup() and teardown(), the load, and an *)
(* fio that was killed until it is gone.                                   *)
(***************************************************************************)
EXTENDS BusyWrite, TrafficControl, FiniteSets

CONSTANTS
    TestRuntime,        \* test_runtime
    FioRuntime,         \* of one round of run_resync()
    EventTimeout,       \* of one event() call
    WaitTimeout,        \* of wait() without stop()
    SuiteTimeout,       \* of the test suite
    MaxPause,           \* bound on setup(), teardown() and the end of fio
    MaxTests, MaxTime   \* bounds on the tests on the same nodes, on each one

ASSUME EnduranceAssumption ==
    {TestRuntime, FioRuntime, EventTimeout, WaitTimeout, SuiteTimeout,
     MaxPause, MaxTests, MaxTime} \subseteq Nat \ {0}

VARIABLES
    pc,
    config,             \* EnduranceConfig, and which kind of test
    i,                  \* index of a node, or number of the event
    delay,              \* nodes with a slow disk
    clock,              \* since the test began
    start,              \* when the load began
    waited,             \* in the current call
    tests,              \* number of tests begun
    made,               \* nodes the test has made a TrafficControl for
    tainted,            \* history: nodes a failed test has left shaped
    gap                 \* history: there was no fio at an event of the round

bookkeeping == <<config, tests>>
time == <<clock, start, waited, gap>>
vars == <<pc, bookkeeping, i, delay, time, made, tainted, writer, tc>>

Kind == {"run", "resync", "script"}
Config == [kind : Kind, protocol : BOOLEAN, rate : BOOLEAN,
           delay : BOOLEAN, diskless_primary : BOOLEAN]

Diskful == IF config.diskless_primary THEN Node \ {0} ELSE Node

Over == pc \in {"done", "failed"}

-----------------------------------------------------------------------------
\* Where a test begins: run() makes the TrafficControl before setup().
Entry(kind) ==
    CASE kind = "run" -> "new" [] kind = "resync" -> "setup"
      [] OTHER -> "script"

Begins(c) ==
    /\ pc' = Entry(c.kind)
    /\ config' = c
    /\ tests' = tests + 1
    /\ i' = 0
    /\ delay' = {}
    /\ clock' = 0
    /\ start' = 0
    /\ waited' = 0
    /\ gap' = FALSE
    /\ made' = {}
    /\ fio' = [p \in Pid |-> "none"]
    /\ left' = [p \in Pid |-> 0]
    /\ fio_pid' = NoPid
    /\ UNCHANGED <<tc, tainted>>

Init ==
    /\ pc = "done"
    /\ config = [kind |-> "run", protocol |-> FALSE, rate |-> FALSE,
                 delay |-> FALSE, diskless_primary |-> FALSE]
    /\ tests = 0
    /\ i = 0
    /\ delay = {}
    /\ clock = 0
    /\ start = 0
    /\ waited = 0
    /\ gap = FALSE
    /\ made = {}
    /\ tainted = {}
    /\ WriterInit
    /\ TcInit

NextTest(c) == Over /\ tests < MaxTests /\ Begins(c)

-----------------------------------------------------------------------------
(* Before the load.                                                        *)

MakeTc ==
    /\ pc = "new"
    /\ NewTc(i)
    /\ made' = made \cup {i}
    /\ tainted' = tainted \ {i}
    /\ pc' = IF config.kind = "run" THEN "setup" ELSE "slow"
    /\ UNCHANGED <<bookkeeping, i, delay, time, writer>>

\* setup(): disks, up_wait(), skip_initial_sync(), primary(), write().
Setup ==
    /\ pc = "setup"
    /\ pc' = IF ~config.rate THEN "delay"
             ELSE IF config.kind = "run" THEN "slow" ELSE "new"
    /\ UNCHANGED <<bookkeeping, i, delay, time, made, tainted, writer, tc>>

SlowDownNext(to) ==
    /\ pc = "slow"
    /\ to \in Peers(i) \ slow[i]
    /\ \A m \in Peers(i) \ slow[i] : to <= m
    /\ SlowDown(i, to)
    /\ UNCHANGED <<pc, bookkeeping, i, delay, time, made, tainted, writer>>

SlowedDown ==
    /\ pc = "slow"
    /\ slow[i] = Peers(i)
    /\ IF config.kind = "resync" /\ i + 1 \in Node
       THEN pc' = "new" /\ i' = i + 1
       ELSE pc' = "delay" /\ UNCHANGED i
    /\ UNCHANGED <<bookkeeping, delay, time, made, tainted, writer, tc>>

\* set_delay_ms() on all diskful nodes; then the load begins.
SetDelay ==
    /\ pc = "delay"
    /\ delay' = IF config.delay THEN Diskful ELSE {}
    /\ pc' = IF config.kind = "resync" THEN "loop"
             ELSE IF config.protocol THEN "start" ELSE "sleep"
    /\ start' = clock
    /\ waited' = 0
    /\ UNCHANGED <<bookkeeping, i, clock, gap, made, tainted>>
    /\ UNCHANGED <<writer, tc>>

-----------------------------------------------------------------------------
(* The load.                                                               *)

\* while time.time() - start < test_runtime
Loop ==
    /\ pc = "loop"
    /\ pc' = IF clock - start < TestRuntime THEN "start" ELSE "undelay"
    /\ UNCHANGED <<bookkeeping, i, delay, time, made, tainted, writer, tc>>

StartFio ==
    /\ pc = "start"
    /\ IF config.kind = "run"
       THEN Start(TestRuntime) /\ pc' = "wait" /\ UNCHANGED i
       ELSE Start(FioRuntime) /\ pc' = "event" /\ i' = 1
    /\ waited' = 0
    /\ gap' = FALSE
    /\ UNCHANGED <<bookkeeping, delay, clock, start, made, tainted, tc>>

\* One of the four events of a resync: SyncSource and SyncTarget, then
\* Established on both sides.
Event ==
    /\ pc = "event"
    /\ IF i < 4 THEN i' = i + 1 /\ UNCHANGED pc ELSE pc' = "stop" /\ i' = 0
    /\ waited' = 0
    /\ gap' = (gap \/ ~is_running)
    /\ UNCHANGED <<bookkeeping, delay, clock, start, made, tainted, writer>>
    /\ UNCHANGED tc

StopWriter ==
    /\ pc = "stop"
    /\ Kill
    /\ pc' = "wait"
    /\ waited' = 0
    /\ UNCHANGED <<bookkeeping, i, delay, clock, start, gap, made, tainted>>
    /\ UNCHANGED tc

AwaitWriter ==
    /\ pc = "wait"
    /\ Wait
    /\ pc' = CASE config.kind = "run" -> "undelay"
               [] config.kind = "resync" -> "loop"
               [] OTHER -> "script"
    /\ waited' = 0
    /\ UNCHANGED <<bookkeeping, i, delay, clock, start, gap, made, tainted>>
    /\ UNCHANGED tc

\* time.sleep(test_runtime)
Slept ==
    /\ pc = "sleep"
    /\ waited = TestRuntime
    /\ pc' = "undelay"
    /\ UNCHANGED <<bookkeeping, i, delay, time, made, tainted, writer, tc>>

FioEndsHere(p) ==
    /\ FioEnds(p)
    /\ UNCHANGED <<pc, bookkeeping, i, delay, time, made, tainted, tc>>

\* How long the test stays where it is: event() and the wait() of run() raise
\* then.  setup() and teardown() wait many times, stop() waits without a limit.
Limit ==
    CASE pc = "event" -> EventTimeout
      [] pc = "wait" /\ config.kind # "resync" -> WaitTimeout
      [] pc = "sleep" -> TestRuntime
      [] OTHER -> MaxPause

\* Time passes.  fio ends when its time is over, or some time after a kill.
Tick ==
    /\ pc \in {"setup", "event", "wait", "sleep", "teardown", "script"}
    /\ waited < Limit
    /\ clock < MaxTime
    /\ \A p \in Pid : fio[p] = "running" => left[p] > 0
    /\ clock' = clock + 1
    /\ waited' = waited + 1
    /\ left' = [p \in Pid |-> IF left[p] > 0 THEN left[p] - 1 ELSE 0]
    /\ UNCHANGED <<pc, bookkeeping, i, delay, start, gap, made, tainted, tc>>
    /\ UNCHANGED <<fio, fio_pid>>

-----------------------------------------------------------------------------
(* After the load.                                                         *)

ClearDelay ==
    /\ pc = "undelay"
    /\ delay' = {}
    /\ pc' = "teardown"
    /\ waited' = 0
    /\ UNCHANGED <<bookkeeping, i, clock, start, gap, made, tainted>>
    /\ UNCHANGED <<writer, tc>>

\* teardown(): secondary(), verify_data(), down(), Cluster.teardown().
Teardown ==
    /\ pc = "teardown"
    /\ pc' = "reset"
    /\ UNCHANGED <<bookkeeping, i, delay, time, made, tainted, writer, tc>>

\* Defect: run_resync() resets the traffic control of one node.
ResetFirst ==
    /\ pc = "reset"
    /\ \/ ResetTc(0) /\ pc' = "done" /\ i' = 0
       \/ 0 \notin made /\ pc' = "done" /\ UNCHANGED <<i, tc>>
    /\ UNCHANGED <<bookkeeping, delay, time, made, tainted, writer>>

\* primary_tc.reset(), or reset() of all traffic_controls.
Reset ==
    /\ pc = "reset"
    /\ \E n \in made \cup {N} :
        /\ n \in root \cup {N}
        /\ \A m \in made \cap root : n <= m
        /\ IF n = N
           THEN pc' = "done" /\ UNCHANGED tc
           ELSE ResetTc(n) /\ UNCHANGED pc
    /\ UNCHANGED <<bookkeeping, i, delay, time, made, tainted, writer>>

\* A command fails, event() or wait() takes too long, data differ, or the
\* teardown finds something in a log.
Fail ==
    /\ ~Over
    /\ pc' = "failed"
    /\ tainted' = tainted \cup (made \cap root)
    /\ UNCHANGED <<bookkeeping, i, delay, time, made, writer, tc>>

\* TrafficControl() fails half-way.
MakeTcFails ==
    /\ pc \in {"new", "script"}
    /\ LET n == IF pc = "new" THEN i ELSE 0 IN
        /\ NewTcFails(n)
        /\ tainted' = (tainted \ {n}) \cup ((made \cup {n}) \cap root')
    /\ pc' = "failed"
    /\ UNCHANGED <<bookkeeping, i, delay, time, made, writer>>

-----------------------------------------------------------------------------
(* Another test, with its own use of writer and traffic control on node 0. *)

ScriptTc ==
    /\ pc = "script"
    /\ \/ NewTc(0) /\ made' = {0} /\ tainted' = tainted \ {0}
       \/ /\ 0 \in made
          /\ \/ \E to \in Peers(0) : SlowDown(0, to) \/ RemoveSlowDown(0, to)
             \/ ResetTc(0)
          /\ UNCHANGED <<made, tainted>>
    /\ UNCHANGED <<pc, bookkeeping, i, delay, time, writer>>

ScriptStart ==
    /\ pc = "script"
    /\ fio_pid = NoPid
    /\ Start(FioRuntime)
    /\ UNCHANGED <<pc, bookkeeping, i, delay, time, made, tainted, tc>>

\* stop(), kill_jobs() and wait(), or wait() alone.
ScriptStop ==
    /\ pc = "script"
    /\ fio_pid # NoPid
    /\ \/ Kill
       \/ UNCHANGED writer
    /\ pc' = "wait"
    /\ waited' = 0
    /\ UNCHANGED <<bookkeeping, i, delay, clock, start, gap, made, tainted>>
    /\ UNCHANGED tc

ScriptEnds ==
    /\ pc = "script"
    /\ fio_pid = NoPid
    /\ pc' = "reset"
    /\ UNCHANGED <<bookkeeping, i, delay, time, made, tainted, writer, tc>>

-----------------------------------------------------------------------------
Next ==
    \/ \E c \in Config : NextTest(c)
    \/ MakeTc \/ Setup \/ SlowedDown \/ SetDelay
    \/ \E to \in Node : SlowDownNext(to)
    \/ Loop \/ StartFio \/ Event \/ StopWriter \/ AwaitWriter \/ Slept \/ Tick
    \/ \E p \in Pid : FioEndsHere(p)
    \/ ClearDelay \/ Teardown \/ Reset \/ Fail \/ MakeTcFails
    \/ ScriptTc \/ ScriptStart \/ ScriptStop \/ ScriptEnds

Spec == Init /\ [][Next]_vars

-----------------------------------------------------------------------------
UnderLoad == pc \in {"start", "event", "stop", "wait", "sleep", "loop"}

\* The connections that this test wants slow.
Asked(n) ==
    IF config.rate /\ (config.kind = "resync" \/ n = 0) THEN Peers(n) ELSE {}

\* The load of an endurance test runs at the rate its configuration asks for,
\* on all connections, whatever earlier tests did.  The exception: a node for
\* which this test makes no TrafficControl, after a test that failed before its
\* reset() (run, run_resync, TrafficControl.__init__).
RateAsAsked ==
    UnderLoad /\ config.kind # "script"
    => \A n \in Node \ tainted : slow[n] = Asked(n)

\* A test that ends normally leaves no process that writes, no slow disk, and
\* no qdisc but those that earlier failed tests have left.
NothingLeftBehind ==
    pc = "done" =>
        /\ \A p \in Pid : fio[p] = "none"
        /\ delay = {}
        /\ root \subseteq tainted

\* There is one writer at a time: stop() and wait() return when fio is gone
\* (BusyWrite.wait).
OneWriter == \A p, q \in Pid : fio[p] # "none" /\ fio[q] # "none" => p = q

\* There is IO during all of a resync: a round that gets through stop() had an
\* fio at each of its events, however long they took.  The time fio runs for
\* does not give this, as there are four waits of up to 30 seconds; that kill
\* fails if the process is gone does (run_resync, BusyWrite.stop).
IoThroughout ==
    /\ config.kind = "resync"
    /\ pc \in {"wait", "loop", "undelay", "teardown", "reset", "done"}
    => ~gap

\* "hard code a runtime of 9m to ensure that we finish within the timeout": an
\* endurance test that ends well does so within the 10 minutes of the test
\* suite.  It does not: setup(), the last round, the end of fio and teardown()
\* come on top of the 9 minutes (run, run_resync).
EndsInTime == pc = "done" /\ config.kind # "script" => clock <= SuiteTimeout
=============================================================================
