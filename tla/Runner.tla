------------------------------- MODULE Runner -------------------------------
(***************************************************************************)
(* The local test runner, run.py.                                          *)
(*                                                                         *)
(* For every iteration the runner goes through the tests, prepares the     *)
(* VMs, starts the test script in a process group of its own and reads its *)
(* output to the end.  A timer thread kills the group after five minutes.  *)
(* The results are kept in memory, appended to result_db when the          *)
(* iteration is over, and written to result_db.json at the end of all      *)
(* iterations or on SIGINT: the file is opened, which empties it, and then *)
(* filled.                                                                 *)
(*                                                                         *)
(* A test leaves its VMs in any state.  The next one that uses a VM takes  *)
(* down what is up there, whatever holds it, and loads the kernel module,  *)
(* on all its VMs in parallel.                                             *)
(*                                                                         *)
(* Processes: the main thread, the timer thread, the test script with one  *)
(* helper it may leave behind with the output pipe open, and the user who  *)
(* can interrupt.                                                          *)
(***************************************************************************)
EXTENDS Integers, Sequences, SequencesExt, FiniteSets

CONSTANTS
    FileSets,           \* the test sets of the file: records vms, tests
    Requested,          \* --run: records name, min_nodes, max_nodes
    NumVms,             \* len(all_vm_names)
    Exclude,            \* --not
    MaxSkip,            \* --skip, at most
    Iterations,         \* --iterations
    Earlier,            \* entries of result_db.json from earlier runs
    EarlierUse          \* in which states VMs may be at the start

IsList(s) == Len(s) \in Nat /\ DOMAIN s = 1..Len(s)

ASSUME RunnerAssumption ==
    /\ IsList(FileSets) /\ IsList(Requested)
    /\ \A i \in DOMAIN FileSets :
            FileSets[i].vms \in Nat /\ IsList(FileSets[i].tests)
    /\ \A i \in DOMAIN Requested :
            {Requested[i].min_nodes, Requested[i].max_nodes} \subseteq Nat
    /\ NumVms \in Nat \ {0}
    /\ MaxSkip \in Nat
    /\ Iterations \in Nat \ {0}
    /\ Earlier \in Nat
    /\ EarlierUse \subseteq {"none", "up", "held", "held by two"}

VARIABLES
    pc,                 \* main thread
    run, keep_going, num_skip,
    iteration, pos,     \* current iteration, place of the next test
    num_total, num_skipped, num_successful,
    global_exit_code,
    results,            \* of this iteration, by test
    exit_code,          \* what run_tests() returned last
    result_db, file,    \* in memory, on disk
    cut,                \* the file was emptied and is not complete again
    child,              \* the test script
    helper,             \* a process of the test's group holds the pipe
    timer,              \* the timer thread
    timeout,            \* the flag that it sets
    vms,                \* per VM, whether resources are up or held open
    prepared,           \* VMs prepared for the test, of its vm_names
    loading             \* those whose module is being loaded

options == <<run, keep_going, num_skip>>
counts == <<num_total, num_skipped, num_successful>>
test == <<child, helper, timer, timeout>>
store == <<exit_code, result_db, file, cut>>
nodes == <<vms, prepared, loading>>
vars == <<pc, options, iteration, pos, counts, global_exit_code, results,
          store, test, nodes>>

-----------------------------------------------------------------------------
\* Defect: a test that needs all VMs is left out.
EnoughStrict(t) == NumVms > t.min_nodes

\* n_vms >= min_nodes
Enough(t) == NumVms >= t.min_nodes

UseVms(t) == IF NumVms < t.max_nodes THEN NumVms ELSE t.max_nodes

\* generate_test_set(): the requested tests that there are enough VMs for, by
\* how many they use; the sets are in the order of their first tests.  <<i, j>>
\* is in it if the j-th test is in the set that the i-th has opened.
generate_test_set ==
    LET able == {k \in DOMAIN Requested : Enough(Requested[k])}
        Same(j) == {k \in able : UseVms(Requested[k]) = UseVms(Requested[j])}
    IN  {p \in able \X able :
            p[1] \in Same(p[2]) /\ \A k \in Same(p[2]) : p[1] <= k}

\* test_set_iter: the named tests, or else the file.  A place is a test set and
\* the position of a test in it.
TestSets ==
    [named \in BOOLEAN |->
        IF named THEN generate_test_set
        ELSE UNION {{i} \X DOMAIN FileSets[i].tests : i \in DOMAIN FileSets}]

TestAt(named, p) ==
    IF named THEN Requested[p[2]].name ELSE FileSets[p[1]].tests[p[2]]
VmsAt(named, p) ==
    IF named THEN UseVms(Requested[p[2]]) ELSE FileSets[p[1]].vms

\* The sets that have enough VMs, without the excluded tests.
Runnable ==
    [named \in BOOLEAN |->
        {p \in TestSets[named] : /\ VmsAt(named, p) <= NumVms
                                 /\ TestAt(named, p) \notin Exclude}]

\* The two loops of run_tests(): set by set, test by test.
NoTest == <<0, 0>>
Before(p, q) == p[1] < q[1] \/ (p[1] = q[1] /\ p[2] < q[2])
Later(p) == {q \in Runnable[run] : Before(p, q)}
Advance(p) ==
    \/ Later(p) = {} /\ pos' = NoTest
    \/ pos' \in {q \in Later(p) : \A r \in Later(p) : ~Before(r, q)}

\* The test, len(vm_names) and vm_names
This == TestAt(run, pos)
NumUsed == VmsAt(run, pos)
Used == 1..NumUsed

\* The resources of a VM: down, up, or up and held open by one or two mounts or
\* processes.
Held == {"held", "held by two"}
Use == {"none", "up"} \cup Held

Test == {t.name : t \in ToSet(Requested)}
            \cup UNION {ToSet(s.tests) : s \in ToSet(FileSets)}
NoResult == [exit_code |-> 0, timeout |-> FALSE, nodes |-> -1]
NoResults == [t \in Test |-> NoResult]

\* Exit codes of a test: done, failed, killed by SIGKILL.
Code == [exited |-> 0, failed |-> 1, killed |-> -9]

\* main() begins.  The runner before may have been killed while it stored its
\* results.
Init ==
    /\ pc = "collect"
    /\ run \in BOOLEAN
    /\ keep_going \in BOOLEAN
    /\ num_skip \in 0..MaxSkip
    /\ iteration = 0
    /\ pos = NoTest
    /\ num_total = 0
    /\ num_skipped = 0
    /\ num_successful = 0
    /\ global_exit_code = 0
    /\ results = NoResults
    /\ exit_code = 0
    /\ cut \in BOOLEAN
    /\ file = IF cut THEN <<>> ELSE [n \in 1..Earlier |-> NoResults]
    /\ result_db = <<>>
    /\ child = "none"
    /\ helper = FALSE
    /\ timer = "off"
    /\ timeout = FALSE
    /\ vms \in [1..NumVms -> EarlierUse]
    /\ prepared = 0
    /\ loading = {}

-----------------------------------------------------------------------------
\* drbdsetup down all: a device that is held open stays.
SetupDown(use) == IF use \in Held THEN use ELSE "none"

\* The holder that the message names is gone: unmounted, or killed with at most
\* three attempts.
Released(use) == IF use = "held by two" THEN "held" ELSE "up"

\* Defect: drbdsetup down is not repeated.
DownAllOnce(use) == IF use \in Held THEN Released(use) ELSE SetupDown(use)

\* try_down_all(): handle_down_error() removes a holder and tries again, once.
DownAll(use) ==
    IF use \in Held THEN SetupDown(Released(use)) ELSE SetupDown(use)

\* collect_software_versions() prepares the first VM; json.load(), which raises
\* if the file is not complete; the SIGINT handler is registered.
Collect ==
    /\ pc = "collect"
    /\ ~cut
    /\ pc' = "iterate"
    /\ result_db' = file
    /\ DownAll(vms[1]) \notin Held
    /\ vms' = [vms EXCEPT ![1] = DownAll(@)]
    /\ UNCHANGED <<options, iteration, pos, counts, global_exit_code, results>>
    /\ UNCHANGED <<exit_code, file, cut, test, prepared, loading>>

\* run_tests() begins: counters, results and original_lvs, the logical volumes
\* it is not to remove, are its local variables.
BeginIteration ==
    /\ pc = "iterate"
    /\ iteration < Iterations
    /\ pc' = "next"
    /\ Advance(NoTest)
    /\ num_total' = 0
    /\ num_skipped' = 0
    /\ num_successful' = 0
    /\ global_exit_code' = 0
    /\ results' = NoResults
    /\ UNCHANGED <<options, iteration, store, test, nodes>>

\* The first tests are passed over, in every iteration.
Skip ==
    /\ pc = "next"
    /\ pos # NoTest
    /\ num_total + num_skipped < num_skip
    /\ num_skipped' = num_skipped + 1
    /\ Advance(pos)
    /\ UNCHANGED <<pc, options, iteration, num_total, num_successful>>
    /\ UNCHANGED <<global_exit_code, results, store, test, nodes>>

\* cleanup_and_prepare_vms() begins.
Prepare ==
    /\ pc = "next"
    /\ pos # NoTest
    /\ num_total + num_skipped >= num_skip
    /\ pc' = "prepare"
    /\ prepared' = 0
    /\ UNCHANGED <<options, iteration, pos, counts, global_exit_code, results>>
    /\ UNCHANGED <<store, test, vms, loading>>

\* cleanup_and_prepare_vm() of the next VM: down, which raises if the device is
\* still held, then a command that loads the module and is not waited for.
PrepareVm ==
    /\ pc = "prepare"
    /\ prepared < NumUsed
    /\ prepared' = prepared + 1
    /\ loading' = loading \cup {prepared + 1}
    /\ DownAll(vms[prepared + 1]) \notin Held
    /\ vms' = [vms EXCEPT ![prepared + 1] = DownAll(@)]
    /\ UNCHANGED <<pc, options, iteration, pos, counts, global_exit_code>>
    /\ UNCHANGED <<results, store, test>>

\* The module is loaded on a VM.
Loaded(v) ==
    /\ v \in loading
    /\ loading' = loading \ {v}
    /\ UNCHANGED <<pc, options, iteration, pos, counts, global_exit_code>>
    /\ UNCHANGED <<results, store, test, vms, prepared>>

\* p.wait() of all commands
WaitAll == loading = {}

\* run_with_progress(): Popen with setsid, timer.start().
StartTest ==
    /\ pc = "prepare"
    /\ prepared = NumUsed
    /\ WaitAll
    /\ pc' = "reading"
    /\ num_total' = num_total + 1
    /\ child' = "running"
    /\ helper' \in BOOLEAN
    /\ timer' = "armed"
    /\ timeout' = FALSE
    /\ vms' = [v \in DOMAIN vms |-> IF v \in Used THEN "up" ELSE vms[v]]
    /\ UNCHANGED <<options, iteration, pos, num_skipped, num_successful>>
    /\ UNCHANGED <<global_exit_code, results, store, prepared, loading>>

\* The runner ends where it is.  A command on a VM fails outside a test
\* (drbdsetup down fails again, for another reason, or takes 30 seconds; a
\* holder cannot be killed; the module cannot be loaded; the logical volumes
\* cannot be listed or removed), the results cannot be read or written, or a
\* signal other than SIGINT kills it.
Crash ==
    /\ pc \notin {"done", "crashed", "interrupted"}
    /\ pc' = "crashed"
    /\ UNCHANGED <<options, iteration, pos, counts, global_exit_code, results>>
    /\ UNCHANGED <<store, test, nodes>>

-----------------------------------------------------------------------------
(* The test script and the timer thread.  They are not followed any more   *)
(* once the runner has ended or is about to.                               *)

Ended == pc \in {"stopping", "done", "crashed", "interrupted"}

\* The script ends, with its handlers of atexit run or not: even one that exits
\* with 0 can leave resources and logical volumes behind.
TestExits ==
    /\ child = "running" /\ ~Ended
    /\ child' \in {"exited", "failed"}
    /\ \E left \in [Used -> Use] :
        vms' = [v \in DOMAIN vms |-> IF v \in Used THEN left[v] ELSE vms[v]]
    /\ UNCHANGED <<pc, options, iteration, pos, counts, global_exit_code>>
    /\ UNCHANGED <<results, store, helper, timer, timeout, prepared>>
    /\ UNCHANGED loading

HelperExits ==
    /\ helper /\ ~Ended
    /\ helper' = FALSE
    /\ UNCHANGED <<pc, options, iteration, pos, counts, global_exit_code>>
    /\ UNCHANGED <<results, store, child, timer, timeout, nodes>>

\* Defect: os.kill() of the script alone.
KillOne ==
    /\ timer = "armed" /\ ~Ended
    /\ child' = IF child = "running" THEN "killed" ELSE child
    /\ timer' = IF child = "none" THEN "died" ELSE "killed"
    /\ UNCHANGED <<pc, options, iteration, pos, counts, global_exit_code>>
    /\ UNCHANGED <<results, store, helper, timeout, nodes>>

\* do_timeout(): killpg() reaches the script and its helpers; what they had on
\* the VMs stays.  A script that was waited for has no group any more, and the
\* exception ends the thread.
KillGroup ==
    /\ timer = "armed" /\ ~Ended
    /\ child' = IF child = "running" THEN "killed" ELSE child
    /\ helper' = FALSE
    /\ timer' = IF child = "none" THEN "died" ELSE "killed"
    /\ IF child = "running"
       THEN \E left \in [Used -> Use \ {"none"}] :
                vms' = [v \in DOMAIN vms |->
                            IF v \in Used THEN left[v] ELSE vms[v]]
       ELSE UNCHANGED vms
    /\ UNCHANGED <<pc, options, iteration, pos, counts, global_exit_code>>
    /\ UNCHANGED <<results, store, timeout, prepared, loading>>

\* do_timeout(): only now the flag is set.
SetTimeout ==
    /\ timer = "killed" /\ ~Ended
    /\ timer' = "off"
    /\ timeout' = TRUE
    /\ UNCHANGED <<pc, options, iteration, pos, counts, global_exit_code>>
    /\ UNCHANGED <<results, store, child, helper, nodes>>

-----------------------------------------------------------------------------
(* run_with_progress(), main thread.                                       *)

\* Defect: reading stops when the script has ended.
ReadToExit ==
    /\ pc = "reading"
    /\ child # "running"
    /\ pc' = "wait"
    /\ UNCHANGED <<options, iteration, pos, counts, global_exit_code, results>>
    /\ UNCHANGED <<store, test, nodes>>

\* readline() returns nothing once nobody holds the pipe.
ReadToEnd ==
    /\ pc = "reading"
    /\ child # "running"
    /\ ~helper
    /\ pc' = "wait"
    /\ UNCHANGED <<options, iteration, pos, counts, global_exit_code, results>>
    /\ UNCHANGED <<store, test, nodes>>

\* p.wait() leaves the exit code in p.returncode; the process is gone.
Wait ==
    /\ pc = "wait"
    /\ pc' = "cancel"
    /\ results' = [results EXCEPT ![This] =
            [exit_code |-> Code[child], timeout |-> FALSE,
             nodes |-> NumUsed]]
    /\ child' = "none"
    /\ UNCHANGED <<options, iteration, pos, counts, global_exit_code, store>>
    /\ UNCHANGED <<helper, timer, timeout, nodes>>

\* timer.cancel() has no effect on a timer that has fired; the flag is read.
Cancel ==
    /\ pc = "cancel"
    /\ pc' = "judge"
    /\ timer' = IF timer = "killed" THEN "killed" ELSE "off"
    /\ results' = [results EXCEPT ![This].timeout = timeout]
    /\ UNCHANGED <<options, iteration, pos, counts, global_exit_code, store>>
    /\ UNCHANGED <<child, helper, timeout, nodes>>

-----------------------------------------------------------------------------
(* run_tests() and main() after a test.                                    *)

Result == results[This]

\* OKAY
Succeeded ==
    /\ pc = "judge"
    /\ ~Result.timeout
    /\ Result.exit_code = 0
    /\ pc' = "next"
    /\ num_successful' = num_successful + 1
    /\ Advance(pos)
    /\ UNCHANGED <<options, iteration, num_total, num_skipped>>
    /\ UNCHANGED <<global_exit_code, results, store, test, nodes>>

\* TIMEOUT or FAILED
Failed ==
    /\ pc = "judge"
    /\ Result.timeout \/ Result.exit_code # 0
    /\ pc' = "cleanup"
    /\ UNCHANGED <<options, iteration, pos, counts, global_exit_code, results>>
    /\ UNCHANGED <<store, test, nodes>>

\* cleanup(): of all VMs, those with logical volumes that were not there when
\* the iteration began are prepared anew, and the volumes are removed.  Logical
\* volumes are not followed: any VM may have some.
ExcessRemoved ==
    /\ \E excess \in SUBSET (DOMAIN vms) :
        /\ \A v \in excess : DownAll(vms[v]) \notin Held
        /\ vms' = [v \in DOMAIN vms |->
                IF v \in excess THEN DownAll(vms[v]) ELSE vms[v]]
    /\ UNCHANGED <<prepared, loading>>

\* Defect: no return without --keep-going.
CleanupGoesOn ==
    /\ pc = "cleanup"
    /\ pc' = "next" /\ Advance(pos) /\ global_exit_code' = 1
    /\ ExcessRemoved
    /\ UNCHANGED <<options, iteration, counts, results, store, test>>

\* Defect: the exit code of the last test with --keep-going.
CleanupLastCode ==
    /\ pc = "cleanup"
    /\ IF keep_going
       THEN /\ pc' = "next" /\ Advance(pos)
            /\ UNCHANGED <<exit_code, global_exit_code>>
       ELSE /\ pc' = "returned" /\ exit_code' = Result.exit_code
            /\ UNCHANGED <<pos, global_exit_code>>
    /\ ExcessRemoved
    /\ UNCHANGED <<options, iteration, counts, results, test>>
    /\ UNCHANGED <<result_db, file, cut>>

\* cleanup(), then the next test or the end of the iteration.
Cleanup ==
    /\ pc = "cleanup"
    /\ IF keep_going
       THEN /\ pc' = "next" /\ Advance(pos) /\ global_exit_code' = 1
            /\ UNCHANGED exit_code
       ELSE /\ pc' = "returned" /\ exit_code' = Result.exit_code
            /\ UNCHANGED <<pos, global_exit_code>>
    /\ ExcessRemoved
    /\ UNCHANGED <<options, iteration, counts, results, test>>
    /\ UNCHANGED <<result_db, file, cut>>

EndOfTests ==
    /\ pc = "next"
    /\ pos = NoTest
    /\ pc' = "returned"
    /\ exit_code' = global_exit_code
    /\ UNCHANGED <<options, iteration, pos, counts, global_exit_code, results>>
    /\ UNCHANGED <<result_db, file, cut, test, nodes>>

\* The results of the iteration are appended to result_db.
Record ==
    /\ pc = "returned"
    /\ pc' = "iterate"
    /\ iteration' = iteration + 1
    /\ result_db' = Append(result_db, results)
    /\ UNCHANGED <<options, pos, counts, global_exit_code, results>>
    /\ UNCHANGED <<exit_code, file, cut, test, nodes>>

\* open('result_db.json', 'w'): the file is empty.
Emptied == file' = <<>> /\ cut' = TRUE

\* After the last iteration.
Save ==
    /\ pc = "iterate"
    /\ iteration = Iterations
    /\ pc' = "saving"
    /\ Emptied
    /\ UNCHANGED <<options, iteration, pos, counts, global_exit_code, results>>
    /\ UNCHANGED <<exit_code, result_db, test, nodes>>

\* sigint_handler(), at any point of the main thread after its registration,
\* also while it stores the results: the handler begins anew, and when the
\* exception leaves the other with statement, that one writes the same bytes.
\* A second signal does as much.  The test is in another session: it gets none.
Sigint ==
    /\ pc \notin {"collect", "stopping", "crashed", "done", "interrupted"}
    /\ pc' = "stopping"
    /\ Emptied
    /\ UNCHANGED <<options, iteration, pos, counts, global_exit_code, results>>
    /\ UNCHANGED <<exit_code, result_db, test, nodes>>

\* Defect: the handler stores the results of the running iteration only.
DumpCurrent ==
    /\ \/ pc = "saving" /\ pc' = "done" /\ file' = result_db
       \/ pc = "stopping" /\ pc' = "interrupted" /\ file' = <<results>>
    /\ cut' = FALSE
    /\ UNCHANGED <<options, iteration, pos, counts, global_exit_code, results>>
    /\ UNCHANGED <<exit_code, result_db, test, nodes>>

\* json.dump(), and the file is closed.
Dump ==
    /\ \/ pc = "saving" /\ pc' = "done"
       \/ pc = "stopping" /\ pc' = "interrupted"
    /\ file' = result_db
    /\ cut' = FALSE
    /\ UNCHANGED <<options, iteration, pos, counts, global_exit_code, results>>
    /\ UNCHANGED <<exit_code, result_db, test, nodes>>

-----------------------------------------------------------------------------
MainStep ==
    \/ Collect \/ BeginIteration \/ Skip \/ Prepare \/ PrepareVm
    \/ StartTest \/ ReadToEnd \/ Wait \/ Cancel
    \/ Succeeded \/ Failed \/ Cleanup \/ EndOfTests \/ Record \/ Save
    \/ Dump

TimerStep == KillGroup \/ SetTimeout

Next ==
    \/ MainStep \/ TimerStep \/ Crash \/ TestExits \/ HelperExits \/ Sigint
    \/ \E v \in 1..NumVms : Loaded(v)

Spec == Init /\ [][Next]_vars

\* Both threads run; a test need not ever end by itself.
FairSpec == Spec /\ WF_vars(MainStep) /\ WF_vars(TimerStep)

-----------------------------------------------------------------------------
\* What was asked for and can be run: from the names, or from the file.  A name
\* may be there more than once.
Asked(named) ==
    LET byName == {[at |-> k, name |-> Requested[k].name,
                    vms |-> UseVms(Requested[k])] :
                    k \in {i \in DOMAIN Requested :
                            Requested[i].min_nodes <= NumVms}}
        inFile == UNION {{[at |-> <<i, j>>, name |-> FileSets[i].tests[j],
                           vms |-> FileSets[i].vms] :
                            j \in DOMAIN FileSets[i].tests} :
                         i \in {k \in DOMAIN FileSets :
                                FileSets[k].vms <= NumVms}}
    IN  {a \in IF named THEN byName ELSE inFile : a.name \notin Exclude}

\* An iteration that comes to its end has skipped as many tests as it was to,
\* and has run each other one that was asked for, once; it has results of those
\* tests only, on as many VMs as they can use (generate_test_set, run_tests).
AllRun ==
    LET number == Cardinality(Asked(run))
        ran == {t \in Test : results[t] # NoResult}
    IN  pc = "returned" /\ pos = NoTest =>
            /\ num_skipped = (IF num_skip < number THEN num_skip ELSE number)
            /\ num_total = number - num_skipped
            /\ \A t \in ran : \E a \in Asked(run) :
                    t = a.name /\ results[t].nodes = a.vms
            /\ Cardinality({a.name : a \in Asked(run)} \ ran) <= num_skipped

\* Two tests never use the VMs at the same time: when the runner goes on, every
\* process of the test that could still write to its pipe is gone
\* (run_with_progress reads to the end of file before it waits).
OneTestAtATime ==
    pc \in {"next", "prepare", "judge", "cleanup", "returned", "iterate"}
    => child = "none" /\ ~helper

\* A test starts on VMs where nothing is up and the module is loaded, whatever
\* earlier tests have left there and whoever held it open
\* (cleanup_and_prepare_vms).
TestStartsClean ==
    [][pc = "prepare" /\ pc' = "reading" =>
        \A v \in Used : vms[v] = "none" /\ v \notin loading]_vars

\* Without --keep-going the iteration ends with the first test that fails or
\* times out: all tests before the last one were successful (run_tests).
FailFast ==
    ~keep_going /\ pc \in {"next", "reading", "returned"}
    => num_total - num_successful <= (IF pc = "next" THEN 0 ELSE 1)

\* What a return value of 0 of run_tests() says: every test that was started
\* was successful, or, without --keep-going, the last one was stopped by the
\* timer after its script had already exited with 0.
ZeroMeansSuccess ==
    pc = "returned" /\ exit_code = 0
    => \/ num_successful = num_total
       \/ /\ ~keep_going
          /\ Result.exit_code = 0 /\ Result.timeout

\* result_db.json has what earlier runs have stored at any time but the one
\* between its being emptied and filled: a runner that dies then, and only
\* then, leaves a file that is not complete.  A run that ends, or that is
\* interrupted, even while it stores, leaves every completed iteration in it
\* (main, sigint_handler).
HistoryKept ==
    /\ IF cut THEN pc \in {"collect", "saving", "stopping", "crashed"}
       ELSE /\ Len(file) >= Earlier
            /\ \A n \in 1..Earlier : file[n] = NoResults
    /\ pc \in {"done", "interrupted"} =>
            /\ ~cut /\ file = result_db
            /\ Len(file) = Earlier + iteration

\* A hanging test does not hang the runner: whatever the script and its helpers
\* do, reading its output ends (do_timeout).
TestEnds == (pc = "reading") ~> (pc # "reading")
=============================================================================
