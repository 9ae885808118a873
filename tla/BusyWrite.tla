------------------------------ MODULE BusyWrite -----------------------------
(***************************************************************************)
(* The background writer, busywrite.py: fio is started on the node of a    *)
(* volume, detached from the shell that starts it, and found again by its  *)
(* process id only.                                                        *)
(***************************************************************************)
EXTENDS Naturals

VARIABLES
    fio,                \* processes on the node
    left,               \* how long each one still writes
    fio_pid             \* _fio_pid, NoPid if there is none

writer == <<fio, left, fio_pid>>

\* Processes that exist at the same time are told apart; a second one is enough
\* to see that there is more than one.
Pid == 1..2
NoPid == 0

WriterInit ==
    /\ fio = [p \in Pid |-> "none"]
    /\ left = [p \in Pid |-> 0]
    /\ fio_pid = NoPid

\* start(): the pid of an earlier fio is not looked at.
Start(runtime) ==
    \E p \in Pid :
        /\ fio[p] = "none"
        /\ \A q \in Pid : fio[q] = "none" => p <= q
        /\ fio' = [fio EXCEPT ![p] = "running"]
        /\ left' = [left EXCEPT ![p] = runtime]
        /\ fio_pid' = p

is_running == fio_pid # NoPid /\ fio[fio_pid] # "none"

\* Defect: "kill ... || true".
KillIfThere ==
    /\ fio_pid # NoPid
    /\ fio' = [fio EXCEPT ![fio_pid] = IF @ = "none" THEN @ ELSE "ending"]
    /\ UNCHANGED <<left, fio_pid>>

\* stop(), up to its kill; kill_jobs(), which kills the children of fio.  Both
\* raise if there is no process any more.
Kill ==
    /\ is_running
    /\ fio' = [fio EXCEPT ![fio_pid] = "ending"]
    /\ UNCHANGED <<left, fio_pid>>

\* Defect: wait() does not wait.
CollectAtOnce ==
    /\ fio_pid # NoPid
    /\ fio_pid' = NoPid
    /\ UNCHANGED <<fio, left>>

\* wait(): "tail --pid" returns when the process is gone; then the output is
\* read.
Wait ==
    /\ fio_pid # NoPid
    /\ ~is_running
    /\ fio_pid' = NoPid
    /\ UNCHANGED <<fio, left>>

\* fio ends: it was killed, or has written for as long as it should.
FioEnds(p) ==
    /\ fio[p] = "ending" \/ (fio[p] = "running" /\ left[p] = 0)
    /\ fio' = [fio EXCEPT ![p] = "none"]
    /\ left' = [left EXCEPT ![p] = 0]
    /\ UNCHANGED fio_pid
=============================================================================
