---------------------------- MODULE DmesgCapture ----------------------------
(***************************************************************************)
(* The capture of a host's kernel log (python/drbdtest.py: FirstWriteTrap, *)
(* Host.start_dmesg_with_cmd, stop_dmesg and teardown; drbdtestlogger.Tee; *)
(* LinuxPlatformHelper.start_dmesg and stop_dmesg).                        *)
(*                                                                         *)
(* A shell on the host prints its process ID and becomes `dmesg --follow'. *)
(* Its output travels over ssh into a local pipe.  A thread of the         *)
(* coordinator reads the pipe in chunks and hands them to a FirstWriteTrap:*)
(* the first chunk is kept as the process ID and wakes the main thread,    *)
(* the others go to a Tee that copies them to a stream, to a log file, and *)
(* to the streams tests add.  At the end the main thread stops the         *)
(* capture, once in teardown(), where it then searches the stream, and     *)
(* once more in cleanup_framework().                                       *)
(*                                                                         *)
(* The critical sections on the condition are single steps here: its lock  *)
(* is held from their beginning to their end, or to the wait.              *)
(***************************************************************************)
EXTENDS Sequences, Naturals, SequencesExt

CONSTANTS
    MaxLines,           \* lines the kernel logs, a bound
    SessionMayExit      \* whether dmesg or the connection can end by itself

ASSUME DmesgAssumption == MaxLines \in Nat /\ SessionMayExit \in BOOLEAN

VARIABLES
    pc,                 \* main thread
    phase,              \* which stop_dmesg() is running: "teardown", "cleanup"
    dmesg_process,      \* Host.dmesg_process is not None
    dmesg_thread,       \* Host.dmesg_thread is not None
    file_open,          \* Host.dmesg_out_file is open
    first_message,      \* FirstWriteTrap.first_message, <<>> for None
    streams,            \* Tee.streams
    thread,             \* state of the thread that runs pipeIO()
    chunk, todo,        \* what it is writing, and to which streams still
    session,            \* the remote shell and dmesg run
    ssh,                \* the local ssh process runs
    logged,             \* messages the remote side has printed
    wire, pipe,         \* on their way: not yet, and already, out of ssh
    received,           \* all that came out of ssh
    out,                \* contents of the streams
    result,             \* what teardown() read from the stream
    stopped             \* the first stop_dmesg() has completed

main == <<pc, phase, dmesg_process, dmesg_thread, file_open, result, stopped>>
reader == <<thread, chunk, todo, first_message, out>>
remote == <<session, ssh, logged, wire, pipe, received>>
vars == <<main, reader, streams, remote>>

Stream == {"stream", "file", "capture"}

\* The process ID is message 0, the log lines are 1, 2, ...
Pid == <<0>>
Message == 0..MaxLines

Unread == <<MaxLines + 1>>

-----------------------------------------------------------------------------
Init ==
    /\ pc = "start"
    /\ phase = "teardown"
    /\ dmesg_process = FALSE
    /\ dmesg_thread = FALSE
    /\ file_open = TRUE
    /\ first_message = <<>>
    /\ streams = {"stream", "file"}
    /\ thread = "new"
    /\ chunk = <<>>
    /\ todo = {}
    /\ session = FALSE
    /\ ssh = FALSE
    /\ logged = 0
    /\ wire = <<>>
    /\ pipe = <<>>
    /\ received = <<>>
    /\ out = [s \in Stream |-> <<>>]
    /\ result = Unread
    /\ stopped = FALSE

-----------------------------------------------------------------------------
(* The host and ssh.                                                       *)

\* The shell prints its ID, dmesg prints lines.
PrintNext ==
    /\ session
    /\ logged <= MaxLines
    /\ wire' = Append(wire, logged)
    /\ logged' = logged + 1
    /\ UNCHANGED <<main, reader, streams, session, ssh, pipe, received>>

\* ssh passes on what arrives.
Forward ==
    /\ ssh
    /\ wire # <<>>
    /\ pipe' = Append(pipe, Head(wire))
    /\ received' = Append(received, Head(wire))
    /\ wire' = Tail(wire)
    /\ UNCHANGED <<main, reader, streams, session, ssh, logged>>

\* dmesg fails, or the connection breaks.
SessionExit ==
    /\ SessionMayExit
    /\ session
    /\ session' = FALSE
    /\ UNCHANGED <<main, reader, streams, ssh, logged, wire, pipe, received>>

\* ssh ends when the remote command has ended and its output is forwarded.
SshExit ==
    /\ ssh
    /\ ~session
    /\ wire = <<>>
    /\ ssh' = FALSE
    /\ UNCHANGED <<main, reader, streams>>
    /\ UNCHANGED <<session, logged, wire, pipe, received>>

-----------------------------------------------------------------------------
(* The thread in pipeIO().                                                 *)

\* Defect: the trap does not notify.
TrapSilently(c) ==
    /\ first_message = <<>>
    /\ first_message' = c
    /\ UNCHANGED <<pc, thread, chunk, todo, out>>

\* FirstWriteTrap.write(), first write: notify() wakes the main thread if it is
\* waiting, and is lost if it is not.
Trap(c) ==
    /\ first_message = <<>>
    /\ first_message' = c
    /\ pc' = IF pc = "waiting" THEN "script" ELSE pc
    /\ UNCHANGED <<thread, chunk, todo, out>>

\* FirstWriteTrap.write(), later writes: Tee.write() iterates over the set that
\* self.streams is at this moment.
BeginTee(c) ==
    /\ first_message # <<>>
    /\ chunk' = c
    /\ todo' = streams
    /\ thread' = "writing"
    /\ UNCHANGED <<pc, first_message, out>>

\* What is there, up to some length, is read at once.
ReadChunk ==
    /\ thread = "reading"
    /\ \E k \in 1..Len(pipe) :
        /\ Trap(SubSeq(pipe, 1, k)) \/ BeginTee(SubSeq(pipe, 1, k))
        /\ pipe' = SubSeq(pipe, k + 1, Len(pipe))
    /\ UNCHANGED <<phase, dmesg_process, dmesg_thread, file_open, result,
                   stopped, streams, session, ssh, logged, wire, received>>

\* Tee.write(), one stream; a closed file raises and ends the thread.
TeeWrite(s) ==
    /\ thread = "writing"
    /\ s \in todo
    /\ IF s = "file" /\ ~file_open
       THEN thread' = "crashed" /\ UNCHANGED <<out, todo>>
       ELSE /\ out' = [out EXCEPT ![s] = @ \o chunk]
            /\ todo' = todo \ {s}
            /\ thread' = IF todo' = {} THEN "reading" ELSE "writing"
    /\ UNCHANGED <<main, streams, remote, chunk, first_message>>

\* End of file: pipeIO() returns.
ReadEnd ==
    /\ thread = "reading"
    /\ pipe = <<>>
    /\ ~ssh
    /\ thread' = "ended"
    /\ UNCHANGED <<main, streams, remote, chunk, todo, first_message, out>>

-----------------------------------------------------------------------------
(* The main thread.                                                        *)

\* start_dmesg_with_cmd() up to thread.start().
Start ==
    /\ pc = "start"
    /\ pc' = "starting"
    /\ dmesg_process' = TRUE
    /\ dmesg_thread' = TRUE
    /\ session' = TRUE
    /\ ssh' = TRUE
    /\ thread' = "reading"
    /\ UNCHANGED <<phase, file_open, result, stopped, streams>>
    /\ UNCHANGED <<chunk, todo, first_message, out>>
    /\ UNCHANGED <<logged, wire, pipe, received>>

\* with condition: condition.wait(), whether the first write has come or not.
Wait ==
    /\ pc = "starting"
    /\ pc' = "waiting"
    /\ UNCHANGED <<phase, dmesg_process, dmesg_thread, file_open, result>>
    /\ UNCHANGED <<stopped, reader, streams, remote>>

\* Defect: the set is changed in place, under the feet of the iteration.
AddCaptureInPlace ==
    /\ pc = "script"
    /\ "capture" \notin streams
    /\ streams' = streams \cup {"capture"}
    /\ thread' = IF thread = "writing" THEN "crashed" ELSE thread
    /\ UNCHANGED <<main, remote, chunk, todo, first_message, out>>

\* Host.add_dmesg_capture(), Tee.add(): a new set replaces the old one.
AddCapture ==
    /\ pc = "script"
    /\ "capture" \notin streams
    /\ streams' = streams \cup {"capture"}
    /\ UNCHANGED <<main, reader, remote>>

\* Host.remove_dmesg_capture(), Tee.remove().
RemoveCapture ==
    /\ pc = "script"
    /\ "capture" \in streams
    /\ streams' = streams \ {"capture"}
    /\ UNCHANGED <<main, reader, remote>>

\* The script ends with teardown(), or raises and leaves it to atexit.
EndScript ==
    /\ pc = "script"
    /\ pc' = "stop"
    /\ phase' \in {"teardown", "cleanup"}
    /\ UNCHANGED <<dmesg_process, dmesg_thread, file_open, result, stopped>>
    /\ UNCHANGED <<reader, streams, remote>>

\* stop_dmesg(), the command that kills the remote session.  It fails when the
\* session is gone or the captured text is not just the process ID.  An
\* exception out of teardown() ends the script, and cleanup_framework() tries
\* again; an exception out of cleanup_framework() ends the clean-up.
Kill ==
    /\ pc = "stop"
    /\ IF ~dmesg_process
       THEN pc' = "terminate" /\ UNCHANGED <<phase, session>>
       ELSE IF session /\ first_message = Pid
       THEN pc' = "terminate" /\ session' = FALSE /\ UNCHANGED phase
       ELSE /\ pc' = IF phase = "teardown" THEN "stop" ELSE "aborted"
            /\ phase' = "cleanup"
            /\ UNCHANGED session
    /\ UNCHANGED <<dmesg_process, dmesg_thread, file_open, result, stopped>>
    /\ UNCHANGED <<reader, streams, ssh, logged, wire, pipe, received>>

\* Defect: the process object is kept after the process was terminated.
TerminateKeeps ==
    /\ pc = "terminate"
    /\ pc' = "join"
    /\ ssh' = FALSE
    /\ wire' = <<>>
    /\ UNCHANGED <<phase, dmesg_process, dmesg_thread, file_open, result>>
    /\ UNCHANGED <<stopped, reader, streams, session, logged, pipe, received>>

\* terminate() and wait() for ssh: what ssh has not forwarded is lost.
Terminate ==
    /\ pc = "terminate"
    /\ pc' = "join"
    /\ ssh' = (ssh /\ ~dmesg_process)
    /\ wire' = IF dmesg_process THEN <<>> ELSE wire
    /\ dmesg_process' = FALSE
    /\ UNCHANGED <<phase, dmesg_thread, file_open, result, stopped>>
    /\ UNCHANGED <<reader, streams, session, logged, pipe, received>>

\* Defect: the thread is a daemon, nobody waits for it.
JoinNot ==
    /\ pc = "join"
    /\ pc' = "close"
    /\ dmesg_thread' = FALSE
    /\ UNCHANGED <<phase, dmesg_process, file_open, result, stopped>>
    /\ UNCHANGED <<reader, streams, remote>>

\* dmesg_thread.join().
Join ==
    /\ pc = "join"
    /\ dmesg_thread => thread \in {"ended", "crashed"}
    /\ pc' = "close"
    /\ dmesg_thread' = FALSE
    /\ UNCHANGED <<phase, dmesg_process, file_open, result, stopped>>
    /\ UNCHANGED <<reader, streams, remote>>

\* The log file is closed and stop_dmesg() returns, to teardown() or to
\* cleanup_framework().
Close ==
    /\ pc = "close"
    /\ file_open' = FALSE
    /\ stopped' = TRUE
    /\ pc' = IF phase = "teardown" THEN "validate" ELSE "done"
    /\ UNCHANGED <<phase, dmesg_process, dmesg_thread, result>>
    /\ UNCHANGED <<reader, streams, remote>>

\* teardown() reads the stream and searches it; atexit follows.
Validate ==
    /\ pc = "validate"
    /\ result' = out["stream"]
    /\ pc' = "stop"
    /\ phase' = "cleanup"
    /\ UNCHANGED <<dmesg_process, dmesg_thread, file_open, stopped>>
    /\ UNCHANGED <<reader, streams, remote>>

-----------------------------------------------------------------------------
MainStep ==
    \/ Start \/ Wait \/ AddCapture \/ RemoveCapture \/ EndScript
    \/ Kill \/ Terminate \/ Join \/ Close \/ Validate

ThreadStep == ReadChunk \/ ReadEnd \/ \E s \in Stream : TeeWrite(s)

HostStep == PrintNext \/ Forward \/ SessionExit \/ SshExit

Next == MainStep \/ ThreadStep \/ HostStep

Spec == Init /\ [][Next]_vars

\* The threads are scheduled, ssh forwards what it gets, and the shell prints
\* its process ID; no assumption that the kernel logs anything.
FairSpec ==
    /\ Spec
    /\ WF_vars(MainStep)
    /\ WF_vars(ThreadStep)
    /\ WF_vars(Forward \/ SshExit)
    /\ WF_vars(logged = 0 /\ PrintNext)

-----------------------------------------------------------------------------
\* teardown() searches everything that came out of ssh after the first chunk:
\* no line is still in the pipe or in the hands of the thread when it reads.
NothingUnsearched ==
    result # Unread =>
        result = SubSeq(received, Len(first_message) + 1, Len(received))

\* The thread never meets a closed file or a set that changes under its
\* iteration, which would silently end the capture.
ThreadSurvives == thread # "crashed"

\* stop_dmesg() never builds the command that kills the remote session from a
\* missing process ID, and stopping a second time, from cleanup_framework(), is
\* harmless after a stop_dmesg() that completed.
StopWorks ==
    /\ pc = "stop" /\ dmesg_process => first_message # <<>>
    /\ stopped => pc # "aborted"

\* A main thread that waits before the first write comes is woken by it; only
\* a remote session that ends without any output leaves it waiting.
WaiterWoken ==
    (pc = "waiting" /\ first_message = <<>>)
    ~> (pc # "waiting" \/ (first_message = <<>> /\ ~session))

\* "Capture the remote process ID before stop_dmesg() is called": starting the
\* capture of a host whose shell answers completes.
StartCompletes == (pc = "starting") ~> (pc = "script")
=============================================================================
