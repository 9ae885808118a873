------------------------- MODULE DmesgCaptureProofs -------------------------
(***************************************************************************)
(* DmesgCapture for any number of lines: the search of teardown() misses   *)
(* nothing that ssh has delivered, the thread never dies, and stop_dmesg() *)
(* can be called again.                                                    *)
(***************************************************************************)
EXTENDS DmesgCapture, SequenceTheorems, TLAPS

Begin == {"start", "starting", "waiting"}
Stopping == {"stop", "terminate", "join", "close", "validate", "done"}

TypeOK ==
    /\ pc \in Begin \cup {"script", "aborted"} \cup Stopping
    /\ thread \in {"new", "reading", "writing", "ended"}
    /\ streams \subseteq Stream /\ {"stream", "file"} \subseteq streams
    /\ todo \subseteq Stream
    /\ logged \in Nat
    /\ first_message \in Seq(Message)
    /\ chunk \in Seq(Message)
    /\ wire \in Seq(Message)
    /\ pipe \in Seq(Message)
    /\ received \in Seq(Message)
    /\ out \in [Stream -> Seq(Message)]

\* What the thread still has to write to the stream.
Pending == IF thread = "writing" /\ "stream" \in todo THEN chunk ELSE <<>>

\* All that came out of ssh is somewhere, in order: kept as process ID, in the
\* stream, in the hands of the thread or in the pipe.
Flow ==
    /\ received = first_message \o (out["stream"] \o (Pending \o pipe))
    /\ first_message = <<>> => out["stream"] = <<>> /\ thread # "writing"

\* The thread ends at the end of the output, and before the file is closed.
Ending ==
    /\ thread = "new" <=> pc = "start"
    /\ thread = "ended" => ~ssh /\ pipe = <<>>
    /\ ~dmesg_thread => pc = "start" \/ thread = "ended"
    /\ pc \in {"close", "validate"} => ~dmesg_thread
    /\ ~file_open => stopped
    /\ stopped => ~dmesg_thread /\ pc \in Stopping
    /\ result # Unread => thread = "ended" /\ result = out["stream"]

\* Nothing is left to kill once stop_dmesg() has terminated ssh.
Stopped ==
    /\ pc \notin Begin => first_message # <<>>
    /\ pc \in {"join", "close", "validate"} => ~dmesg_process
    /\ stopped => ~dmesg_process

IInv == TypeOK /\ Flow /\ Ending /\ Stopped

-----------------------------------------------------------------------------
LEMMA InitIInv == Init => IInv
<1> SUFFICES ASSUME Init PROVE IInv
  OBVIOUS
<1>1. <<>> \in Seq(Message)
  BY EmptySeq
<1>2. TypeOK
  BY <1>1 DEF Init, TypeOK, Begin, Stream
<1>3. Flow
  <2>1. <<>> \o <<>> = <<>>
    BY <1>1, ConcatEmptySeq
  <2>2. out["stream"] = <<>> /\ Pending = <<>> /\ thread # "writing"
    BY DEF Init, Pending, Stream
  <2>3. QED
    BY <2>1, <2>2 DEF Init, Flow
<1>4. Ending /\ Stopped
  BY DEF Init, Ending, Stopped, Begin
<1>5. QED
  BY <1>2, <1>3, <1>4 DEF IInv

\* The pipe is a chunk from its beginning and the rest.
LEMMA Split ==
    ASSUME NEW k \in 1..Len(pipe), pipe \in Seq(Message)
    PROVE  /\ SubSeq(pipe, 1, k) \in Seq(Message)
           /\ SubSeq(pipe, 1, k) # <<>>
           /\ SubSeq(pipe, k + 1, Len(pipe)) \in Seq(Message)
           /\ SubSeq(pipe, 1, k) \o SubSeq(pipe, k + 1, Len(pipe)) = pipe
<1>1. /\ Len(pipe) \in Nat /\ k \in Nat /\ 1 <= k /\ k <= Len(pipe)
      /\ 1 \in 1..(Len(pipe) + 1) /\ k \in 0..Len(pipe)
      /\ Len(pipe) \in k..Len(pipe) /\ 1 - 1 = 0
  OBVIOUS
<1>2. /\ SubSeq(pipe, 1, k) \in Seq(Message)
      /\ Len(SubSeq(pipe, 1, k)) = k
      /\ SubSeq(pipe, k + 1, Len(pipe)) \in Seq(Message)
  BY <1>1
<1>3. SubSeq(pipe, 1, k) # <<>>
  BY <1>1, <1>2, EmptySeq
<1>4. SubSeq(pipe, 1, k) \o SubSeq(pipe, k + 1, Len(pipe))
        = SubSeq(pipe, 1, Len(pipe))
  BY <1>1, ConcatAdjacentSubSeq
<1>5. QED
  BY <1>2, <1>3, <1>4, SubSeqFull

LEMMA Associative ==
    ASSUME NEW s \in Seq(Message), NEW t \in Seq(Message),
           NEW u \in Seq(Message)
    PROVE  (s \o t) \o u = s \o (t \o u)
BY ConcatAssociative

LEMMA PendingType == ASSUME TypeOK PROVE Pending \in Seq(Message)
BY EmptySeq DEF TypeOK, Pending

\* What is added at the end of the pipe is added at the end of the whole.
LEMMA Appended ==
    ASSUME TypeOK, Flow, NEW w \in Seq(Message)
    PROVE  received \o w
            = first_message \o (out["stream"] \o (Pending \o (pipe \o w)))
<1> DEFINE f == first_message
           o == out["stream"]
           g == Pending \o pipe
           h == o \o g
<1>1. f \in Seq(Message) /\ o \in Seq(Message) /\ received = f \o h
  BY DEF TypeOK, Flow, Stream
<1>2. Pending \in Seq(Message) /\ pipe \in Seq(Message)
  BY PendingType DEF TypeOK
<1> HIDE DEF f, o
<1>3. g \in Seq(Message) /\ g \o w = Pending \o (pipe \o w)
  BY <1>2, ConcatProperties, Associative
<1> HIDE DEF g
<1>4. h \in Seq(Message) /\ h \o w = o \o (g \o w)
  BY <1>1, <1>3, ConcatProperties, Associative
<1> HIDE DEF h
<1>5. (f \o h) \o w = f \o (h \o w)
  BY ONLY <1>1, <1>4, w \in Seq(Message), Associative
<1>6. QED
  BY <1>1, <1>3, <1>4, <1>5 DEF f, o

\* The thread reads a chunk and keeps it or begins to write it.
LEMMA ReadChunkIInv == ASSUME IInv, ReadChunk PROVE IInv'
<1>1. PICK k \in 1..Len(pipe) :
        /\ Trap(SubSeq(pipe, 1, k)) \/ BeginTee(SubSeq(pipe, 1, k))
        /\ pipe' = SubSeq(pipe, k + 1, Len(pipe))
  BY DEF ReadChunk
<1> DEFINE c == SubSeq(pipe, 1, k)
           r == SubSeq(pipe, k + 1, Len(pipe))
<1>2. /\ c \in Seq(Message) /\ r \in Seq(Message) /\ c # <<>>
      /\ c \o r = pipe /\ pipe' = r /\ pipe \in Seq(Message)
  BY <1>1, Split DEF IInv, TypeOK
<1>3. Trap(c) \/ BeginTee(c)
  BY <1>1
<1>4. /\ thread = "reading" /\ Pending = <<>>
      /\ UNCHANGED <<phase, dmesg_process, dmesg_thread, file_open, result,
                   stopped, streams, session, ssh, logged, wire, received>>
  BY DEF ReadChunk, Pending
<1>5. first_message \in Seq(Message) /\ out["stream"] \in Seq(Message)
  BY DEF IInv, TypeOK, Stream
<1> HIDE DEF c, r
<1>6. received = first_message \o (out["stream"] \o pipe)
  BY <1>2, <1>4, ConcatEmptySeq DEF IInv, Flow
<1>7. CASE Trap(c)
  <2>1. /\ first_message = <<>> /\ first_message' = c
        /\ pc' = (IF pc = "waiting" THEN "script" ELSE pc)
        /\ UNCHANGED <<thread, chunk, todo, out>>
    BY <1>7 DEF Trap
  <2>2. TypeOK'
    BY <1>2, <1>4, <2>1 DEF IInv, TypeOK, Begin
  <2>3. Flow'
    <3>1. out["stream"] = <<>> /\ Pending' = <<>>
      BY <1>4, <2>1 DEF IInv, Flow, Pending
    <3>2. received = pipe
      BY <1>2, <1>6, <2>1, <3>1, ConcatEmptySeq
    <3>3. <<>> \o (<<>> \o r) = r
      BY <1>2, ConcatEmptySeq
    <3>4. received' = c \o (<<>> \o (<<>> \o r))
      BY <1>2, <1>4, <3>2, <3>3
    <3>5. QED
      BY <1>2, <1>4, <2>1, <3>1, <3>4 DEF Flow
  <2>4. Ending' /\ Stopped'
    BY <1>2, <1>4, <2>1 DEF IInv, Ending, Stopped, Begin, Stopping
  <2>5. QED
    BY <2>2, <2>3, <2>4 DEF IInv
<1>8. CASE BeginTee(c)
  <2>1. /\ first_message # <<>> /\ chunk' = c /\ todo' = streams
        /\ thread' = "writing" /\ UNCHANGED <<pc, first_message, out>>
    BY <1>8 DEF BeginTee
  <2>2. TypeOK'
    BY <1>2, <1>4, <2>1 DEF IInv, TypeOK
  <2>3. Flow'
    <3>1. Pending' = c
      BY <2>1 DEF IInv, TypeOK, Pending
    <3>2. received' = first_message' \o (out'["stream"] \o (c \o r))
      BY <1>2, <1>4, <1>6, <2>1
    <3>3. QED
      BY <1>2, <2>1, <3>1, <3>2 DEF Flow
  <2>4. Ending' /\ Stopped'
    BY <1>4, <2>1 DEF IInv, Ending, Stopped, Begin, Stopping
  <2>5. QED
    BY <2>2, <2>3, <2>4 DEF IInv
<1>9. QED
  BY <1>3, <1>7, <1>8

\* The thread writes to one stream.
LEMMA TeeWriteIInv ==
    ASSUME IInv, NEW s \in Stream, TeeWrite(s) PROVE IInv'
<1>1. file_open
  BY DEF IInv, TypeOK, Ending, TeeWrite, Stopping
<1>2. /\ thread = "writing" /\ s \in todo
      /\ out' = [out EXCEPT ![s] = @ \o chunk]
      /\ todo' = todo \ {s}
      /\ thread' = (IF todo' = {} THEN "reading" ELSE "writing")
      /\ UNCHANGED <<main, streams, remote, chunk, first_message>>
  BY <1>1 DEF TeeWrite
<1>3. TypeOK'
  <2>1. out[s] \o chunk \in Seq(Message)
    BY ConcatProperties DEF IInv, TypeOK
  <2>2. out' \in [Stream -> Seq(Message)]
    BY <1>2, <2>1 DEF IInv, TypeOK
  <2>3. QED
    BY <1>2, <2>2 DEF IInv, TypeOK, main, remote
<1>4. Flow'
  <2> DEFINE f == first_message
             o == out["stream"]
  <2>1. /\ f \in Seq(Message) /\ o \in Seq(Message) /\ chunk \in Seq(Message)
        /\ pipe \in Seq(Message) /\ f # <<>>
        /\ received = f \o (o \o (Pending \o pipe))
    BY <1>2 DEF IInv, TypeOK, Flow, Stream
  <2>2. UNCHANGED <<received, pipe, first_message, chunk>>
    BY <1>2 DEF remote
  <2>3. CASE s = "stream"
    <3>1. out'["stream"] = o \o chunk /\ Pending' = <<>> /\ Pending = chunk
      BY <1>2, <2>3 DEF IInv, TypeOK, Pending, Stream
    <3> HIDE DEF f, o
    <3>2. o \o (chunk \o pipe) = (o \o chunk) \o pipe
      BY <2>1, Associative
    <3>3. <<>> \o pipe = pipe
      BY <2>1, ConcatEmptySeq
    <3>4. received = f \o ((o \o chunk) \o (<<>> \o pipe))
      BY <2>1, <3>1, <3>2, <3>3
    <3>5. QED
      BY <2>1, <2>2, <3>1, <3>4 DEF Flow, f
  <2>4. CASE s # "stream"
    <3>1. out'["stream"] = o
      BY <1>2, <2>4 DEF IInv, TypeOK, Stream
    <3>2. Pending' = Pending
      BY <1>2, <2>2, <2>4 DEF Pending
    <3>3. QED
      BY <2>1, <2>2, <3>1, <3>2 DEF Flow
  <2>5. QED
    BY <2>3, <2>4
<1>5. Ending' /\ Stopped'
  BY <1>2 DEF main, remote, IInv, Ending, Stopped
<1>6. QED
  BY <1>3, <1>4, <1>5 DEF IInv

LEMMA ReadEndIInv == ASSUME IInv, ReadEnd PROVE IInv'
<1>1. /\ thread = "reading" /\ thread' = "ended" /\ pipe = <<>> /\ ~ssh
      /\ UNCHANGED <<main, streams, remote, chunk, todo, first_message, out>>
  BY DEF ReadEnd
<1>2. TypeOK'
  BY <1>1 DEF IInv, TypeOK, main, remote
<1>3. Flow'
  <2>1. Pending' = Pending
    BY <1>1 DEF Pending
  <2>2. QED
    BY <1>1, <2>1 DEF IInv, Flow, remote
<1>4. Ending' /\ Stopped'
  BY <1>1 DEF main, remote, IInv, Ending, Stopped
<1>5. QED
  BY <1>2, <1>3, <1>4 DEF IInv

-----------------------------------------------------------------------------
\* The host and ssh.
LEMMA HostIInv == ASSUME IInv, HostStep PROVE IInv'
<1> USE DEF main, reader
<1>1. CASE PrintNext
  <2>1. wire' \in Seq(Message) /\ logged' \in Nat
    <3>1. logged \in Message /\ logged + 1 \in Nat
      BY <1>1, DmesgAssumption DEF IInv, TypeOK, PrintNext, Message
    <3>2. QED
      BY <1>1, <3>1, AppendProperties DEF IInv, TypeOK, PrintNext
  <2>2. UNCHANGED <<main, reader, streams, session, ssh, pipe, received>>
    BY <1>1 DEF PrintNext
  <2>3. TypeOK'
    BY <2>1, <2>2 DEF IInv, TypeOK
  <2>4. Pending' = Pending
    BY <2>2 DEF Pending
  <2>5. QED
    BY <2>2, <2>3, <2>4 DEF IInv, Flow, Ending, Stopped
<1>2. CASE Forward
  <2> DEFINE m == Head(wire)
  <2>1. /\ ssh /\ wire # <<>> /\ wire' = Tail(wire)
        /\ pipe' = Append(pipe, m) /\ received' = Append(received, m)
        /\ UNCHANGED <<main, reader, streams, session, ssh, logged>>
    BY <1>2 DEF Forward
  <2>2. m \in Message /\ wire' \in Seq(Message)
    BY <2>1, HeadTailProperties DEF IInv, TypeOK
  <2>3. /\ pipe \in Seq(Message) /\ received \in Seq(Message)
        /\ first_message \in Seq(Message) /\ out["stream"] \in Seq(Message)
        /\ Pending \in Seq(Message)
    BY PendingType DEF IInv, TypeOK, Stream
  <2> HIDE DEF m
  <2>4. /\ pipe' \in Seq(Message) /\ received' \in Seq(Message)
        /\ pipe' = pipe \o <<m>> /\ received' = received \o <<m>>
        /\ <<m>> \in Seq(Message)
    BY <2>1, <2>2, <2>3, AppendProperties, AppendIsConcat
  <2>5. TypeOK'
    BY <2>1, <2>2, <2>4 DEF IInv, TypeOK
  <2>6. Pending' = Pending
    BY <2>1 DEF Pending
  <2>7. Flow'
    <3>1. received \o <<m>> = first_message
            \o (out["stream"] \o (Pending \o (pipe \o <<m>>)))
      BY <2>4, Appended DEF IInv
    <3>2. QED
      BY <2>1, <2>4, <2>6, <3>1 DEF IInv, Flow
  <2>8. Ending' /\ Stopped'
    BY <2>1 DEF IInv, Ending, Stopped
  <2>9. QED
    BY <2>5, <2>7, <2>8 DEF IInv
<1>3. CASE SessionExit \/ SshExit
  <2>1. /\ UNCHANGED <<main, reader, streams, logged, wire, pipe, received>>
        /\ ~ssh => ~ssh'
    BY <1>3 DEF SessionExit, SshExit
  <2>2. Pending' = Pending
    BY <2>1 DEF Pending
  <2>3. QED
    BY <2>1, <2>2 DEF IInv, TypeOK, Flow, Ending, Stopped
<1>4. QED
  BY <1>1, <1>2, <1>3 DEF HostStep

-----------------------------------------------------------------------------
\* The main thread leaves the contents of pipe and streams alone.
LEMMA MainFlow ==
    ASSUME IInv, MainStep
    PROVE  /\ Flow'
           /\ UNCHANGED <<chunk, todo, first_message, out, logged, pipe,
                          received>>
           /\ pc # "start" => UNCHANGED thread
<1>1. /\ UNCHANGED <<chunk, todo, first_message, out, logged, pipe, received>>
      /\ pc # "start" => UNCHANGED thread
      /\ pc = "start" => thread' = "reading"
  BY DEF MainStep, Start, Wait, AddCapture, RemoveCapture, EndScript, Kill,
     Terminate, Join, Close, Validate, main, reader, remote
<1>2. Pending' = Pending
  BY <1>1 DEF Pending, IInv, Ending
<1>3. thread # "writing" => thread' # "writing"
  BY <1>1
<1>4. QED
  BY <1>1, <1>2, <1>3 DEF IInv, Flow

LEMMA MainIInv == ASSUME IInv, MainStep PROVE IInv'
<1>1. /\ Flow'
      /\ UNCHANGED <<chunk, todo, first_message, out, logged, pipe, received>>
      /\ pc # "start" => UNCHANGED thread
  BY MainFlow
<1>2. TypeOK'
  <2>1. wire' \in Seq(Message) /\ streams' \subseteq Stream
        /\ {"stream", "file"} \subseteq streams'
    BY EmptySeq
       DEF MainStep, Start, Wait, AddCapture, RemoveCapture, EndScript, Kill,
       Terminate, Join, Close, Validate, main, reader, remote, IInv, TypeOK,
       Stream
  <2>2. /\ pc' \in Begin \cup {"script", "aborted"} \cup Stopping
        /\ thread' \in {"new", "reading", "writing", "ended"}
    BY <1>1 DEF MainStep, Start, Wait, AddCapture, RemoveCapture, EndScript,
       Kill, Terminate, Join, Close, Validate, main, IInv, TypeOK, Begin,
       Stopping
  <2>3. QED
    BY <1>1, <2>1, <2>2 DEF IInv, TypeOK
<1>3. Ending' /\ Stopped'
  <2> USE <1>1 DEF IInv, TypeOK, Ending, Stopped, Begin, Stopping
  <2>1. CASE Start
    BY <2>1 DEF Start
  <2>2. CASE Wait \/ EndScript
    BY <2>2 DEF Wait, EndScript, reader, remote
  <2>3. CASE AddCapture \/ RemoveCapture
    BY <2>3 DEF AddCapture, RemoveCapture, main, remote
  <2>4. CASE Kill
    BY <2>4 DEF Kill
  <2>5. CASE Terminate
    BY <2>5 DEF Terminate
  <2>6. CASE Join
    BY <2>6 DEF Join, remote
  <2>7. CASE Close
    BY <2>7 DEF Close, remote
  <2>8. CASE Validate
    BY <2>8 DEF Validate, remote
  <2>9. QED
    BY <2>1, <2>2, <2>3, <2>4, <2>5, <2>6, <2>7, <2>8 DEF MainStep
<1>4. QED
  BY <1>1, <1>2, <1>3 DEF IInv

LEMMA NextIInv == IInv /\ [Next]_vars => IInv'
<1> SUFFICES ASSUME IInv, [Next]_vars PROVE IInv'
  OBVIOUS
<1>1. CASE Next
  BY <1>1, MainIInv, HostIInv, ReadChunkIInv, ReadEndIInv, TeeWriteIInv
     DEF Next, ThreadStep
<1>2. CASE UNCHANGED vars
  <2> USE <1>2 DEF vars, main, reader, remote
  <2>1. Pending' = Pending
    BY DEF Pending
  <2>2. QED
    BY <2>1 DEF IInv, TypeOK, Flow, Ending, Stopped
<1>3. QED
  BY <1>1, <1>2

LEMMA AlwaysIInv == Spec => []IInv
BY InitIInv, NextIInv, PTL DEF Spec

-----------------------------------------------------------------------------
(* The theorems.                                                           *)

\* What teardown() searches is all that came out of ssh after the process ID,
\* for any number of lines and any way of reading them in chunks.
THEOREM NothingEverUnsearched == Spec => []NothingUnsearched
<1>1. ASSUME IInv, result # Unread
      PROVE  result = SubSeq(received, Len(first_message) + 1, Len(received))
  <2> DEFINE f == first_message
             o == out["stream"]
  <2>1. /\ thread = "ended" /\ pipe = <<>> /\ result = o /\ Pending = <<>>
        /\ f \in Seq(Message) /\ o \in Seq(Message)
        /\ received = f \o (o \o (Pending \o pipe))
    BY <1>1 DEF IInv, TypeOK, Ending, Flow, Pending, Stream
  <2> HIDE DEF f, o
  <2>2. o \o (<<>> \o <<>>) = o
    BY <2>1, ConcatEmptySeq, EmptySeq
  <2>3. received = f \o o
    BY <2>1, <2>2
  <2>4. /\ Len(f) \in Nat /\ Len(o) \in Nat
        /\ Len(received) = Len(f) + Len(o)
    BY <2>1, <2>3, ConcatProperties
  <2>5. SubSeq(received, Len(f) + 1, Len(received)) = o
    <3>1. CASE o = <<>>
      <4>1. Len(received) < Len(f) + 1
        BY <2>4, <3>1
      <4>2. QED
        BY <2>4, <3>1, <4>1, SubSeqEmpty
    <3>2. CASE o # <<>>
      <4> DEFINE m == Len(f) + 1
                 n == Len(received)
      <4>1. /\ m \in Len(f)+1..Len(f)+Len(o) /\ n \in Len(f)+1..Len(f)+Len(o)
            /\ m - Len(f) = 1 /\ n - Len(f) = Len(o)
        <5>1. Len(o) > 0
          BY <2>1, <3>2, EmptySeq
        <5>2. QED
          BY <2>4, <5>1
      <4> HIDE DEF m, n
      <4>2. SubSeq(f \o o, m, n) = SubSeq(o, m - Len(f), n - Len(f))
        BY <2>1, <4>1, SubSeqOfConcat2
      <4>3. SubSeq(o, 1, Len(o)) = o
        BY <2>1, SubSeqFull
      <4>4. QED
        BY <2>3, <4>1, <4>2, <4>3 DEF m, n
    <3>3. QED
      BY <3>1, <3>2
  <2>6. QED
    BY <2>1, <2>5 DEF f
<1>2. IInv => NothingUnsearched
  BY <1>1 DEF NothingUnsearched
<1>3. QED
  BY <1>2, AlwaysIInv, PTL

\* The thread never writes to a closed log file: stop_dmesg() waits for it
\* before it closes the file (Host.stop_dmesg, Tee.write).
THEOREM ThreadAlwaysSurvives == Spec => []ThreadSurvives
<1>1. IInv => ThreadSurvives
  BY DEF IInv, TypeOK, ThreadSurvives
<1>2. QED
  BY <1>1, AlwaysIInv, PTL

\* A process ID is there whenever stop_dmesg() is to kill the session, and a
\* second stop_dmesg() does not raise (Host.stop_dmesg).
THEOREM StopAlwaysWorks == Spec => []StopWorks
<1>1. IInv => StopWorks
  BY DEF IInv, TypeOK, Ending, Stopped, StopWorks, Begin, Stopping
<1>2. QED
  BY <1>1, AlwaysIInv, PTL
=============================================================================
