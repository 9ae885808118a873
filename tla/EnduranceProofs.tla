--------------------------- MODULE EnduranceProofs --------------------------
(***************************************************************************)
(* Endurance for any number of nodes and tests, and any times.             *)
(***************************************************************************)
EXTENDS Endurance, TLAPS

Rounds == {"event", "stop", "loop"}
Load == Rounds \cup {"start", "sleep", "wait"}
Before == {"new", "setup", "slow", "delay"}
After == {"undelay", "teardown"}
Quiet == Before \cup After \cup {"start", "loop", "sleep", "reset", "done"}

TypeOK ==
    /\ pc \in Load \cup Before \cup After \cup {"script", "reset", "done",
                                                "failed"}
    /\ config \in Config
    /\ clock \in Nat
    /\ gap \in BOOLEAN
    /\ made \subseteq Node
    /\ root \subseteq Node
    /\ slow \in [Node -> SUBSET Node]
    /\ fio \in [Pid -> {"none", "running", "ending"}]
    /\ left \in [Pid -> Nat]
    /\ fio_pid \in Pid \cup {NoPid}

\* Which kind of test can be where.
Kinds ==
    /\ pc \in Before \cup After \cup {"start", "loop", "sleep"}
            => config.kind # "script"
    /\ pc \in Rounds => config.kind = "resync"
    /\ pc = "sleep" => config.kind = "run"
    /\ pc = "script" => config.kind = "script"

\* There is no process but the one whose pid is known.
Writer ==
    /\ \A p \in Pid : fio[p] # "none" => p = fio_pid
    /\ pc \in Quiet => fio_pid = NoPid

\* The disks are slow between set_delay_ms() and its counterpart, only.
Delays ==
    /\ pc \in Before \cup {"script", "teardown", "reset", "done"}
            => delay = {}
    /\ config.kind = "script" /\ pc = "wait" => delay = {}

\* What is shaped was shaped by this test or by one that failed.
Shaping ==
    /\ \A n \in Node : slow[n] # {} => n \in root
    /\ root \subseteq made \cup tainted
    /\ Over => root \subseteq tainted
    /\ config.kind = "script" => made \subseteq {0}

\* How far this test has come with its own shaping.
Progress ==
    /\ pc = "new" =>
            /\ i \in Node /\ made = 0..(i - 1)
            /\ config.kind = "run" => i = 0
            /\ config.kind = "resync" => config.rate
            /\ \A n \in made : slow[n] = Peers(n)
    /\ pc = "setup" =>
            /\ i = 0
            /\ config.kind = "run" => made = {0} /\ slow[0] = {}
            /\ config.kind = "resync" => made = {}
    /\ pc = "slow" =>
            /\ i \in Node /\ made = 0..i /\ config.rate
            /\ config.kind = "run" => i = 0
            /\ \A n \in 0..(i - 1) : slow[n] = Peers(n)
    /\ pc \in Load \cup {"delay"} /\ config.kind # "script" =>
            /\ \A n \in made : slow[n] = Asked(n)
            /\ config.kind = "run" => made = {0}
            /\ config.kind = "resync" /\ config.rate => made = Node

\* An fio that was gone at an event stays away, and stop() does not get past
\* its kill.
NoGap ==
    /\ config.kind = "resync" /\ gap => pc \in {"event", "stop", "failed"}
    /\ pc \in {"event", "stop"} /\ gap => ~is_running

IInv ==
    /\ TypeOK
    /\ Kinds
    /\ Writer
    /\ Delays
    /\ Shaping
    /\ Progress
    /\ NoGap

-----------------------------------------------------------------------------
LEMMA NodeFacts ==
    /\ N \in Nat /\ 0 \in Node /\ N \notin Node
    /\ Node = 0..(N - 1)
    /\ \A n \in Node : n \in Nat /\ n < N
BY NAssumption DEF Node

LEMMA TimeFacts ==
    TestRuntime \in Nat \ {0} /\ FioRuntime \in Nat \ {0}
BY EnduranceAssumption

\* A test is one of three kinds and begins accordingly.
LEMMA EntryKind ==
    ASSUME NEW c \in Config
    PROVE  \/ c.kind = "run" /\ Entry(c.kind) = "new"
           \/ c.kind = "resync" /\ Entry(c.kind) = "setup"
           \/ c.kind = "script" /\ Entry(c.kind) = "script"
BY DEF Config, Kind, Entry

LEMMA KindValues == TypeOK => config.kind \in {"run", "resync", "script"}
BY DEF TypeOK, Config, Kind

LEMMA InitIInv == Init => IInv
<1> SUFFICES ASSUME Init PROVE IInv
  OBVIOUS
<1> USE DEF Init, WriterInit, TcInit
<1>1. TypeOK
  BY DEF TypeOK, Config, Kind, Pid, NoPid
<1>2. Kinds /\ Writer /\ Delays
  BY DEF Kinds, Writer, Delays, Before, After, Rounds
<1>3. Shaping /\ Progress /\ NoGap
  BY DEF Shaping, Progress, NoGap, Before, Load, Rounds
<1>4. QED
  BY <1>1, <1>2, <1>3 DEF IInv

-----------------------------------------------------------------------------
(* The steps of the writer, of the traffic control and of the test.        *)

LEMMA StartPid ==
    ASSUME TypeOK, NEW runtime \in Nat, Start(runtime)
    PROVE  \E p \in Pid :
             /\ fio' = [fio EXCEPT ![p] = "running"]
             /\ left' = [left EXCEPT ![p] = runtime]
             /\ fio_pid' = p
BY DEF Start

LEMMA TypeStep == ASSUME IInv, Next PROVE TypeOK'
<1> USE DEF IInv, bookkeeping, time, Load, Before, After, Rounds
<1>1. ASSUME NEW c \in Config, NextTest(c) PROVE TypeOK'
  BY <1>1, EntryKind DEF NextTest, Begins, TypeOK, Pid, NoPid, tc
<1>2. CASE MakeTc
  <2>1. i \in Node
    BY <1>2 DEF MakeTc, Progress
  <2>2. root' \subseteq Node /\ slow' \in [Node -> SUBSET Node]
        /\ made' \subseteq Node
    BY <1>2, <2>1 DEF MakeTc, NewTc, TypeOK
  <2>3. QED
    BY <1>2, <2>2 DEF MakeTc, TypeOK, writer
<1>3. CASE Setup \/ SlowedDown \/ SetDelay \/ Loop \/ Event \/ Slept
  BY <1>3 DEF Setup, SlowedDown, SetDelay, Loop, Event, Slept, TypeOK,
     writer, tc
<1>4. CASE ClearDelay \/ Teardown \/ Fail \/ ScriptEnds
  BY <1>4 DEF ClearDelay, Teardown, Fail, ScriptEnds, TypeOK, writer, tc
<1>5. ASSUME NEW to \in Node, SlowDownNext(to) PROVE TypeOK'
  <2>1. root' \subseteq Node /\ slow' \in [Node -> SUBSET Node]
    BY <1>5 DEF SlowDownNext, SlowDown, TypeOK
  <2>2. QED
    BY <1>5, <2>1 DEF SlowDownNext, TypeOK, writer
<1>6. CASE StartFio \/ ScriptStart
  <2>1. /\ fio' \in [Pid -> {"none", "running", "ending"}]
        /\ left' \in [Pid -> Nat]
        /\ fio_pid' \in Pid \cup {NoPid}
    BY <1>6, StartPid, TimeFacts DEF StartFio, ScriptStart, TypeOK
  <2>2. QED
    BY <1>6, <2>1 DEF StartFio, ScriptStart, TypeOK, tc
<1>7. CASE StopWriter \/ ScriptStop
  <2>1. fio' \in [Pid -> {"none", "running", "ending"}]
        /\ UNCHANGED <<left, fio_pid>>
    BY <1>7 DEF StopWriter, ScriptStop, Kill, TypeOK, writer
  <2>2. QED
    BY <1>7, <2>1 DEF StopWriter, ScriptStop, TypeOK, tc
<1>8. CASE AwaitWriter
  BY <1>8 DEF AwaitWriter, Wait, TypeOK, tc
<1>9. ASSUME NEW p \in Pid, FioEndsHere(p) PROVE TypeOK'
  <2>1. fio' \in [Pid -> {"none", "running", "ending"}]
        /\ left' \in [Pid -> Nat] /\ UNCHANGED fio_pid
    BY <1>9 DEF FioEndsHere, FioEnds, TypeOK
  <2>2. QED
    BY <1>9, <2>1 DEF FioEndsHere, TypeOK, tc
<1>10. CASE Tick
  <2>1. left' \in [Pid -> Nat] /\ clock' \in Nat
    BY <1>10 DEF Tick, TypeOK
  <2>2. QED
    BY <1>10, <2>1 DEF Tick, TypeOK, tc
<1>11. CASE Reset
  <2>1. root' \subseteq Node /\ slow' \in [Node -> SUBSET Node]
    BY <1>11 DEF Reset, ResetTc, TypeOK, tc
  <2>2. pc' \in {"reset", "done"}
    BY <1>11 DEF Reset
  <2>3. QED
    BY <1>11, <2>1, <2>2 DEF Reset, TypeOK, writer
<1>12. CASE ScriptTc
  <2>1. root' \subseteq Node /\ slow' \in [Node -> SUBSET Node]
        /\ made' \subseteq Node
    <3>1. CASE NewTc(0) /\ made' = {0}
      BY <3>1, NodeFacts DEF NewTc, TypeOK
    <3>2. ASSUME NEW to \in Peers(0), UNCHANGED made,
                 SlowDown(0, to) \/ RemoveSlowDown(0, to)
          PROVE  root' \subseteq Node /\ slow' \in [Node -> SUBSET Node]
                 /\ made' \subseteq Node
      <4>1. to \in Node /\ 0 \in Node /\ slow[0] \subseteq Node
        BY NodeFacts DEF Peers, TypeOK
      <4>2. \/ slow' = [slow EXCEPT ![0] = slow[0] \cup {to}]
            \/ slow' = [slow EXCEPT ![0] = slow[0] \ {to}]
        BY <3>2 DEF SlowDown, RemoveSlowDown
      <4>3. slow' \in [Node -> SUBSET Node]
        BY <4>1, <4>2 DEF TypeOK
      <4>4. QED
        BY <3>2, <4>3 DEF SlowDown, RemoveSlowDown, TypeOK
    <3>3. CASE ResetTc(0) /\ UNCHANGED made
      BY <3>3, NodeFacts DEF ResetTc, TypeOK
    <3>4. QED
      BY <1>12, <3>1, <3>2, <3>3 DEF ScriptTc
  <2>2. QED
    BY <1>12, <2>1 DEF ScriptTc, TypeOK, writer
<1>13. CASE MakeTcFails
  <2>1. PICK n \in Node : NewTcFails(n)
    BY <1>13, NodeFacts DEF MakeTcFails, Progress
  <2>2. root' \subseteq Node /\ slow' \in [Node -> SUBSET Node]
    BY <2>1 DEF NewTcFails, TypeOK
  <2>3. QED
    BY <1>13, <2>2 DEF MakeTcFails, TypeOK, writer
<1>14. QED
  BY <1>1, <1>2, <1>3, <1>4, <1>5, <1>6, <1>7, <1>8, <1>9, <1>10, <1>11,
     <1>12, <1>13 DEF Next

LEMMA KindsStep == ASSUME IInv, Next PROVE Kinds'
<1> USE DEF IInv, Kinds, bookkeeping, Load, Before, After, Rounds
<1>0. config.kind \in {"run", "resync", "script"}
  BY KindValues
<1>1. ASSUME NEW c \in Config, NextTest(c) PROVE Kinds'
  BY <1>1, EntryKind DEF NextTest, Begins
<1>2. CASE MakeTc \/ Setup \/ SlowedDown \/ SetDelay
  BY <1>0, <1>2 DEF MakeTc, Setup, SlowedDown, SetDelay
<1>3. ASSUME NEW to \in Node, SlowDownNext(to) PROVE Kinds'
  BY <1>3 DEF SlowDownNext
<1>4. CASE Loop \/ StartFio \/ Event \/ StopWriter \/ AwaitWriter \/ Slept
  BY <1>0, <1>4 DEF Loop, StartFio, Event, StopWriter, AwaitWriter, Slept
<1>5. CASE Tick
  BY <1>5 DEF Tick
<1>6. ASSUME NEW p \in Pid, FioEndsHere(p) PROVE Kinds'
  BY <1>6 DEF FioEndsHere
<1>7. CASE ClearDelay \/ Teardown \/ Reset \/ Fail \/ MakeTcFails
  BY <1>7 DEF ClearDelay, Teardown, Reset, Fail, MakeTcFails
<1>8. CASE ScriptTc \/ ScriptStart \/ ScriptStop \/ ScriptEnds
  BY <1>8 DEF ScriptTc, ScriptStart, ScriptStop, ScriptEnds
<1>9. QED
  BY <1>1, <1>2, <1>3, <1>4, <1>5, <1>6, <1>7, <1>8 DEF Next

\* There is never a second process, and none where none is expected.
LEMMA WriterStep == ASSUME IInv, Next PROVE Writer'
<1> USE DEF IInv, Writer, Quiet, Before, After
<1>1. ASSUME NEW c \in Config, NextTest(c) PROVE Writer'
  BY <1>1 DEF NextTest, Begins
<1>2. CASE MakeTc \/ Setup \/ SlowedDown \/ SetDelay \/ Loop \/ Slept
  BY <1>2 DEF MakeTc, Setup, SlowedDown, SetDelay, Loop, Slept, writer
<1>3. ASSUME NEW to \in Node, SlowDownNext(to) PROVE Writer'
  BY <1>3 DEF SlowDownNext, writer
<1>4. CASE StartFio \/ ScriptStart
  <2>1. PICK p \in Pid : /\ fio' = [fio EXCEPT ![p] = "running"]
                         /\ fio_pid' = p
    BY <1>4, StartPid, TimeFacts DEF StartFio, ScriptStart
  <2>2. fio_pid = NoPid /\ pc' \in {"wait", "event", "script"}
    BY <1>4 DEF StartFio, ScriptStart
  <2>3. QED
    BY <2>1, <2>2 DEF TypeOK, Pid, NoPid
<1>5. CASE StopWriter \/ ScriptStop
  BY <1>5 DEF StopWriter, ScriptStop, Kill, TypeOK, writer, Pid, NoPid,
     is_running
<1>6. CASE AwaitWriter
  BY <1>6 DEF AwaitWriter, Wait, is_running
<1>7. CASE Event \/ Tick
  BY <1>7 DEF Event, Tick, writer
<1>8. ASSUME NEW p \in Pid, FioEndsHere(p) PROVE Writer'
  BY <1>8 DEF FioEndsHere, FioEnds, TypeOK
<1>9. CASE ClearDelay \/ Teardown \/ Reset \/ Fail \/ MakeTcFails
  BY <1>9 DEF ClearDelay, Teardown, Reset, Fail, MakeTcFails, writer
<1>10. CASE ScriptTc \/ ScriptEnds
  BY <1>10 DEF ScriptTc, ScriptEnds, writer
<1>11. QED
  BY <1>1, <1>2, <1>3, <1>4, <1>5, <1>6, <1>7, <1>8, <1>9, <1>10 DEF Next

LEMMA DelaysStep == ASSUME IInv, Next PROVE Delays'
<1> USE DEF IInv, Delays, Kinds, bookkeeping, Before, After
<1>1. ASSUME NEW c \in Config, NextTest(c) PROVE Delays'
  BY <1>1 DEF NextTest, Begins
<1>2. CASE MakeTc \/ Setup \/ SlowedDown \/ SetDelay
  BY <1>2 DEF MakeTc, Setup, SlowedDown, SetDelay
<1>3. ASSUME NEW to \in Node, SlowDownNext(to) PROVE Delays'
  BY <1>3 DEF SlowDownNext
<1>4. CASE Loop \/ StartFio \/ Event \/ StopWriter \/ AwaitWriter \/ Slept
  BY <1>4, KindValues
     DEF Loop, StartFio, Event, StopWriter, AwaitWriter, Slept, Rounds
<1>5. CASE Tick
  BY <1>5 DEF Tick
<1>6. ASSUME NEW p \in Pid, FioEndsHere(p) PROVE Delays'
  BY <1>6 DEF FioEndsHere
<1>7. CASE ClearDelay \/ Teardown \/ Reset \/ Fail \/ MakeTcFails
  BY <1>7 DEF ClearDelay, Teardown, Reset, Fail, MakeTcFails
<1>8. CASE ScriptTc \/ ScriptStart \/ ScriptStop \/ ScriptEnds
  BY <1>8 DEF ScriptTc, ScriptStart, ScriptStop, ScriptEnds
<1>9. QED
  BY <1>1, <1>2, <1>3, <1>4, <1>5, <1>6, <1>7, <1>8 DEF Next

\* Whatever fails: what stays shaped is known to be.
LEMMA ShapingStep == ASSUME IInv, Next PROVE Shaping'
<1> USE DEF IInv, Shaping, Over, bookkeeping
<1>1. ASSUME NEW c \in Config, NextTest(c) PROVE Shaping'
  BY <1>1, EntryKind DEF NextTest, Begins, tc
<1>2. CASE MakeTc
  <2>1. i \in Node /\ pc' \notin {"done", "failed"} /\ config' = config
        /\ config.kind # "script"
    BY <1>2 DEF MakeTc, Progress, Kinds, Before
  <2>2. /\ root' = root \cup {i} /\ slow' = [slow EXCEPT ![i] = {}]
        /\ made' = made \cup {i} /\ tainted' = tainted \ {i}
    BY <1>2 DEF MakeTc, NewTc
  <2>3. QED
    BY <2>1, <2>2 DEF TypeOK
<1>3. CASE Setup \/ SlowedDown \/ SetDelay \/ Loop \/ Slept
  BY <1>3 DEF Setup, SlowedDown, SetDelay, Loop, Slept, tc
<1>4. ASSUME NEW to \in Node, SlowDownNext(to) PROVE Shaping'
  BY <1>4 DEF SlowDownNext, SlowDown, TypeOK
<1>5. CASE StartFio \/ Event \/ StopWriter \/ AwaitWriter \/ Tick
  BY <1>5 DEF StartFio, Event, StopWriter, AwaitWriter, Tick, tc
<1>6. ASSUME NEW p \in Pid, FioEndsHere(p) PROVE Shaping'
  BY <1>6 DEF FioEndsHere, tc
<1>7. CASE ClearDelay \/ Teardown \/ Fail
  BY <1>7 DEF ClearDelay, Teardown, Fail, tc
<1>8. CASE Reset
  <2>1. PICK n \in made \cup {N} :
            /\ n \in root \cup {N}
            /\ \A m \in made \cap root : n <= m
            /\ IF n = N
               THEN pc' = "done" /\ UNCHANGED tc
               ELSE ResetTc(n) /\ UNCHANGED pc
    BY <1>8 DEF Reset
  <2>2. pc = "reset" /\ UNCHANGED <<bookkeeping, made, tainted>>
    BY <1>8 DEF Reset
  <2>3. CASE n = N
    <3>1. made \cap root = {}
      BY <2>1, <2>3, NodeFacts DEF TypeOK
    <3>2. QED
      BY <2>1, <2>2, <2>3, <3>1 DEF tc
  <2>4. CASE n # N
    BY <2>1, <2>2, <2>4 DEF ResetTc, TypeOK
  <2>5. QED
    BY <2>3, <2>4
<1>9. CASE ScriptTc
  <2>1. pc = "script" /\ UNCHANGED <<pc, config>> /\ made \subseteq {0}
    BY <1>9 DEF ScriptTc, Kinds
  <2>2. CASE NewTc(0) /\ made' = {0} /\ tainted' = tainted \ {0}
    BY <2>1, <2>2 DEF NewTc, TypeOK
  <2>3. ASSUME NEW to \in Peers(0), UNCHANGED <<made, tainted>>,
               SlowDown(0, to) \/ RemoveSlowDown(0, to)
        PROVE  Shaping'
    BY <2>1, <2>3, NodeFacts DEF SlowDown, RemoveSlowDown, TypeOK
  <2>4. CASE ResetTc(0) /\ UNCHANGED <<made, tainted>>
    BY <2>1, <2>4 DEF ResetTc, TypeOK
  <2>5. QED
    BY <1>9, <2>2, <2>3, <2>4 DEF ScriptTc
<1>10. CASE ScriptStart \/ ScriptStop \/ ScriptEnds
  BY <1>10 DEF ScriptStart, ScriptStop, ScriptEnds, tc
<1>11. CASE MakeTcFails
  <2>1. PICK n \in Node :
            /\ NewTcFails(n)
            /\ tainted' = (tainted \ {n}) \cup ((made \cup {n}) \cap root')
    BY <1>11, NodeFacts DEF MakeTcFails, Progress
  <2>2. pc' = "failed" /\ UNCHANGED <<config, made>>
    BY <1>11 DEF MakeTcFails
  <2>3. \A m \in Node : slow'[m] # {} => m # n /\ slow[m] # {}
    BY <2>1 DEF NewTcFails, TypeOK
  <2>4. \A m \in Node \ {n} : m \in root' <=> m \in root
    BY <2>1 DEF NewTcFails
  <2>5. \A m \in root' : m \in tainted'
    BY <2>1, <2>4 DEF NewTcFails, TypeOK
  <2>6. \A m \in Node : slow'[m] # {} => m \in root'
    BY <2>3, <2>4
  <2>7. QED
    BY <2>2, <2>5, <2>6
<1>12. QED
  BY <1>1, <1>2, <1>3, <1>4, <1>5, <1>6, <1>7, <1>8, <1>9, <1>10, <1>11
     DEF Next

\* Node by node, then the load.
LEMMA ProgressStep == ASSUME IInv, Next PROVE Progress'
<1> USE DEF IInv, bookkeeping
<1>0. config.kind \in {"run", "resync", "script"}
  BY KindValues
<1>1. ASSUME NEW c \in Config, NextTest(c) PROVE Progress'
  BY <1>1, EntryKind, NodeFacts
     DEF NextTest, Begins, Progress, Load, Rounds
<1>2. CASE MakeTc
  <2>1. /\ pc = "new" /\ i \in Node /\ made = 0..(i - 1)
        /\ config.kind = "run" => i = 0
        /\ config.kind = "resync" => config.rate
        /\ \A n \in made : slow[n] = Peers(n)
        /\ config.kind \in {"run", "resync"}
    BY <1>0, <1>2 DEF MakeTc, Progress, Kinds, Before
  <2>2. /\ slow' = [slow EXCEPT ![i] = {}] /\ made' = made \cup {i}
        /\ pc' = (IF config.kind = "run" THEN "setup" ELSE "slow")
        /\ UNCHANGED <<config, i>>
    BY <1>2 DEF MakeTc, NewTc
  <2>3. made' = 0..i /\ i \notin made /\ made \subseteq Node
    BY <2>1, <2>2, NodeFacts DEF TypeOK
  <2>4. slow'[i] = {} /\ \A n \in made : slow'[n] = slow[n]
    BY <2>1, <2>2, <2>3 DEF TypeOK
  <2>5. config.kind = "run" => made' = {0}
    BY <2>1, <2>3
  <2>6. QED
    BY <2>1, <2>2, <2>3, <2>4, <2>5 DEF Progress, Load, Rounds
<1>3. CASE Setup
  <2>1. /\ pc = "setup" /\ i = 0
        /\ config.kind = "run" => made = {0} /\ slow[0] = {}
        /\ config.kind = "resync" => made = {}
        /\ config.kind \in {"run", "resync"}
    BY <1>0, <1>3 DEF Setup, Progress, Kinds, Before
  <2>2. /\ pc' = (IF ~config.rate THEN "delay"
                  ELSE IF config.kind = "run" THEN "slow" ELSE "new")
        /\ UNCHANGED <<config, i, made, slow>>
    BY <1>3 DEF Setup, tc
  <2>3. 0..0 = {0} /\ 0..(0 - 1) = {}
    OBVIOUS
  <2>4. CASE ~config.rate
    <3>1. pc' = "delay" /\ UNCHANGED <<config, made, slow>>
      BY <2>2, <2>4
    <3>2. \A n \in made : Asked(n)' = {}
      BY <2>4, <3>1 DEF Asked
    <3>3. \A n \in made : slow'[n] = {}
      BY <2>1, <3>1
    <3>4. QED
      BY <2>1, <2>4, <3>1, <3>2, <3>3 DEF Progress
  <2>5. CASE config.rate /\ config.kind = "run"
    BY <2>1, <2>2, <2>3, <2>5, NodeFacts DEF Progress, Load, Rounds
  <2>6. CASE config.rate /\ config.kind = "resync"
    BY <2>1, <2>2, <2>3, <2>6, NodeFacts DEF Progress, Load, Rounds
  <2>7. QED
    BY <2>1, <2>4, <2>5, <2>6
<1>4. ASSUME NEW to \in Node, SlowDownNext(to) PROVE Progress'
  <2>1. /\ pc = "slow" /\ slow' = [slow EXCEPT ![i] = @ \cup {to}]
        /\ UNCHANGED <<pc, config, i, made>>
    BY <1>4 DEF SlowDownNext, SlowDown
  <2>2. i \in Node /\ \A n \in 0..(i - 1) : n # i /\ n \in Node
    BY <2>1, NodeFacts DEF Progress
  <2>3. QED
    BY <2>1, <2>2 DEF Progress, Load, Rounds, TypeOK
<1>5. CASE SlowedDown
  <2>1. /\ pc = "slow" /\ slow[i] = Peers(i)
        /\ i \in Node /\ made = 0..i /\ config.rate
        /\ config.kind = "run" => i = 0
        /\ \A n \in 0..(i - 1) : slow[n] = Peers(n)
        /\ config.kind \in {"run", "resync"}
    BY <1>0, <1>5 DEF SlowedDown, Progress, Kinds, Before
  <2>2. \A n \in made : slow[n] = Peers(n)
    BY <2>1, NodeFacts
  <2>3. UNCHANGED <<config, made, slow>>
    BY <1>5 DEF SlowedDown, tc
  <2>4. CASE config.kind = "resync" /\ i + 1 \in Node
    <3>1. pc' = "new" /\ i' = i + 1 /\ (i + 1) - 1 = i
      BY <1>5, <2>1, <2>4, NodeFacts DEF SlowedDown
    <3>2. QED
      BY <2>1, <2>2, <2>3, <2>4, <3>1 DEF Progress, Load, Rounds
  <2>5. CASE ~(config.kind = "resync" /\ i + 1 \in Node)
    <3>1. pc' = "delay"
      BY <1>5, <2>5 DEF SlowedDown
    <3>2. config.kind = "resync" => made = Node
      BY <2>1, <2>5, NodeFacts
    <3>3. config.kind = "run" => made = {0}
      BY <2>1
    <3>4. \A n \in made : slow'[n] = Asked(n)'
      BY <2>1, <2>2, <2>3, <3>3 DEF Asked
    <3>5. QED
      BY <2>3, <3>1, <3>2, <3>3, <3>4 DEF Progress
  <2>6. QED
    BY <2>4, <2>5
<1>6. CASE SetDelay \/ Loop \/ StartFio \/ Event \/ StopWriter \/ Slept
  <2>1. /\ pc \in Load \cup {"delay"} /\ UNCHANGED <<config, made, slow>>
        /\ pc' \notin {"new", "setup", "slow"} /\ config.kind # "script"
    BY <1>6 DEF SetDelay, Loop, StartFio, Event, StopWriter, Slept, Load,
       Rounds, tc, Kinds, Before
  <2>2. \A n \in made : Asked(n)' = Asked(n)
    BY <2>1 DEF Asked
  <2>3. QED
    BY <2>1, <2>2 DEF Progress
<1>7. CASE AwaitWriter
  <2>1. /\ pc \in Load /\ UNCHANGED <<config, made, slow>>
        /\ pc' \notin {"new", "setup", "slow"}
    BY <1>7 DEF AwaitWriter, Load, Rounds, tc
  <2>2. \A n \in made : Asked(n)' = Asked(n)
    BY <2>1 DEF Asked
  <2>3. QED
    BY <2>1, <2>2 DEF Progress
<1>8. ASSUME Tick \/ \E p \in Pid : FioEndsHere(p) PROVE Progress'
  <2>1. UNCHANGED <<pc, config, i, made, slow>>
    BY <1>8 DEF FioEndsHere, Tick, tc
  <2>2. \A n \in made : Asked(n)' = Asked(n)
    BY <2>1 DEF Asked
  <2>3. QED
    BY <2>1, <2>2 DEF Progress
<1>9. CASE \/ ClearDelay \/ Teardown \/ Reset \/ Fail \/ MakeTcFails
           \/ ScriptEnds
  BY <1>9 DEF ClearDelay, Teardown, Reset, Fail, MakeTcFails, ScriptEnds,
     Progress, Load, Rounds
<1>10. CASE ScriptTc \/ ScriptStart \/ ScriptStop
  BY <1>10 DEF ScriptTc, ScriptStart, ScriptStop, Progress, Kinds, Load,
     Rounds
<1>11. QED
  BY <1>1, <1>2, <1>3, <1>4, <1>5, <1>6, <1>7, <1>8, <1>9, <1>10 DEF Next

\* fio does not come back in a round.
LEMMA NoGapStep == ASSUME IInv, Next PROVE NoGap'
<1> USE DEF IInv, NoGap, bookkeeping, time
<1>0. config.kind \in {"run", "resync", "script"} /\ gap \in BOOLEAN
  BY KindValues DEF TypeOK
<1>1. ASSUME NEW c \in Config, NextTest(c) PROVE NoGap'
  BY <1>1 DEF NextTest, Begins
<1>2. CASE MakeTc \/ Setup \/ SlowedDown \/ SetDelay
  BY <1>2 DEF MakeTc, Setup, SlowedDown, SetDelay
<1>3. ASSUME NEW to \in Node, SlowDownNext(to) PROVE NoGap'
  BY <1>3 DEF SlowDownNext
<1>4. CASE Loop \/ Slept \/ StartFio
  BY <1>4 DEF Loop, Slept, StartFio
<1>5. CASE Event
  BY <1>0, <1>5 DEF Event, writer, is_running
<1>6. CASE StopWriter
  BY <1>6 DEF StopWriter, Kill
<1>7. CASE AwaitWriter
  BY <1>7 DEF AwaitWriter
<1>8. CASE Tick
  BY <1>8 DEF Tick, is_running
<1>9. ASSUME NEW p \in Pid, FioEndsHere(p) PROVE NoGap'
  <2>1. is_running' => is_running
    BY <1>9 DEF FioEndsHere, FioEnds, is_running, TypeOK
  <2>2. UNCHANGED <<pc, config, gap>>
    BY <1>9 DEF FioEndsHere
  <2>3. QED
    BY <2>1, <2>2
<1>10. CASE ClearDelay \/ Teardown \/ Reset \/ Fail \/ MakeTcFails
  BY <1>10 DEF ClearDelay, Teardown, Reset, Fail, MakeTcFails
<1>11. CASE ScriptTc \/ ScriptStart \/ ScriptStop \/ ScriptEnds
  BY <1>11 DEF ScriptTc, ScriptStart, ScriptStop, ScriptEnds, Kinds
<1>12. QED
  BY <1>1, <1>2, <1>3, <1>4, <1>5, <1>6, <1>7, <1>8, <1>9, <1>10, <1>11
     DEF Next

LEMMA NextIInv == IInv /\ [Next]_vars => IInv'
<1> SUFFICES ASSUME IInv, [Next]_vars PROVE IInv'
  OBVIOUS
<1>1. CASE Next
  BY <1>1, TypeStep, KindsStep, WriterStep, DelaysStep, ShapingStep,
     ProgressStep, NoGapStep DEF IInv
<1>2. CASE UNCHANGED vars
  <2> USE <1>2 DEF vars, bookkeeping, time, writer, tc, IInv
  <2>1. TypeOK' /\ Kinds' /\ Writer' /\ Delays'
    BY DEF TypeOK, Kinds, Writer, Delays
  <2>2. Shaping' /\ NoGap'
    BY DEF Shaping, Over, NoGap, is_running
  <2>3. \A n \in made : Asked(n)' = Asked(n)
    BY DEF Asked
  <2>4. Progress'
    BY <2>3 DEF Progress
  <2>5. QED
    BY <2>1, <2>2, <2>4
<1>3. QED
  BY <1>1, <1>2

LEMMA AlwaysIInv == Spec => []IInv
BY InitIInv, NextIInv, PTL DEF Spec

-----------------------------------------------------------------------------
(* The theorems.                                                           *)

\* The load runs at the rate its configuration asks for, after any number of
\* tests that ended in any way, on every node that no failed test has left
\* shaped and this one has not taken over (run, run_resync).
THEOREM RateAlwaysAsAsked == Spec => []RateAsAsked
<1>1. ASSUME IInv, UnderLoad, config.kind # "script",
             NEW n \in Node \ tainted
      PROVE  slow[n] = Asked(n)
  <2>1. pc \in Load
    BY <1>1 DEF UnderLoad, Load, Rounds
  <2>2. CASE n \in made
    BY <1>1, <2>1, <2>2 DEF IInv, Progress
  <2>3. CASE n \notin made
    <3>1. slow[n] = {}
      BY <1>1, <2>3 DEF IInv, Shaping
    <3>2. Asked(n) = {}
      BY <1>1, <2>1, <2>3, KindValues DEF IInv, Progress, Asked
    <3>3. QED
      BY <3>1, <3>2
  <2>4. QED
    BY <2>2, <2>3
<1>2. IInv => RateAsAsked
  BY <1>1 DEF RateAsAsked
<1>3. QED
  BY <1>2, AlwaysIInv, PTL

\* A test that ends normally leaves no process, no slow disk and no qdisc of
\* its own behind (teardown, TrafficControl.reset).
THEOREM NothingEverLeftBehind == Spec => []NothingLeftBehind
<1>1. IInv => NothingLeftBehind
  BY DEF IInv, Writer, Delays, Shaping, Quiet, Over, NothingLeftBehind, Pid,
     NoPid
<1>2. QED
  BY <1>1, AlwaysIInv, PTL

\* There is never more than one fio (BusyWrite.start, stop, wait).
THEOREM AlwaysOneWriter == Spec => []OneWriter
<1>1. IInv => OneWriter
  BY DEF IInv, Writer, OneWriter
<1>2. QED
  BY <1>1, AlwaysIInv, PTL

\* A round of a resync that gets through stop() had IO at each of its events,
\* however long they and the end of fio took (run_resync, BusyWrite.stop).
THEOREM IoAlwaysThroughout == Spec => []IoThroughout
<1>1. IInv => IoThroughout
  BY DEF IInv, NoGap, IoThroughout
<1>2. QED
  BY <1>1, AlwaysIInv, PTL
=============================================================================
