-------------------------- MODULE LifecycleProofs ---------------------------
(***************************************************************************)
(* Lifecycle for every number of hosts: what the clean-up leaves behind,   *)
(* what it must not touch, and what an exit status of 0 means.             *)
(*                                                                         *)
(* None of the properties is inductive: each speaks of the end, and holds  *)
(* there because of what the phases before established.  The inductive     *)
(* invariant says what is true in each phase of the handlers that are      *)
(* still registered, of skip_cleanup, and of what is on the hosts.         *)
(***************************************************************************)
EXTENDS Lifecycle, SequenceTheorems, TLAPS

\* The run exits: the script is over and atexit calls the handlers.
Exiting == pc \in {"exit", "ended"}

\* What can be on a host for the framework.
Item == {"ssh", "module", "netns", "init_iptables", "netdevs", "iptables",
         "dmesg", "config", "events", "helper", "selinux"}

\* The clean-up of the test's artifacts is wanted.
Wanted == policy = "always" \/ (policy = "success" /\ ~uncaught)

TypeOK ==
    /\ pc \in {"args", "setup", "script", "exit", "ended"}
    /\ policy \in {"success", "always", "never"}
    /\ netns \in BOOLEAN
    /\ skip_cleanup \in BOOLEAN
    /\ uncaught \in BOOLEAN
    /\ status \in {0, 1, 3, 100}
    /\ validated \in BOOLEAN
    /\ handlers \in {<<>>, <<"cluster">>, <<"cluster", "resource">>}
    /\ hosts \in 0..NumHosts
    /\ nodes \in SUBSET Host
    /\ framework \in [Host -> SUBSET Item]
    /\ pool \in [Host -> BOOLEAN]
    /\ volumes \in [Host -> SUBSET {"known", "lost"}]
    /\ up \in [Host -> BOOLEAN]
    /\ bad \in [Host -> BOOLEAN]
    /\ failed \in BOOLEAN

\* Which handlers are registered in which phase, and when the cluster is
\* complete.
Phases ==
    /\ pc = "args" => handlers = <<>> /\ hosts = 0
    /\ pc = "setup" => handlers = <<"cluster">>
    /\ pc = "script" => handlers = <<"cluster", "resource">>
    /\ pc = "ended" => handlers = <<>>
    /\ handlers = <<"cluster", "resource">> => hosts = NumHosts

\* The flag that the handlers read agrees with --cleanup and with what the
\* script has met.
SkipAgrees ==
    /\ ~Exiting => ~uncaught /\ ~failed
    /\ handlers # <<>> => (skip_cleanup <=> ~Wanted)

\* Every complete host has its connection until Cluster.cleanup() has run.
Connected ==
    /\ pc = "setup" => \A h \in 1..hosts : "ssh" \in framework[h]
    /\ handlers = <<"cluster", "resource">> =>
            \A h \in Host : "ssh" \in framework[h]

\* Once all handlers have returned, what they undo is undone.
FrameworkRemoved ==
    Exiting /\ handlers = <<>> /\ ~failed
    => \A h \in 1..hosts : framework[h] \cap Undone = {}

\* There is nothing to clean up before the script, or after a setup that did
\* not complete the cluster; a volume is always in a pool.
ArtifactsMade ==
    /\ pc \in {"args", "setup"} \/ hosts # NumHosts =>
            /\ nodes = {}
            /\ \A h \in Host : ~pool[h] /\ ~up[h]
    /\ \A h \in Host : volumes[h] # {} => pool[h]

\* What each handler has removed, once it has returned.
ArtifactsRemoved ==
    Exiting /\ Wanted /\ ~failed =>
        /\ handlers # <<"cluster", "resource">> =>
                \A h \in nodes : ~up[h] /\ "known" \notin volumes[h]
        /\ handlers = <<>> => \A h \in Host : ~pool[h]

\* Once the logs have been searched, no capture adds to them, and the exit
\* status tells what was found.
StatusAgrees ==
    /\ ~Exiting => ~validated
    /\ validated => \A h \in Host : "dmesg" \notin framework[h]
    /\ validated /\ status = 0 => \A h \in Host : ~bad[h]

IInv ==
    /\ TypeOK
    /\ Phases
    /\ SkipAgrees
    /\ Connected
    /\ FrameworkRemoved
    /\ ArtifactsMade
    /\ ArtifactsRemoved
    /\ StatusAgrees

-----------------------------------------------------------------------------
(* The list of handlers.                                                   *)

LEMMA HandlerLists ==
    /\ <<"cluster">> # <<>>
    /\ <<"cluster", "resource">> # <<>>
    /\ <<"cluster">> # <<"cluster", "resource">>
    /\ Append(<<>>, "cluster") = <<"cluster">>
    /\ Append(<<"cluster">>, "resource") = <<"cluster", "resource">>
<1>1. Len(<<"cluster">>) = 1 /\ Len(<<"cluster", "resource">>) = 2
  OBVIOUS
<1>2. <<"cluster">> # <<>> /\ <<"cluster", "resource">> # <<>>
  BY <1>1
<1>3. <<"cluster">> # <<"cluster", "resource">>
  BY <1>1
<1>4. Append(<<>>, "cluster") = <<"cluster">>
  OBVIOUS
<1>5. Append(<<"cluster">>, "resource") = <<"cluster", "resource">>
  <2> DEFINE S == {"cluster", "resource"}
             s == Append(<<"cluster">>, "resource")
             t == <<"cluster", "resource">>
  <2>1. <<"cluster">> \in Seq(S) /\ t \in Seq(S) /\ Len(t) = 2
        /\ t[1] = "cluster" /\ t[2] = "resource"
    OBVIOUS
  <2>2. s \in Seq(S) /\ Len(s) = 2
        /\ s[1] = "cluster" /\ s[2] = "resource"
    BY <1>1, <2>1, AppendProperties
  <2> HIDE DEF s, t
  <2>3. s = t
    BY <2>1, <2>2, SeqEqual
  <2>4. QED
    BY <2>3 DEF s, t
<1>6. QED
  BY <1>2, <1>3, <1>4, <1>5

\* atexit calls the resource's handler first, and the cluster's when that one
\* has returned.
LEMMA HandlerOrder ==
    ASSUME TypeOK
    PROVE  /\ Runs("resource") =>
                  /\ handlers = <<"cluster", "resource">>
                  /\ RemoveAt(handlers, NextHandler) = <<"cluster">>
           /\ Runs("cluster") =>
                  /\ handlers = <<"cluster">>
                  /\ RemoveAt(handlers, NextHandler) = <<>>
<1>1. CASE handlers = <<>>
  BY <1>1 DEF Runs
<1>2. CASE handlers = <<"cluster">>
  <2>1. RemoveAt(handlers, NextHandler) = <<>>
    BY <1>2 DEF RemoveAt, NextHandler
  <2>2. ~Runs("resource")
    BY <1>2 DEF Runs, NextHandler
  <2>3. QED
    BY <1>2, <2>1, <2>2
<1>3. CASE handlers = <<"cluster", "resource">>
  <2>1. RemoveAt(handlers, NextHandler) = <<"cluster">>
    <3> DEFINE S == {"cluster", "resource"}
    <3>1. handlers \in Seq(S) /\ Len(handlers) = 2 /\ handlers[1] = "cluster"
      BY <1>3
    <3>2. RemoveAt(handlers, NextHandler) =
             SubSeq(handlers, 1, 1) \o SubSeq(handlers, 3, 2)
      BY <3>1 DEF RemoveAt, NextHandler
    <3>3. /\ SubSeq(handlers, 1, 1) \in Seq(S)
          /\ SubSeq(handlers, 1, 1) = <<"cluster">>
      <4> DEFINE p == SubSeq(handlers, 1, 1)
                 q == <<"cluster">>
      <4>1. \A i \in 1..1 : handlers[i] \in S
        BY <3>1
      <4>2. p \in Seq(S) /\ Len(p) = 1 /\ p[1] = "cluster"
        BY <3>1, <4>1, SubSeqProperties
      <4>3. q \in Seq(S) /\ Len(q) = 1 /\ q[1] = "cluster"
        OBVIOUS
      <4> HIDE DEF p, q
      <4>4. p = q
        BY <4>2, <4>3, SeqEqual
      <4>5. QED
        BY <4>2, <4>4 DEF p, q
    <3>4. SubSeq(handlers, 3, 2) = <<>>
      BY <3>1, SubSeqEmpty
    <3>5. QED
      BY <3>2, <3>3, <3>4, ConcatEmptySeq
  <2>2. ~Runs("cluster")
    BY <1>3 DEF Runs, NextHandler
  <2>3. QED
    BY <1>3, <2>1, <2>2
<1>4. QED
  BY <1>1, <1>2, <1>3 DEF TypeOK

\* What a constructor of Host that gets through, or raises, leaves.
LEMMA FrameworkPrefix ==
    ASSUME netns \in BOOLEAN
    PROVE  /\ Len(Framework) \in Nat
           /\ \A k \in 0..Len(Framework) :
                    ToSet(SubSeq(Framework, 1, k)) \in SUBSET Item
           /\ "ssh" \in ToSet(SubSeq(Framework, 1, Len(Framework)))
<1> DEFINE a == <<"ssh", "module">>
           b == IF netns THEN <<"netns", "init_iptables", "netdevs">>
                         ELSE <<>>
           c == <<"iptables", "dmesg", "config">>
<1>1. /\ a \in Seq(Item) /\ Len(a) = 2 /\ a[1] = "ssh"
      /\ b \in Seq(Item) /\ Len(b) \in Nat
      /\ c \in Seq(Item) /\ Len(c) = 3
  <2>1. a \in Seq(Item) /\ Len(a) = 2 /\ a[1] = "ssh"
    BY DEF Item
  <2>2. c \in Seq(Item) /\ Len(c) = 3
    BY DEF Item
  <2>3. b \in Seq(Item) /\ Len(b) \in Nat
    <3>1. <<"netns", "init_iptables", "netdevs">> \in Seq(Item)
      BY DEF Item
    <3>2. <<>> \in Seq(Item)
      OBVIOUS
    <3>3. b \in Seq(Item)
      BY <3>1, <3>2
    <3>4. QED
      BY <3>3, LenProperties
  <2>4. QED
    BY <2>1, <2>2, <2>3
<1>2. Framework = (a \o b) \o c
  BY DEF Framework
<1> HIDE DEF a, b, c
<1>3. /\ a \o b \in Seq(Item) /\ Len(a \o b) = 2 + Len(b)
      /\ (a \o b)[1] = "ssh"
  <2>1. a \o b \in Seq(Item) /\ Len(a \o b) = Len(a) + Len(b)
        /\ \A i \in 1..(Len(a) + Len(b)) : (a \o b)[i] =
                IF i <= Len(a) THEN a[i] ELSE b[i - Len(a)]
    BY <1>1, ConcatProperties
  <2>2. 1 \in 1..(Len(a) + Len(b)) /\ 1 <= Len(a)
    BY <1>1
  <2>3. QED
    BY <1>1, <2>1, <2>2
<1>4. /\ Framework \in Seq(Item) /\ Len(Framework) = 5 + Len(b)
      /\ Framework[1] = "ssh"
  <2> DEFINE d == a \o b
  <2> HIDE DEF d
  <2>1. d \in Seq(Item) /\ Len(d) = 2 + Len(b) /\ d[1] = "ssh"
    BY <1>3 DEF d
  <2>2. d \o c \in Seq(Item) /\ Len(d \o c) = Len(d) + Len(c)
        /\ \A i \in 1..(Len(d) + Len(c)) : (d \o c)[i] =
                IF i <= Len(d) THEN d[i] ELSE c[i - Len(d)]
    BY <1>1, <2>1, ConcatProperties
  <2>3. 1 \in 1..(Len(d) + Len(c)) /\ 1 <= Len(d)
    BY <1>1, <2>1
  <2>4. (d \o c)[1] = "ssh" /\ Len(d \o c) = 5 + Len(b)
    BY <1>1, <2>1, <2>2, <2>3
  <2>5. Framework = d \o c
    BY <1>2 DEF d
  <2>6. QED
    BY <2>2, <2>4, <2>5
<1> HIDE DEF Framework
<1>5. ASSUME NEW k \in 0..Len(Framework)
      PROVE  /\ SubSeq(Framework, 1, k) \in Seq(Item)
             /\ Len(SubSeq(Framework, 1, k)) = k
             /\ \A i \in 1..k : SubSeq(Framework, 1, k)[i] = Framework[i]
  <2>1. \A i \in 1..k : Framework[i] \in Item
    BY <1>1, <1>4, ElementOfSeq
  <2>2. QED
    BY <1>1, <1>4, <2>1, SubSeqProperties
<1>6. Len(Framework) \in Nat \ {0}
  BY <1>1, <1>4
<1>7. \A k \in 0..Len(Framework) :
          ToSet(SubSeq(Framework, 1, k)) \in SUBSET Item
  BY <1>5, <1>6, ElementOfSeq DEF ToSet
<1>8. "ssh" \in ToSet(SubSeq(Framework, 1, Len(Framework)))
  <2> DEFINE s == SubSeq(Framework, 1, Len(Framework))
  <2>1. Len(Framework) \in 0..Len(Framework) /\ 1 \in 1..Len(Framework)
    BY <1>6
  <2>2. Len(s) = Len(Framework) /\ s[1] = "ssh"
    BY <1>4, <1>5, <2>1
  <2> HIDE DEF s
  <2>3. "ssh" \in ToSet(s)
    BY <2>1, <2>2 DEF ToSet
  <2>4. QED
    BY <2>3 DEF s
<1>9. QED
  BY <1>6, <1>7, <1>8

-----------------------------------------------------------------------------
(* The steps.                                                              *)

LEMMA InitIInv == Init => IInv
<1> SUFFICES ASSUME Init PROVE IInv
  OBVIOUS
<1> USE LifecycleAssumption, HandlerLists DEF Init, Exiting, Wanted, Host
<1>1. TypeOK
  <2>1. hosts \in 0..NumHosts
    OBVIOUS
  <2>2. framework \in [Host -> SUBSET Item]
    OBVIOUS
  <2>3. volumes \in [Host -> SUBSET {"known", "lost"}]
    OBVIOUS
  <2>4. pool \in [Host -> BOOLEAN] /\ up \in [Host -> BOOLEAN]
        /\ bad \in [Host -> BOOLEAN]
    OBVIOUS
  <2>5. QED
    BY <2>1, <2>2, <2>3, <2>4 DEF TypeOK
<1>2. Phases /\ SkipAgrees /\ Connected
  BY DEF Phases, SkipAgrees, Connected
<1>3. FrameworkRemoved /\ ArtifactsMade /\ ArtifactsRemoved /\ StatusAgrees
  BY DEF FrameworkRemoved, ArtifactsMade, ArtifactsRemoved, StatusAgrees
<1>4. QED
  BY <1>1, <1>2, <1>3 DEF IInv

\* An exception in setup() or in the script.
LEMMA RaiseStep ==
    ASSUME IInv, pc \in {"setup", "script"}, Raise, hosts' = hosts,
           nodes' = nodes, bad' = bad, failed' = failed
    PROVE  /\ SkipAgrees' /\ StatusAgrees' /\ Phases'
           /\ Exiting' /\ ~Exiting /\ handlers' # <<>> /\ handlers' = handlers
           /\ (pc = "setup" => handlers = <<"cluster">> /\ nodes = {})
           /\ (pc = "script" => handlers = <<"cluster", "resource">>)
<1> USE HandlerLists DEF IInv, TypeOK, Raise, options, Exiting, Wanted
<1>1. Phases' /\ handlers' = handlers
  BY DEF Phases
<1>2. /\ pc = "setup" => handlers = <<"cluster">> /\ nodes = {}
      /\ pc = "script" => handlers = <<"cluster", "resource">>
  BY DEF Phases, ArtifactsMade
<1>3. Exiting' /\ ~Exiting /\ handlers' # <<>>
  BY <1>2
<1>4. StatusAgrees'
  BY DEF StatusAgrees
<1>5. SkipAgrees'
  BY <1>2, <1>3 DEF SkipAgrees
<1>6. QED
  BY <1>1, <1>2, <1>3, <1>4, <1>5

\* setup() up to create_resource().
LEMMA SetupStep ==
    ASSUME IInv, Quit \/ NewCluster \/ NewHost \/ InstallDrbd \/ CheckFails
                 \/ EndSetup \/ ListenFails \/ SelinuxFails
    PROVE  IInv'
<1> USE LifecycleAssumption, HandlerLists
    DEF run, options, artifacts, Exiting, Wanted, Host
<1>1. CASE Quit
  <2> USE <1>1 DEF Quit
  <2>1. TypeOK'
    BY DEF IInv, TypeOK
  <2>2. Phases' /\ SkipAgrees' /\ Connected' /\ FrameworkRemoved'
    BY DEF IInv, TypeOK, Phases, SkipAgrees, Connected, FrameworkRemoved
  <2>3. ArtifactsMade' /\ ArtifactsRemoved' /\ StatusAgrees'
    BY DEF IInv, TypeOK, Phases, ArtifactsMade, ArtifactsRemoved, StatusAgrees
  <2>4. QED
    BY <2>1, <2>2, <2>3 DEF IInv
<1>2. CASE NewCluster
  <2> USE <1>2 DEF NewCluster
  <2>1. TypeOK' /\ handlers' = <<"cluster">>
    BY DEF IInv, TypeOK, Phases
  <2>2. Phases' /\ SkipAgrees' /\ Connected' /\ FrameworkRemoved'
    <3>0. hosts = 0 /\ hosts' = 0
      BY DEF IInv, Phases
    <3>1. Phases' /\ FrameworkRemoved'
      BY <2>1 DEF IInv, TypeOK, Phases, FrameworkRemoved
    <3>2. SkipAgrees'
      BY DEF IInv, TypeOK, SkipAgrees
    <3>3. Connected'
      <4>1. handlers' # <<"cluster", "resource">>
        BY <2>1
      <4>2. \A h \in 1..hosts' : FALSE
        BY <3>0
      <4>3. QED
        BY <4>1, <4>2 DEF Connected
    <3>4. QED
      BY <3>1, <3>2, <3>3
  <2>3. ArtifactsMade' /\ ArtifactsRemoved' /\ StatusAgrees'
    BY DEF IInv, TypeOK, Phases, ArtifactsMade, ArtifactsRemoved, StatusAgrees
  <2>4. QED
    BY <2>1, <2>2, <2>3 DEF IInv
<1>3. CASE NewHost
  <2>1. PICK k \in 0..Len(Framework), done \in BOOLEAN :
            /\ framework' = [framework EXCEPT ![hosts + 1] =
                                ToSet(SubSeq(Framework, 1, k))]
            /\ done => k = Len(Framework)
            /\ hosts' = IF done THEN hosts + 1 ELSE hosts
            /\ IF done THEN UNCHANGED run ELSE Raise
    BY <1>3 DEF NewHost
  <2> USE <1>3, <2>1 DEF NewHost
  <2>2. hosts + 1 \in Host /\ hosts \in 0..NumHosts
    BY DEF IInv, TypeOK
  <2>3. TypeOK'
    <3>1. framework' \in [Host -> SUBSET Item]
      BY <2>2, FrameworkPrefix DEF IInv, TypeOK
    <3>2. hosts' \in 0..NumHosts
      BY <2>2
    <3>3. CASE done
      BY <3>1, <3>2, <3>3 DEF IInv, TypeOK
    <3>4. CASE ~done
      BY <3>1, <3>2, <3>4 DEF IInv, TypeOK, Raise
    <3>5. QED
      BY <3>3, <3>4
  <2>4. CASE done
    <3>1. Phases' /\ SkipAgrees' /\ FrameworkRemoved'
      BY <2>4 DEF IInv, TypeOK, Phases, SkipAgrees, FrameworkRemoved
    <3>2. Connected'
      <4>1. "ssh" \in framework'[hosts + 1] /\ hosts' = hosts + 1
        BY <2>2, <2>4, FrameworkPrefix DEF IInv, TypeOK
      <4>2. \A h \in 1..hosts : h \in Host /\ framework'[h] = framework[h]
        BY <2>2 DEF IInv, TypeOK
      <4>3. handlers' = <<"cluster">>
        BY <2>4 DEF IInv, Phases
      <4>4. QED
        BY <2>2, <4>1, <4>2, <4>3 DEF IInv, Connected
    <3>3. ArtifactsMade' /\ ArtifactsRemoved' /\ StatusAgrees'
      BY <2>4 DEF IInv, TypeOK, Phases, ArtifactsMade, ArtifactsRemoved,
                  StatusAgrees
    <3>4. QED
      BY <2>3, <3>1, <3>2, <3>3 DEF IInv
  <2>5. CASE ~done
    <3>1. /\ SkipAgrees' /\ StatusAgrees' /\ Phases'
          /\ Exiting' /\ handlers' = <<"cluster">> /\ nodes = {}
      BY <2>5, RaiseStep
    <3>2. Connected' /\ FrameworkRemoved'
      BY <3>1 DEF Connected, FrameworkRemoved
    <3>3. ArtifactsMade' /\ ArtifactsRemoved'
      BY <3>1 DEF IInv, ArtifactsMade, ArtifactsRemoved
    <3>4. QED
      BY <2>3, <3>1, <3>2, <3>3 DEF IInv
  <2>6. QED
    BY <2>4, <2>5
<1>4. CASE CheckFails
  <2> USE <1>4 DEF CheckFails
  <2>1. TypeOK'
    BY DEF IInv, TypeOK, Raise
  <2>2. /\ SkipAgrees' /\ StatusAgrees' /\ Phases'
        /\ Exiting' /\ handlers' = <<"cluster">> /\ nodes = {}
    BY RaiseStep
  <2>3. Connected' /\ FrameworkRemoved'
    BY <2>2 DEF Connected, FrameworkRemoved
  <2>4. ArtifactsMade' /\ ArtifactsRemoved'
    BY <2>2 DEF IInv, ArtifactsMade, ArtifactsRemoved
  <2>5. QED
    BY <2>1, <2>2, <2>3, <2>4 DEF IInv
<1>5. CASE EndSetup
  <2> USE <1>5 DEF EndSetup
  <2>1. handlers' = <<"cluster", "resource">> /\ pc' = "script"
    BY DEF IInv, Phases
  <2>2. TypeOK'
    <3>1. framework' \in [Host -> SUBSET Item]
      BY DEF IInv, TypeOK, Item, Selinux
    <3>2. QED
      BY <2>1, <3>1 DEF IInv, TypeOK
  <2>3. Phases' /\ SkipAgrees' /\ FrameworkRemoved'
    BY <2>1 DEF IInv, TypeOK, Phases, SkipAgrees, FrameworkRemoved
  <2>4. Connected'
    BY <2>1 DEF IInv, TypeOK, Connected
  <2>5. ArtifactsMade' /\ ArtifactsRemoved' /\ StatusAgrees'
    BY <2>1 DEF IInv, TypeOK, ArtifactsMade, ArtifactsRemoved, StatusAgrees
  <2>6. QED
    BY <2>2, <2>3, <2>4, <2>5 DEF IInv
<1>6. CASE ListenFails
  <2> USE <1>6 DEF ListenFails
  <2>1. TypeOK'
    <3>1. framework' \in [Host -> SUBSET Item]
      BY DEF IInv, TypeOK, Item
    <3>2. QED
      BY <3>1 DEF IInv, TypeOK, Raise
  <2>2. /\ SkipAgrees' /\ StatusAgrees' /\ Phases'
        /\ Exiting' /\ handlers' = <<"cluster">> /\ nodes = {}
    BY RaiseStep
  <2>3. Connected' /\ FrameworkRemoved'
    BY <2>2 DEF Connected, FrameworkRemoved
  <2>4. ArtifactsMade' /\ ArtifactsRemoved'
    BY <2>2 DEF IInv, ArtifactsMade, ArtifactsRemoved
  <2>5. QED
    BY <2>1, <2>2, <2>3, <2>4 DEF IInv
<1>7. CASE InstallDrbd
  <2> USE <1>7 DEF InstallDrbd
  <2>0. hosts \in Host
    BY DEF IInv, TypeOK
  <2>1. TypeOK'
    <3>1. framework' \in [Host -> SUBSET Item]
      BY <2>0 DEF IInv, TypeOK, Item
    <3>2. QED
      BY <3>1 DEF IInv, TypeOK
  <2>2. Phases' /\ SkipAgrees' /\ FrameworkRemoved'
    BY DEF IInv, TypeOK, Phases, SkipAgrees, FrameworkRemoved
  <2>3. Connected'
    <3>1. \A h \in Host : framework[h] \subseteq framework'[h]
      BY <2>0 DEF IInv, TypeOK
    <3>2. \A h \in 1..hosts : h \in Host
      BY <2>0
    <3>3. handlers' = <<"cluster">>
      BY DEF IInv, Phases
    <3>4. QED
      BY <3>1, <3>2, <3>3 DEF IInv, Connected
  <2>4. ArtifactsMade' /\ ArtifactsRemoved' /\ StatusAgrees'
    BY DEF IInv, ArtifactsMade, ArtifactsRemoved, StatusAgrees
  <2>5. QED
    BY <2>1, <2>2, <2>3, <2>4 DEF IInv
<1>8. CASE SelinuxFails
  <2> USE <1>8 DEF SelinuxFails
  <2>1. TypeOK'
    <3>1. framework' \in [Host -> SUBSET Item]
      BY DEF IInv, TypeOK, Item, Selinux
    <3>2. QED
      BY <3>1 DEF IInv, TypeOK, Raise
  <2>2. /\ SkipAgrees' /\ StatusAgrees' /\ Phases'
        /\ Exiting' /\ handlers' = <<"cluster">> /\ nodes = {}
    BY RaiseStep
  <2>3. Connected' /\ FrameworkRemoved'
    BY <2>2 DEF Connected, FrameworkRemoved
  <2>4. ArtifactsMade' /\ ArtifactsRemoved'
    BY <2>2 DEF IInv, ArtifactsMade, ArtifactsRemoved
  <2>5. QED
    BY <2>1, <2>2, <2>3, <2>4 DEF IInv
<1>9. QED
  BY <1>1, <1>2, <1>3, <1>4, <1>5, <1>6, <1>7, <1>8

\* The script, as long as it goes on.
LEMMA ScriptStep ==
    ASSUME IInv,
           \/ \E D \in SUBSET nodes : AddDisk(D)
           \/ RemoveStoragePool
           \/ \E h \in Host : Up(h) \/ Down(h) \/ RemoveNode(h)
    PROVE  IInv'
<1> USE LifecycleAssumption, HandlerLists
    DEF run, options, artifacts, Exiting, Wanted, Host
<1>0. /\ pc = "script" /\ pc' = "script"
      /\ UNCHANGED <<run, hosts, framework, failed>>
  BY DEF AddDisk, RemoveStoragePool, Up, Down, RemoveNode
<1>1. Phases' /\ SkipAgrees' /\ Connected' /\ FrameworkRemoved'
  BY <1>0 DEF IInv, Phases, SkipAgrees, Connected, FrameworkRemoved
<1>2. ArtifactsRemoved' /\ StatusAgrees'
  BY <1>0 DEF IInv, ArtifactsRemoved, StatusAgrees
<1>3. hosts' = NumHosts
  BY <1>0 DEF IInv, Phases
<1>4. ASSUME NEW D \in SUBSET nodes, AddDisk(D) PROVE TypeOK' /\ ArtifactsMade'
  <2>1. TypeOK'
    BY <1>4 DEF IInv, TypeOK, AddDisk
  <2>2. ArtifactsMade'
    BY <1>0, <1>3, <1>4 DEF IInv, TypeOK, ArtifactsMade, AddDisk
  <2>3. QED
    BY <2>1, <2>2
<1>5. CASE RemoveStoragePool
  <2>1. TypeOK'
    BY <1>5 DEF IInv, TypeOK, RemoveStoragePool, PoolsRemoved
  <2>2. ArtifactsMade'
    BY <1>0, <1>3, <1>5
       DEF IInv, TypeOK, ArtifactsMade, RemoveStoragePool, PoolsRemoved
  <2>3. QED
    BY <1>1, <1>2, <2>1, <2>2 DEF IInv
<1>6. ASSUME NEW h \in Host, Up(h) \/ Down(h)
      PROVE  TypeOK' /\ ArtifactsMade'
  <2>1. ASSUME Up(h) PROVE TypeOK'
    BY <2>1 DEF IInv, TypeOK, Up
  <2>2. ASSUME Down(h) PROVE TypeOK'
    BY <2>2 DEF IInv, TypeOK, Down
  <2>3. ArtifactsMade'
    BY <1>0, <1>3, <1>6 DEF IInv, ArtifactsMade, Up, Down
  <2>4. QED
    BY <1>6, <2>1, <2>2, <2>3
<1>7. ASSUME NEW h \in Host, RemoveNode(h) PROVE TypeOK' /\ ArtifactsMade'
  BY <1>0, <1>3, <1>7 DEF IInv, TypeOK, ArtifactsMade, RemoveNode
<1>8. QED
  BY <1>1, <1>2, <1>4, <1>5, <1>6, <1>7 DEF IInv

\* A line of the kernel, at any time.
LEMMA KernelStep ==
    ASSUME IInv, NEW h \in Host, KernelComplains(h)
    PROVE  IInv'
<1> USE DEF KernelComplains, run, options, artifacts, Exiting, Wanted
<1>1. TypeOK' /\ Phases' /\ SkipAgrees'
  BY DEF IInv, TypeOK, Phases, SkipAgrees
<1>2. Connected' /\ FrameworkRemoved' /\ ArtifactsMade' /\ ArtifactsRemoved'
  BY DEF IInv, Connected, FrameworkRemoved, ArtifactsMade, ArtifactsRemoved
<1>3. StatusAgrees'
  BY DEF IInv, StatusAgrees
<1>4. QED
  BY <1>1, <1>2, <1>3 DEF IInv

\* The script ends: with an exception, with teardown(), or just so.
LEMMA ScriptEndStep ==
    ASSUME IInv, \/ AddDiskFails \/ ScriptFails \/ ScriptEnds \/ Teardown
                 \/ TeardownFails
    PROVE  IInv'
<1> USE LifecycleAssumption, HandlerLists
    DEF run, options, artifacts, Exiting, Wanted, Host
<1>0. /\ pc = "script" /\ pc' = "exit" /\ handlers' = handlers
      /\ UNCHANGED <<hosts, nodes, failed, up, bad>>
      /\ handlers = <<"cluster", "resource">> /\ hosts = NumHosts
  BY DEF AddDiskFails, ScriptFails, ScriptEnds, Teardown, TeardownFails,
         Raise, IInv, Phases
<1>1. Phases' /\ SkipAgrees' /\ StatusAgrees' /\ FrameworkRemoved'
  <2>1. Phases' /\ FrameworkRemoved'
    BY <1>0 DEF IInv, Phases, FrameworkRemoved
  <2>2. SkipAgrees' /\ StatusAgrees'
    <3>1. CASE AddDiskFails \/ ScriptFails \/ TeardownFails
      BY <1>0, <3>1, RaiseStep DEF AddDiskFails, ScriptFails, TeardownFails
    <3>2. CASE Teardown
      <4>1. SkipAgrees'
        BY <1>0, <3>2 DEF Teardown, IInv, SkipAgrees
      <4>2. StatusAgrees'
        BY <1>0, <3>2 DEF Teardown, TeardownStatus, TornDown, IInv,
                          StatusAgrees, TypeOK
      <4>3. QED
        BY <4>1, <4>2
    <3>3. CASE ScriptEnds
      BY <1>0, <3>3 DEF ScriptEnds, IInv, SkipAgrees, StatusAgrees
    <3>4. QED
      BY <3>1, <3>2, <3>3
  <2>3. QED
    BY <2>1, <2>2
<1>2. ArtifactsRemoved'
  BY <1>0 DEF ArtifactsRemoved
<1>3. CASE AddDiskFails
  <2>1. TypeOK'
    <3>1. pool' \in [Host -> BOOLEAN]
          /\ volumes' \in [Host -> SUBSET {"known", "lost"}]
      BY <1>3 DEF AddDiskFails, IInv, TypeOK
    <3>2. QED
      BY <1>3, <3>1 DEF AddDiskFails, IInv, TypeOK, Raise
  <2>2. Connected'
    BY <1>0, <1>3 DEF AddDiskFails, IInv, Connected
  <2>3. ArtifactsMade'
    BY <1>0, <1>3 DEF AddDiskFails, IInv, TypeOK, ArtifactsMade
  <2>4. QED
    BY <1>1, <1>2, <2>1, <2>2, <2>3 DEF IInv
<1>4. CASE ScriptFails
  <2>1. TypeOK'
    BY <1>4 DEF ScriptFails, IInv, TypeOK, Raise
  <2>2. Connected' /\ ArtifactsMade'
    BY <1>0, <1>4 DEF ScriptFails, IInv, Connected, ArtifactsMade
  <2>3. QED
    BY <1>1, <1>2, <2>1, <2>2 DEF IInv
<1>5. CASE Teardown
  <2>1. TypeOK'
    <3>1. framework' \in [Host -> SUBSET Item]
      BY <1>5 DEF Teardown, IInv, TypeOK
    <3>2. status' \in {0, 3} /\ validated' \in BOOLEAN
      BY <1>5 DEF Teardown, TeardownStatus
    <3>3. QED
      BY <1>5, <3>1, <3>2 DEF Teardown, IInv, TypeOK
  <2>2. Connected'
    BY <1>0, <1>5 DEF Teardown, TornDown, IInv, TypeOK, Connected
  <2>3. ArtifactsMade'
    BY <1>0, <1>5 DEF Teardown, IInv, ArtifactsMade
  <2>4. QED
    BY <1>1, <1>2, <2>1, <2>2, <2>3 DEF IInv
<1>6. CASE TeardownFails
  <2>1. TypeOK'
    <3>1. framework' \in [Host -> SUBSET Item]
      BY <1>6 DEF TeardownFails, IInv, TypeOK
    <3>2. QED
      BY <1>6, <3>1 DEF TeardownFails, IInv, TypeOK, Raise
  <2>2. Connected'
    BY <1>0, <1>6 DEF TeardownFails, TornDown, IInv, TypeOK, Connected
  <2>3. ArtifactsMade'
    BY <1>0, <1>6 DEF TeardownFails, IInv, ArtifactsMade
  <2>4. QED
    BY <1>1, <1>2, <2>1, <2>2, <2>3 DEF IInv
<1>7. CASE ScriptEnds
  <2>1. TypeOK'
    BY <1>7 DEF ScriptEnds, IInv, TypeOK
  <2>2. Connected' /\ ArtifactsMade'
    BY <1>0, <1>7 DEF ScriptEnds, IInv, Connected, ArtifactsMade
  <2>3. QED
    BY <1>1, <1>2, <2>1, <2>2 DEF IInv
<1>8. QED
  BY <1>3, <1>4, <1>5, <1>6, <1>7

\* Resource.cleanup(), called by atexit.
LEMMA ResourceHandlerStep ==
    ASSUME IInv, \/ ResourceCleanup \/ ResourceCleanupFails
                 \/ ResourceCleanupSkipped
    PROVE  IInv'
<1> USE LifecycleAssumption, HandlerLists
    DEF run, options, artifacts, Exiting, Wanted, Host
<1>0. /\ pc = "exit" /\ pc' = "exit"
      /\ handlers = <<"cluster", "resource">> /\ handlers' = <<"cluster">>
      /\ hosts = NumHosts /\ (skip_cleanup <=> ~Wanted)
      /\ UNCHANGED <<policy, netns, skip_cleanup, uncaught, status,
                     validated, hosts, nodes, bad, framework, pool>>
  BY HandlerOrder DEF ResourceCleanup, ResourceCleanupFails, TypeOK,
         ResourceCleanupSkipped, HandlerEnds, Runs, IInv, Phases, SkipAgrees
<1>1. Phases' /\ SkipAgrees' /\ StatusAgrees' /\ FrameworkRemoved'
      /\ Connected'
  BY <1>0 DEF IInv, Phases, SkipAgrees, StatusAgrees, FrameworkRemoved,
              Connected
<1>2. CASE ResourceCleanup
  <2> USE <1>0, <1>2
      DEF ResourceCleanup, TakenDown, DisksRemoved, HandlerEnds, IInv, TypeOK
  <2>1. TypeOK'
    OBVIOUS
  <2>2. ArtifactsMade' /\ ArtifactsRemoved'
    BY DEF ArtifactsMade, ArtifactsRemoved
  <2>3. QED
    BY <1>1, <2>1, <2>2
<1>3. CASE ResourceCleanupFails
  <2>0. PICK k \in nodes : /\ TakenDown(k) \/ TakenDown(k - 1)
                           /\ DisksRemoved(k - 1)
    BY <1>3 DEF ResourceCleanupFails
  <2> USE <1>0, <1>3, <2>0
      DEF ResourceCleanupFails, TakenDown, DisksRemoved, HandlerEnds
  <2>1. TypeOK'
    <3>1. up' \in [Host -> BOOLEAN]
      BY SMTT(30) DEF IInv, TypeOK
    <3>2. volumes' \in [Host -> SUBSET {"known", "lost"}]
      BY DEF IInv, TypeOK
    <3>3. QED
      BY <3>1, <3>2 DEF IInv, TypeOK
  <2>2. ArtifactsMade' /\ ArtifactsRemoved'
    <3>1. \A h \in Host : volumes'[h] # {} => volumes[h] # {}
      BY DEF IInv, TypeOK
    <3>2. QED
      BY <3>1 DEF IInv, ArtifactsMade, ArtifactsRemoved
  <2>3. QED
    BY <1>1, <2>1, <2>2 DEF IInv
<1>4. CASE ResourceCleanupSkipped
  <2> USE <1>0, <1>4 DEF ResourceCleanupSkipped, HandlerEnds
  <2>1. TypeOK'
    BY DEF IInv, TypeOK
  <2>2. ArtifactsMade'
    BY DEF IInv, ArtifactsMade
  <2>3. ArtifactsRemoved'
    BY DEF ArtifactsRemoved
  <2>4. QED
    BY <1>1, <2>1, <2>2, <2>3 DEF IInv
<1>5. QED
  BY <1>2, <1>3, <1>4

\* Cluster.cleanup(), called by atexit, and the end of the process.
LEMMA ClusterHandlerStep ==
    ASSUME IInv, \/ ClusterCleanup \/ PoolRemovalFails
                 \/ FrameworkCleanupFails
    PROVE  IInv'
<1> USE LifecycleAssumption, HandlerLists
    DEF run, options, artifacts, Exiting, Wanted, Host
<1>0. /\ pc = "exit" /\ pc' = "exit"
      /\ handlers = <<"cluster">> /\ handlers' = <<>>
      /\ (skip_cleanup <=> ~Wanted)
      /\ UNCHANGED <<policy, netns, skip_cleanup, uncaught, status,
                     validated, hosts, nodes, bad, up>>
  BY HandlerOrder DEF ClusterCleanup, PoolRemovalFails, FrameworkCleanupFails,
         HostsCleaned, HandlerEnds, Runs, IInv, SkipAgrees
<1>1. Phases' /\ SkipAgrees' /\ Connected'
  BY <1>0 DEF IInv, Phases, SkipAgrees, Connected
<1>2. StatusAgrees'
  <2>1. \A h \in Host : framework'[h] \subseteq framework[h]
    <3>0. framework \in [Host -> SUBSET Item]
      BY DEF IInv, TypeOK
    <3>1. CASE ClusterCleanup
      BY <3>0, <3>1 DEF ClusterCleanup
    <3>2. CASE PoolRemovalFails
      BY <3>2 DEF PoolRemovalFails
    <3>3. CASE FrameworkCleanupFails
      BY <3>0, <3>3 DEF FrameworkCleanupFails
    <3>4. QED
      BY <3>1, <3>2, <3>3
  <2>2. QED
    BY <1>0, <2>1 DEF IInv, StatusAgrees
<1>3. ASSUME NEW k \in 0..hosts, PoolsRemoved(k, volumes)
      PROVE  /\ pool' \in [Host -> BOOLEAN]
             /\ volumes' \in [Host -> SUBSET {"known", "lost"}]
             /\ \A h \in Host : pool'[h] => pool[h]
             /\ \A h \in Host : volumes'[h] # {} => pool'[h]
             /\ \A h \in Host : volumes'[h] \subseteq volumes[h]
  BY <1>3 DEF PoolsRemoved, IInv, TypeOK, ArtifactsMade
<1>4. hosts \in 0..hosts
  BY DEF IInv, TypeOK
<1>5. CASE ClusterCleanup
  <2>1. CASE skip_cleanup
    <3> USE <1>0, <1>5, <2>1 DEF ClusterCleanup, HandlerEnds
    <3>1. TypeOK'
      BY DEF IInv, TypeOK
    <3>2. FrameworkRemoved'
      BY DEF IInv, TypeOK, FrameworkRemoved
    <3>3. ArtifactsMade' /\ ArtifactsRemoved'
      BY DEF IInv, ArtifactsMade, ArtifactsRemoved
    <3>4. QED
      BY <1>1, <1>2, <3>1, <3>2, <3>3 DEF IInv
  <2>2. CASE ~skip_cleanup
    <3> USE <1>0, <1>5, <2>2 DEF ClusterCleanup, HandlerEnds, HostsCleaned
    <3>0. PoolsRemoved(hosts, volumes)
      OBVIOUS
    <3>1. TypeOK'
      BY <1>3, <1>4, <3>0 DEF IInv, TypeOK
    <3>2. FrameworkRemoved'
      BY DEF IInv, TypeOK, FrameworkRemoved
    <3>3. ArtifactsMade'
      BY <1>3, <1>4, <3>0 DEF IInv, ArtifactsMade
    <3>4. \A h \in Host : ~pool'[h]
      BY <3>0 DEF PoolsRemoved, IInv, TypeOK, ArtifactsMade
    <3>5. ArtifactsRemoved'
      BY <1>3, <1>4, <3>0, <3>4 DEF IInv, TypeOK, ArtifactsRemoved
    <3>6. QED
      BY <1>1, <1>2, <3>1, <3>2, <3>3, <3>5 DEF IInv
  <2>3. QED
    BY <2>1, <2>2
<1>6. CASE PoolRemovalFails
  <2> USE <1>0, <1>6 DEF PoolRemovalFails, HandlerEnds, HostsCleaned
  <2>1. PICK k \in 1..hosts : PoolsRemoved(k - 1, volumes)
    OBVIOUS
  <2>2. k - 1 \in 0..hosts
    BY DEF IInv, TypeOK
  <2>3. TypeOK'
    BY <1>3, <2>1, <2>2 DEF IInv, TypeOK
  <2>4. ArtifactsMade'
    BY <1>3, <2>1, <2>2 DEF IInv, ArtifactsMade
  <2>5. FrameworkRemoved' /\ ArtifactsRemoved'
    BY DEF FrameworkRemoved, ArtifactsRemoved
  <2>6. QED
    BY <1>1, <1>2, <2>3, <2>4, <2>5 DEF IInv
<1>7. CASE FrameworkCleanupFails
  <2> USE <1>0, <1>7 DEF FrameworkCleanupFails, HandlerEnds, HostsCleaned
  <2>1. framework' \in [Host -> SUBSET Item]
    BY DEF IInv, TypeOK
  <2>2. FrameworkRemoved' /\ ArtifactsRemoved'
    BY DEF FrameworkRemoved, ArtifactsRemoved
  <2>3. CASE skip_cleanup
    <3>1. TypeOK'
      BY <2>1, <2>3 DEF IInv, TypeOK
    <3>2. ArtifactsMade'
      BY <2>3 DEF IInv, ArtifactsMade
    <3>3. QED
      BY <1>1, <1>2, <2>2, <3>1, <3>2 DEF IInv
  <2>4. CASE ~skip_cleanup
    <3>0. PoolsRemoved(hosts, volumes)
      BY <2>4
    <3>1. TypeOK'
      BY <1>3, <1>4, <2>1, <3>0 DEF IInv, TypeOK
    <3>2. ArtifactsMade'
      BY <1>3, <1>4, <3>0 DEF IInv, ArtifactsMade
    <3>3. QED
      BY <1>1, <1>2, <2>2, <3>1, <3>2 DEF IInv
  <2>5. QED
    BY <2>3, <2>4
<1>8. QED
  BY <1>5, <1>6, <1>7

LEMMA EndStep == ASSUME IInv, End PROVE IInv'
<1> USE HandlerLists DEF End, options, artifacts, Exiting, Wanted
<1>1. TypeOK' /\ Phases'
  BY DEF IInv, TypeOK, Phases
<1>2. SkipAgrees' /\ StatusAgrees' /\ Connected' /\ FrameworkRemoved'
  BY DEF IInv, SkipAgrees, StatusAgrees, Connected, FrameworkRemoved
<1>3. ArtifactsMade' /\ ArtifactsRemoved'
  BY DEF IInv, ArtifactsMade, ArtifactsRemoved
<1>4. QED
  BY <1>1, <1>2, <1>3 DEF IInv

LEMMA NextIInv == IInv /\ [Next]_vars => IInv'
<1> SUFFICES ASSUME IInv, [Next]_vars PROVE IInv'
  OBVIOUS
<1>1. CASE Next
  BY <1>1, SetupStep, ScriptStep, KernelStep, ScriptEndStep,
     ResourceHandlerStep, ClusterHandlerStep, EndStep DEF Next
<1>2. CASE UNCHANGED vars
  <2> USE <1>2 DEF vars, run, options, artifacts, Exiting, Wanted
  <2>1. TypeOK' /\ Phases' /\ SkipAgrees' /\ StatusAgrees'
    BY DEF IInv, TypeOK, Phases, SkipAgrees, StatusAgrees
  <2>2. Connected' /\ FrameworkRemoved' /\ ArtifactsMade' /\ ArtifactsRemoved'
    BY DEF IInv, Connected, FrameworkRemoved, ArtifactsMade, ArtifactsRemoved
  <2>3. QED
    BY <2>1, <2>2 DEF IInv
<1>3. QED
  BY <1>1, <1>2

LEMMA AlwaysIInv == Spec => []IInv
BY InitIInv, NextIInv, PTL DEF Spec

-----------------------------------------------------------------------------
(* What follows.                                                           *)

\* Whatever went wrong in setup() or in the script and whatever --cleanup
\* says, a clean-up without an error of its own leaves no connection, no
\* process and no chain where commands run on any host of the cluster; only
\* what nothing undoes is left (Cluster.cleanup, cleanup_framework).
THEOREM FrameworkAlwaysGone == Spec => []FrameworkGone
<1>1. IInv => FrameworkGone
  <2> SUFFICES ASSUME IInv, pc = "ended", ~failed, NEW h \in 1..hosts
               PROVE  framework[h] \subseteq
                        {"module", "netns", "init_iptables", "netdevs",
                         "config", "helper", "selinux"}
    BY DEF FrameworkGone
  <2>1. framework[h] \cap Undone = {}
    BY DEF IInv, Phases, FrameworkRemoved, Exiting
  <2>2. framework[h] \subseteq Item
    BY LifecycleAssumption DEF IInv, TypeOK, Host
  <2>3. QED
    BY <2>1, <2>2 DEF Undone, Item
<1>2. QED
  BY AlwaysIInv, <1>1, PTL

\* A wanted clean-up without an error of its own leaves no pool, no volume and
\* no member with the resource up (Resource.cleanup, Host.cleanup).
THEOREM ArtifactsAlwaysGone == Spec => []ArtifactsGone
<1>1. IInv => ArtifactsGone
  <2> SUFFICES ASSUME IInv, pc = "ended", ~failed, Wanted
               PROVE  /\ \A h \in Host : ~pool[h] /\ volumes[h] = {}
                      /\ \A h \in nodes : ~up[h]
    BY DEF ArtifactsGone, Wanted
  <2>1. QED
    BY HandlerLists
       DEF IInv, TypeOK, Phases, ArtifactsRemoved, ArtifactsMade, Exiting
<1>2. QED
  BY AlwaysIInv, <1>1, PTL

\* No connection to a node is closed while Resource.cleanup() is still to be
\* called (Cluster.cleanup_framework, atexit.register).
THEOREM ConnectionAlwaysOutlives == Spec => []ConnectionOutlivesResource
<1>1. IInv => ConnectionOutlivesResource
  <2> SUFFICES ASSUME IInv, "resource" \in ToSet(handlers)
               PROVE  \A h \in nodes : "ssh" \in framework[h]
    BY DEF ConnectionOutlivesResource
  <2>1. handlers = <<"cluster", "resource">>
    <3>1. handlers # <<>>
      BY DEF ToSet
    <3>2. handlers # <<"cluster">>
      BY DEF ToSet
    <3>3. QED
      BY <3>1, <3>2 DEF IInv, TypeOK
  <2>2. QED
    BY <2>1 DEF IInv, TypeOK, Connected
<1>2. QED
  BY AlwaysIInv, <1>1, PTL

\* When Cluster.cleanup() removes the pools, Resource.cleanup() has taken
\* every member down and returned its volumes.
THEOREM PoolsAlwaysReturned == Spec => []PoolsReturned
<1>1. IInv => PoolsReturned
  <2> SUFFICES ASSUME IInv, Runs("cluster"), ~skip_cleanup, ~failed
               PROVE  \A h \in nodes : ~up[h] /\ "known" \notin volumes[h]
    BY DEF PoolsReturned
  <2>1. handlers = <<"cluster">> /\ pc = "exit"
    BY HandlerOrder DEF IInv, Runs
  <2>2. QED
    BY <2>1, HandlerLists DEF IInv, SkipAgrees, ArtifactsRemoved, Exiting
<1>2. QED
  BY AlwaysIInv, <1>1, PTL

\* A test that exits with 0 after teardown() has searched the logs has no bad
\* line on any host, not even one that came while later steps were taken
\* (Cluster.teardown).
THEOREM ExitZeroAlwaysClean == Spec => []ExitZeroMeansClean
<1>1. IInv => ExitZeroMeansClean
  BY DEF IInv, StatusAgrees, ExitZeroMeansClean, Exiting
<1>2. QED
  BY AlwaysIInv, <1>1, PTL

\* With --cleanup=never, and with --cleanup=success after an exception, no
\* step at exit touches a resource, a volume or a pool (Cleanup.hook).
THEOREM EvidenceAlwaysKept == Spec => EvidenceKept
<1>1. ASSUME IInv, [Next]_vars, pc = "exit",
             policy = "never" \/ (policy = "success" /\ uncaught)
      PROVE  UNCHANGED artifacts
  <2>1. handlers # <<>> => skip_cleanup
    BY <1>1 DEF IInv, TypeOK, SkipAgrees, Wanted
  <2>2. CASE UNCHANGED vars
    BY <2>2 DEF vars
  <2>3. CASE ResourceCleanup \/ ResourceCleanupFails \/ ClusterCleanup
             \/ PoolRemovalFails \/ FrameworkCleanupFails
             \/ ResourceCleanupSkipped
    BY <2>1, <2>3
       DEF ResourceCleanup, ResourceCleanupFails, ResourceCleanupSkipped,
           ClusterCleanup, PoolRemovalFails, FrameworkCleanupFails, Runs
  <2>4. CASE End
    BY <2>4 DEF End
  <2>5. QED
    BY <1>1, <2>2, <2>3, <2>4
       DEF Next, Quit, NewCluster, NewHost, InstallDrbd, CheckFails, EndSetup,
           ListenFails, SelinuxFails, AddDisk, AddDiskFails,
           RemoveStoragePool, ScriptFails, ScriptEnds, Teardown, TeardownFails,
           Up, Down, RemoveNode, KernelComplains
<1>2. QED
  BY AlwaysIInv, <1>1, PTL DEF Spec, EvidenceKept
=============================================================================
