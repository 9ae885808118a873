----------------------------- MODULE Lifecycle ------------------------------
(***************************************************************************)
(* The life of a test script: setup(), the script proper, teardown(), and  *)
(* the clean-up that Python's atexit runs (python/drbdtest.py: Cleanup,    *)
(* setup, Cluster, Resource.cleanup, Node.cleanup, Host.cleanup and        *)
(* cleanup_framework).                                                     *)
(*                                                                         *)
(* Every command on a host can fail, and a failed command raises.  Loops   *)
(* over the hosts are single steps here, which stop at any host: nothing   *)
(* else runs in between.  atexit calls the registered handlers last in,    *)
(* first out; an exception ends one handler and not the others.            *)
(***************************************************************************)
EXTENDS Naturals, FiniteSets, Sequences, SequencesExt

CONSTANT NumHosts       \* hosts on the command line

ASSUME LifecycleAssumption == NumHosts \in Nat \ {0}

Host == 1..NumHosts

VARIABLES
    pc,             \* "args", "setup", "script", "exit" (the handlers of
                    \* atexit run), "ended"
    policy,         \* --cleanup
    netns,          \* the script asks for a network namespace
    skip_cleanup,
    uncaught,       \* uncaught_exception is set
    status,         \* exit status of the process
    validated,      \* history: teardown() has searched the kernel logs
    handlers,       \* functions registered with atexit, in order
    hosts,          \* len(cluster.hosts)
    nodes,          \* Resource.nodes, as hosts
    framework,      \* changes made for the framework, by host
    pool,           \* Host.storage_pool exists, by host
    volumes,        \* backing volumes by host: "known" are those in
                    \* Node.disks, "lost" were made by a call that then raised
    up,             \* DRBD has the resource up, by host
    bad,            \* the captured kernel log has a line it must not have
    failed          \* a handler ended with an exception

options == <<policy, netns>>
run == <<pc, options, skip_cleanup, uncaught, status, validated, handlers>>
artifacts == <<pool, volumes, up>>
vars == <<run, hosts, nodes, framework, artifacts, bad, failed>>

-----------------------------------------------------------------------------
\* What Host() changes on a host, in this order: the connection is opened, the
\* module loaded; with a namespace, that is made, chains are made outside of
\* it, and the devices are moved into it; then the chains where commands run,
\* the kernel log capture, the directory and file of the configuration.
Framework ==
    <<"ssh", "module">>
        \o (IF netns THEN <<"netns", "init_iptables", "netdevs">> ELSE <<>>)
        \o <<"iptables", "dmesg", "config">>

\* Defect: the chains stay.
UndoneButChains == {"dmesg", "events", "ssh"}

\* What cleanup_framework() undoes.
Undone == {"dmesg", "iptables", "events", "ssh"}

\* What setup() leaves on all hosts where SELinux is active: a helper script,
\* and with --selinux-debug the dontaudit rules disabled.
Selinux == {{}, {"helper"}, {"helper", "selinux"}}

\* Defect: the hook only reports.
RaiseReportsOnly ==
    /\ pc' = "exit"
    /\ status' = 1
    /\ uncaught' = TRUE
    /\ UNCHANGED <<options, skip_cleanup, validated, handlers>>

\* An exception leaves the script: Cleanup.hook() is called, then atexit.
Raise ==
    /\ pc' = "exit"
    /\ status' = 1
    /\ uncaught' = TRUE
    /\ skip_cleanup' = (skip_cleanup \/ policy = "success")
    /\ UNCHANGED <<options, validated, handlers>>

\* The command line is parsed.
Init ==
    /\ pc = "args"
    /\ policy \in {"success", "always", "never"}
    /\ netns \in BOOLEAN
    /\ skip_cleanup = FALSE
    /\ uncaught = FALSE
    /\ status = 0
    /\ validated = FALSE
    /\ handlers = <<>>
    /\ hosts = 0
    /\ nodes = {}
    /\ framework = [h \in Host |-> {}]
    /\ pool = [h \in Host |-> FALSE]
    /\ volumes = [h \in Host |-> {}]
    /\ up = [h \in Host |-> FALSE]
    /\ bad = [h \in Host |-> FALSE]
    /\ failed = FALSE

-----------------------------------------------------------------------------
(* setup()                                                                 *)

\* --report-and-quit exits with 0, skip_test() with 100 if the number of hosts
\* does not suit the test.
Quit ==
    /\ pc = "args"
    /\ pc' = "exit"
    /\ status' \in {0, 100}
    /\ UNCHANGED <<options, skip_cleanup, uncaught, validated, handlers>>
    /\ UNCHANGED <<hosts, nodes, framework, artifacts, bad, failed>>

\* The log directory is made, Cleanup() sets the hook, and Cluster() registers
\* the first handler.
NewCluster ==
    /\ pc = "args"
    /\ pc' = "setup"
    /\ skip_cleanup' = (policy = "never")
    /\ handlers' = Append(handlers, "cluster")
    /\ UNCHANGED <<options, uncaught, status, validated>>
    /\ UNCHANGED <<hosts, nodes, framework, artifacts, bad, failed>>

\* Host() gets through or raises after k of its changes.  Only a complete
\* object is appended.
NewHost ==
    /\ pc = "setup"
    /\ hosts < NumHosts
    /\ \E k \in 0..Len(Framework), done \in BOOLEAN :
        /\ framework' = [framework EXCEPT ![hosts + 1] =
                            ToSet(SubSeq(Framework, 1, k))]
        /\ done => k = Len(Framework)
        /\ hosts' = IF done THEN hosts + 1 ELSE hosts
        /\ IF done THEN UNCHANGED run ELSE Raise
    /\ UNCHANGED <<nodes, artifacts, bad, failed>>

\* --drbd-version-other: install_drbd() of one host, with a helper script.
InstallDrbd ==
    /\ pc = "setup"
    /\ hosts > 0
    /\ \A h \in Host : "helper" \notin framework[h]
    /\ framework' = [framework EXCEPT ![hosts] = @ \cup {"helper"}]
    /\ UNCHANGED <<run, hosts, nodes, artifacts, bad, failed>>

\* A step after a host is complete and before listen_to_events() raises:
\* install_drbd, TLS, validate_drbd_versions.
CheckFails ==
    /\ pc = "setup"
    /\ hosts > 0
    /\ Raise
    /\ UNCHANGED <<hosts, nodes, framework, artifacts, bad, failed>>

\* listen_to_events() on every host, the SELinux steps, then create_resource(),
\* which registers the resource's handler and makes a node per host.
EndSetup ==
    /\ pc = "setup"
    /\ hosts = NumHosts
    /\ \E more \in Selinux :
        framework' = [h \in Host |-> framework[h] \cup {"events"} \cup more]
    /\ nodes' = Host
    /\ handlers' = Append(handlers, "resource")
    /\ pc' = "script"
    /\ UNCHANGED <<options, skip_cleanup, uncaught, status, validated>>
    /\ UNCHANGED <<hosts, artifacts, bad, failed>>

\* listen_to_events() raises after the processes on hosts 1..k were started.
ListenFails ==
    /\ pc = "setup"
    /\ hosts = NumHosts
    /\ \E k \in 0..NumHosts :
        framework' = [h \in Host |->
            IF h <= k THEN framework[h] \cup {"events"} ELSE framework[h]]
    /\ Raise
    /\ UNCHANGED <<hosts, nodes, artifacts, bad, failed>>

\* disable_faults() or one of the SELinux steps raises, at host k + 1.
SelinuxFails ==
    /\ pc = "setup"
    /\ hosts = NumHosts
    /\ \E k \in 0..(NumHosts - 1), more \in Selinux :
        framework' = [h \in Host |-> framework[h] \cup {"events"} \cup
            (IF h <= k THEN more ELSE more \ {"selinux"})]
    /\ Raise
    /\ UNCHANGED <<hosts, nodes, artifacts, bad, failed>>

-----------------------------------------------------------------------------
(* The script.                                                             *)

\* Resource.add_disk(): on every node in order, the storage pool if there is
\* none, then the volume, if the node is to have one.
AddDisk(diskful_nodes) ==
    /\ pc = "script"
    /\ pool' = [h \in Host |-> pool[h] \/ h \in nodes]
    /\ volumes' = [h \in Host |->
            IF h \in diskful_nodes THEN volumes[h] \cup {"known"}
                                   ELSE volumes[h]]
    /\ UNCHANGED <<run, hosts, nodes, framework, up, bad, failed>>

\* It raises at the k-th host: before it has made anything there, with the
\* pool made, or with a volume that is not in Node.disks yet.
AddDiskFails ==
    /\ pc = "script"
    /\ \E k \in nodes, made \in {"nothing", "pool", "volume"} :
        /\ pool' = [h \in Host |->
                \/ pool[h]
                \/ h \in nodes /\ (h < k \/ (h = k /\ made # "nothing"))]
        /\ volumes' = [h \in Host |->
                CASE h \in nodes /\ h < k -> volumes[h] \cup {"known"}
                  [] h = k /\ made = "volume" -> volumes[h] \cup {"lost"}
                  [] OTHER -> volumes[h]]
    /\ Raise
    /\ UNCHANGED <<hosts, nodes, framework, up, bad, failed>>

\* drbdadm up
Up(h) ==
    /\ pc = "script"
    /\ h \in nodes
    /\ ~up[h]
    /\ up' = [up EXCEPT ![h] = TRUE]
    /\ UNCHANGED <<run, hosts, nodes, framework, pool, volumes, bad>>
    /\ UNCHANGED failed

\* drbdadm down
Down(h) ==
    /\ pc = "script"
    /\ up[h]
    /\ up' = [up EXCEPT ![h] = FALSE]
    /\ UNCHANGED <<run, hosts, nodes, framework, pool, volumes, bad>>
    /\ UNCHANGED failed

\* remove_node(): the resource forgets the node, the host keeps what it has.
RemoveNode(h) ==
    /\ pc = "script"
    /\ h \in nodes
    /\ nodes' = nodes \ {h}
    /\ UNCHANGED <<run, hosts, framework, artifacts, bad, failed>>

\* Node.remove_disks() of the members among hosts 1..k.  A volume that DRBD
\* holds cannot be removed.
DisksRemoved(k) ==
    /\ \A h \in nodes : h <= k /\ "known" \in volumes[h] => ~up'[h]
    /\ volumes' = [h \in Host |->
            IF h \in nodes /\ h <= k THEN volumes[h] \ {"known"}
                                    ELSE volumes[h]]

\* Host.remove_storage_pool() of hosts 1..k, given the volumes vols that are
\* left: they go with their pool, unless DRBD holds one.
PoolsRemoved(k, vols) ==
    /\ \A h \in 1..k : pool[h] => ~("known" \in vols[h] /\ up[h])
    /\ pool' = [h \in Host |-> pool[h] /\ h > k]
    /\ volumes' = [h \in Host |-> IF h <= k /\ pool[h] THEN {} ELSE vols[h]]

\* Resource.remove_storage_pool(), which raises where there is no pool.
RemoveStoragePool ==
    /\ pc = "script"
    /\ \A h \in Host : pool[h]
    /\ \A h \in nodes : "known" \in volumes[h] => ~up[h]
    /\ PoolsRemoved(NumHosts, [h \in Host |->
            IF h \in nodes THEN volumes[h] \ {"known"} ELSE volumes[h]])
    /\ UNCHANGED <<run, hosts, nodes, framework, up, bad, failed>>

\* The kernel of a host logs a BUG or a failed assertion and the capture, which
\* runs from Host() to teardown() or cleanup_framework(), has it.
KernelComplains(h) ==
    /\ "dmesg" \in framework[h]
    /\ bad' = [bad EXCEPT ![h] = TRUE]
    /\ UNCHANGED <<run, hosts, nodes, framework, artifacts, failed>>

\* Any other command of the script, or a condition it tests.
ScriptFails ==
    /\ pc = "script"
    /\ Raise
    /\ UNCHANGED <<hosts, nodes, framework, artifacts, bad, failed>>

\* The script is over and has not called teardown().
ScriptEnds ==
    /\ pc = "script"
    /\ pc' = "exit"
    /\ UNCHANGED <<options, skip_cleanup, uncaught, status, validated>>
    /\ UNCHANGED <<handlers, hosts, nodes, framework, artifacts, bad, failed>>

\* Defect: the result of the last host decides.
StatusOfLast(validate_dmesg) ==
    IF validate_dmesg /\ bad[NumHosts] THEN 3 ELSE 0

\* Host.teardown() of all hosts, and sys.exit(3), which calls no excepthook.
TeardownStatus(validate_dmesg) ==
    IF validate_dmesg /\ \E h \in Host : bad[h] THEN 3 ELSE 0

\* rmmod needs the resource down; --no-rmmod leaves it out.
TornDown(no_rmmod) == IF no_rmmod THEN {"dmesg"} ELSE {"module", "dmesg"}

\* Cluster.teardown(), with which the script ends: host by host rmmod,
\* stop_dmesg and, if the script wants it, the search of the log.
Teardown ==
    /\ pc = "script"
    /\ \E no_rmmod, validate_dmesg \in BOOLEAN :
        /\ no_rmmod \/ \A h \in Host : ~up[h]
        /\ framework' = [h \in Host |-> framework[h] \ TornDown(no_rmmod)]
        /\ status' = TeardownStatus(validate_dmesg)
        /\ validated' = validate_dmesg
    /\ pc' = "exit"
    /\ UNCHANGED <<options, skip_cleanup, uncaught, handlers>>
    /\ UNCHANGED <<hosts, nodes, artifacts, bad, failed>>

\* rmmod or stop_dmesg raises on host k, after the hosts before it are done.
TeardownFails ==
    /\ pc = "script"
    /\ \E k \in Host, no_rmmod \in BOOLEAN, part \in {{}, {"module"}} :
        /\ no_rmmod \/ \A h \in 1..(k - 1) : ~up[h]
        /\ part = {} \/ (~no_rmmod /\ ~up[k])
        /\ framework' = [h \in Host |->
                CASE h < k -> framework[h] \ TornDown(no_rmmod)
                  [] h = k -> framework[h] \ part
                  [] OTHER -> framework[h]]
    /\ Raise
    /\ UNCHANGED <<hosts, nodes, artifacts, bad, failed>>

-----------------------------------------------------------------------------
(* atexit                                                                  *)

\* Defect: handlers called in the order of their registration.
NextHandlerFirst == 1

\* Position of the handler that atexit calls next: the last registered.
NextHandler == Len(handlers)

Runs(f) == pc = "exit" /\ handlers # <<>> /\ handlers[NextHandler] = f

\* The handler returns or ends with an exception; atexit goes on with the
\* others and the exit status stays.
HandlerEnds(exception) ==
    /\ handlers' = RemoveAt(handlers, NextHandler)
    /\ failed' = (failed \/ exception)
    /\ UNCHANGED <<pc, options, skip_cleanup, uncaught, status, validated>>
    /\ UNCHANGED <<hosts, nodes, bad>>

\* drbdsetup down on the members among hosts 1..k
TakenDown(k) == up' = [h \in Host |-> up[h] /\ ~(h \in nodes /\ h <= k)]

\* Defect: Node.cleanup() leaves the volumes to the storage pool.
ResourceCleanupDownOnly ==
    /\ Runs("resource")
    /\ ~skip_cleanup
    /\ \A h \in nodes : "ssh" \in framework[h]
    /\ TakenDown(NumHosts)
    /\ HandlerEnds(FALSE)
    /\ UNCHANGED <<framework, pool, volumes>>

\* Defect: Node.cleanup() takes the resource down only if it has a disk.
ResourceCleanupDiskful ==
    /\ Runs("resource")
    /\ ~skip_cleanup
    /\ \A h \in nodes : "ssh" \in framework[h]
    /\ up' = [h \in Host |-> up[h] /\ ~(h \in nodes /\ volumes[h] # {})]
    /\ DisksRemoved(NumHosts)
    /\ HandlerEnds(FALSE)
    /\ UNCHANGED <<framework, pool>>

\* Resource.cleanup(): Node.cleanup() of every member, which takes the resource
\* down and removes the disks.
ResourceCleanup ==
    /\ Runs("resource")
    /\ ~skip_cleanup
    /\ \A h \in nodes : "ssh" \in framework[h]
    /\ TakenDown(NumHosts)
    /\ DisksRemoved(NumHosts)
    /\ HandlerEnds(FALSE)
    /\ UNCHANGED <<framework, pool>>

\* It raises at the k-th host, before or after the resource is down there.
ResourceCleanupFails ==
    /\ Runs("resource")
    /\ ~skip_cleanup
    /\ \E k \in nodes :
        /\ \A h \in nodes : h < k => "ssh" \in framework[h]
        /\ TakenDown(k) \/ TakenDown(k - 1)
        /\ DisksRemoved(k - 1)
    /\ HandlerEnds(TRUE)
    /\ UNCHANGED <<framework, pool>>

ResourceCleanupSkipped ==
    /\ Runs("resource")
    /\ skip_cleanup
    /\ HandlerEnds(FALSE)
    /\ UNCHANGED <<framework, artifacts>>

\* Host.cleanup() of hosts 1..k
HostsCleaned(k) == PoolsRemoved(k, volumes) /\ UNCHANGED up

\* What cleanup_framework() has undone when it raises: the command that stops
\* dmesg failed, or a later one up to the removal of the iptables chains.
UndonePart == {{}, {"dmesg"}}

\* Defect: skip_cleanup skips the framework's clean-up, too.
ClusterCleanupSkipsAll ==
    /\ Runs("cluster")
    /\ IF skip_cleanup
       THEN UNCHANGED <<artifacts, framework>>
       ELSE /\ HostsCleaned(hosts)
            /\ framework' = [h \in Host |->
                    IF h <= hosts THEN framework[h] \ Undone
                                  ELSE framework[h]]
    /\ HandlerEnds(FALSE)

\* Cluster.cleanup(): the pools unless skip_cleanup, then the framework.
ClusterCleanup ==
    /\ Runs("cluster")
    /\ IF skip_cleanup THEN UNCHANGED artifacts ELSE HostsCleaned(hosts)
    /\ framework' = [h \in Host |->
            IF h <= hosts THEN framework[h] \ Undone ELSE framework[h]]
    /\ HandlerEnds(FALSE)

\* Host.cleanup() of host k raises.
PoolRemovalFails ==
    /\ Runs("cluster")
    /\ ~skip_cleanup
    /\ \E k \in 1..hosts : pool[k] /\ HostsCleaned(k - 1)
    /\ HandlerEnds(TRUE)
    /\ UNCHANGED framework

\* cleanup_framework() of host k raises.
FrameworkCleanupFails ==
    /\ Runs("cluster")
    /\ IF skip_cleanup THEN UNCHANGED artifacts ELSE HostsCleaned(hosts)
    /\ \E k \in 1..hosts, part \in UndonePart :
        /\ framework' = [h \in Host |->
                CASE h < k -> framework[h] \ Undone
                  [] h = k -> framework[h] \ part
                  [] OTHER -> framework[h]]
    /\ HandlerEnds(TRUE)

End ==
    /\ pc = "exit"
    /\ handlers = <<>>
    /\ pc' = "ended"
    /\ UNCHANGED <<options, skip_cleanup, uncaught, status, validated>>
    /\ UNCHANGED <<handlers, hosts, nodes, framework, artifacts, bad, failed>>

-----------------------------------------------------------------------------
Next ==
    \/ Quit \/ NewCluster \/ NewHost \/ InstallDrbd \/ CheckFails
    \/ EndSetup \/ ListenFails \/ SelinuxFails
    \/ \E D \in SUBSET nodes : AddDisk(D)
    \/ AddDiskFails \/ RemoveStoragePool
    \/ ScriptFails \/ ScriptEnds \/ Teardown \/ TeardownFails
    \/ \E h \in Host : Up(h) \/ Down(h) \/ RemoveNode(h) \/ KernelComplains(h)
    \/ ResourceCleanup \/ ResourceCleanupFails \/ ResourceCleanupSkipped
    \/ ClusterCleanup \/ PoolRemovalFails \/ FrameworkCleanupFails
    \/ End

Spec == Init /\ [][Next]_vars

-----------------------------------------------------------------------------
\* As long as no clean-up step itself raises, no connection is open, no process
\* of the framework runs and its chains are gone from where commands run, on
\* any host of the cluster, whatever went wrong before and whatever --cleanup
\* says; what nothing ever undoes is the namespace with its devices, the chains
\* outside of it, configuration, SELinux rules and helper scripts, and the
\* module unless teardown() has unloaded it (Cluster.cleanup).
FrameworkGone ==
    pc = "ended" /\ ~failed =>
        \A h \in 1..hosts : framework[h] \subseteq
            {"module", "netns", "init_iptables", "netdevs", "config", "helper",
             "selinux"}

\* The artifacts of a failed test stay for inspection: with --cleanup=never,
\* and with --cleanup=success after an exception, no step of the clean-up
\* touches a resource, a volume or a pool (Cleanup.hook, Resource.cleanup,
\* Cluster.cleanup).
EvidenceKept ==
    [][pc = "exit" /\ (policy = "never" \/ (policy = "success" /\ uncaught))
       => UNCHANGED artifacts]_vars

\* A clean-up that is wanted and meets no error leaves no pool on any host, no
\* volume (not even one that a failed add_disk lost track of), and the resource
\* up on none of its members.
ArtifactsGone ==
    pc = "ended" /\ ~failed
    /\ (policy = "always" \/ (policy = "success" /\ ~uncaught))
    => /\ \A h \in Host : ~pool[h] /\ volumes[h] = {}
       /\ \A h \in nodes : ~up[h]

\* The connections to its nodes are open for as long as Resource.cleanup() is
\* still to be called: Cluster.cleanup(), which closes them, comes later.
ConnectionOutlivesResource ==
    "resource" \in ToSet(handlers) => \A h \in nodes : "ssh" \in framework[h]

\* When Cluster.cleanup() starts to remove the pools, Resource.cleanup() has
\* returned every volume of every member to them, so no pool of a member has a
\* volume that DRBD holds or that a node still lists.
PoolsReturned ==
    Runs("cluster") /\ ~skip_cleanup /\ ~failed
    => \A h \in nodes : ~up[h] /\ "known" \notin volumes[h]

\* A test that exits with 0 and ends with teardown(), without
\* validate_dmesg=False, has no bad line in the captured log of any host
\* (Cluster.teardown).
ExitZeroMeansClean ==
    pc = "ended" /\ status = 0 /\ validated => \A h \in Host : ~bad[h]
=============================================================================
