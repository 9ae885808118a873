------------------------------- MODULE Events -------------------------------
(***************************************************************************)
(* Waiting for events, drbdtest.py.                                        *)
(*                                                                         *)
(* "drbdsetup events2" runs on every host and its lines are read by one    *)
(* Logscan object.  An operation of a collection (down, attach, detach,    *)
(* connect, primary, ...) runs a command on its nodes and then calls       *)
(* event(), which takes lines from the streams of the nodes it waits for   *)
(* until each one has shown what it waits for.  A line that was taken is   *)
(* never seen again.  A line that matches Resource.forbidden_patterns      *)
(* raises; down() and detach() take patterns out of that set while they    *)
(* run, up_wait() and the script change it.                                *)
(*                                                                         *)
(* Logscan, a library, and the kernel are external.                        *)
(***************************************************************************)
EXTENDS Naturals, Sequences, FiniteSets, SequencesExt

CONSTANTS
    Node, Volume,
    Old,                \* nodes with DRBD 8.4
    Calls,              \* the script's calls: records name, nodes, vols
    MaxOps, MaxFaults   \* bounds

VARIABLES
    pc,                 \* "idle", "busy", or "raised": an exception is out
    op,                 \* the operation: its name, nodes, volumes, number
    todo,               \* nodes whose command is still to be run
    calls,              \* the event() calls still to be made
    goals,              \* what the current call still waits for
    mask,               \* remove_patterns
    forbidden,          \* Resource.forbidden_patterns
    unread,             \* per node, the lines that were not taken yet
    coming,             \* per node and volume, lines not written yet
    declared,           \* history: what script and up_wait() want forbidden
    leaked,             \* history: masked by an operation that raised
    abandoned,          \* history: nodes of operations that did not wait to
                        \* the end
    faults

control == <<op, todo, calls, goals, mask>>
history == <<declared, leaked, abandoned>>
vars == <<pc, control, forbidden, unread, coming, history, faults>>

-----------------------------------------------------------------------------
\* Patterns with the same treatment share a name: peer-disk:Failed, which no
\* operation ever masks, stands for Timeout and ProtocolError, too, and
\* NetworkFailure goes with BrokenPipe.
InitialPatterns == {"disk:Failed", "peer-disk:Failed"}

\* While connecting these are normal.
WhenConnected == {"connection:BrokenPipe"}

Pattern == InitialPatterns \cup WhenConnected

\* Defect: the role first, then the disk.
PrimaryInTurn == <<{"Primary"}, {"UpToDate"}>>

\* primary(force=True) waits for disk and role in one call, in any order.
PrimaryForce == <<{"Primary", "UpToDate"}>>

\* What a disk can be once it is attached.  Inconsistent stands for Outdated
\* and Consistent, too: no other operation waits for one of the three.
Settled == {"Inconsistent", "UpToDate"}

\* Per operation the event() calls it makes.  Each one is a set of regular
\* expressions with alternatives, written as the kinds of lines that match; all
\* but primary(force=True) have a single one.  Of up_unconnected() these are
\* the calls after its attach command; what it does before has the form of
\* new_resource().
Awaited ==
    [down |-> <<{"destroy"}>>,
     new_resource |-> <<{"create"}>>,
     up_wait |-> <<{"peer-disk"}>>,
     attach |-> <<{"Attaching"}>>,
     up_unconnected |-> <<{"Attaching"}, Settled \cup {"disk:Failed"}>>,
     detach |-> <<{"disk:Failed", "Detaching"}, {"Diskless"}>>,
     connect |-> <<{"Connecting"}>>,
     disconnect |-> <<{"StandAlone"}>>,
     primary |-> <<{"Primary"}>>,
     primary_force |-> PrimaryForce,
     secondary |-> <<{"Secondary"}>>,
     verify |-> <<{"VerifyS"}>>]

\* Lines that are not about a volume are written as if about this one.
AVolume == CHOOSE v \in Volume : TRUE

OfVolumes == {"up_wait", "attach", "up_unconnected", "detach", "verify"}
OfOneNode == {"primary", "primary_force", "secondary"}
MayNotWait == {"connect", "disconnect", "primary", "secondary", "verify"}

\* The kernel writes these lines for a node or a volume, in this order.  What
\* an attached disk is, its metadata say; down detaches a disk that there is; a
\* forced promotion, of a disk that is not UpToDate, changes disk and role in
\* any order.
Written(name, n) ==
    LET detached == <<IF n \in Old THEN "disk:Failed" ELSE "Detaching",
                      "Diskless">>
    IN  CASE name \in {"attach", "up_unconnected"} ->
                {<<"Attaching", s>> : s \in Settled}
          [] name = "detach" -> {detached}
          [] name = "down" -> {<<"destroy">>, detached \o <<"destroy">>}
          [] name = "primary_force" ->
                {<<"Primary", "UpToDate">>, <<"UpToDate", "Primary">>}
          [] OTHER -> {[i \in 1..1 |-> k] : k \in Awaited[name][1]}

\* The goals of one event() call: each of its expressions has to match on each
\* node, or each volume; the alternatives of an expression are one goal.
GoalsOf(o, kinds) ==
    IF o.name = "primary_force"
    THEN [node : o.nodes, vol : o.vols, kinds : {{k} : k \in kinds}]
    ELSE [node : o.nodes, vol : o.vols, kinds : {kinds}]

\* Defect: only one node is put into the filters.
GoalsOfOne(o, kinds) ==
    {g \in GoalsOf(o, kinds) : g.node = CHOOSE n \in o.nodes : TRUE}

\* Nodes.event(), Volumes.event(), Connections.event(), PeerDevices.event():
\* the filters of all members go into one call of logscan().
Filters(o, kinds) == GoalsOf(o, kinds)

Matches(line, g) == line.vol = g.vol /\ line.kind \in g.kinds

ASSUME EventsAssumption ==
    /\ IsFiniteSet(Node) /\ Node # {}
    /\ IsFiniteSet(Volume) /\ Volume # {}
    /\ Old \subseteq Node
    /\ \A c \in Calls :
        /\ c.name \in DOMAIN Awaited
        /\ c.nodes \in (SUBSET Node) \ {{}}
        /\ c.vols \in (SUBSET Volume) \ {{}}
        /\ c.name \in OfVolumes \/ c.vols = {AVolume}
        /\ c.name \in OfOneNode => Cardinality(c.nodes) = 1
        /\ c.name = "up_wait" => c.nodes = Node /\ c.vols = Volume
    /\ {MaxOps, MaxFaults} \subseteq Nat

-----------------------------------------------------------------------------
\* After listen_to_events() has seen "exists -" on every host.
Init ==
    /\ pc = "idle"
    /\ op = [name |-> "none", nodes |-> {}, vols |-> {}, id |-> 0]
    /\ todo = {}
    /\ calls = <<>>
    /\ goals = {}
    /\ mask = {}
    /\ forbidden = InitialPatterns
    /\ unread = [n \in Node |-> <<>>]
    /\ coming = [u \in Node \X Volume |-> <<>>]
    /\ declared = InitialPatterns
    /\ leaked = {}
    /\ abandoned = {}
    /\ faults = 0

\* The script adds a pattern, or takes one out.
Forbid(p) ==
    /\ pc = "idle"
    /\ op.id < MaxOps
    /\ p \notin forbidden
    /\ forbidden' = forbidden \cup {p}
    /\ declared' = declared \cup {p}
    /\ leaked' = leaked \ {p}
    /\ UNCHANGED <<pc, control, unread, coming, abandoned, faults>>

Allow(p) ==
    /\ pc = "idle"
    /\ op.id < MaxOps
    /\ p \in forbidden
    /\ forbidden' = forbidden \ {p}
    /\ declared' = declared \ {p}
    /\ UNCHANGED <<pc, control, unread, coming, leaked, abandoned, faults>>

\* Defect: patterns are put back that the script had taken out before.
MaskAll(name, ns) ==
    CASE name = "down" -> WhenConnected
      [] OTHER -> {}

\* remove_patterns: down() looks at the versions of its own nodes, detach() at
\* those of all nodes of the resource.
RemovePatterns(name, ns) ==
    CASE name = "down" ->
            forbidden \cap (WhenConnected \cup
                IF ns \cap Old # {} THEN {"disk:Failed"} ELSE {})
      [] name = "detach" ->
            forbidden \cap (IF Old # {} THEN {"disk:Failed"} ELSE {})
      [] OTHER -> {}

\* An operation begins.
Begin(name, ns, vs, wait) ==
    /\ pc = "idle"
    /\ op.id < MaxOps
    /\ pc' = "busy"
    /\ op' = [name |-> name, nodes |-> ns, vols |-> vs, id |-> op.id + 1]
    /\ todo' = ns
    /\ calls' = IF wait THEN Awaited[name] ELSE <<>>
    /\ mask' = RemovePatterns(name, ns)
    /\ forbidden' = forbidden \ RemovePatterns(name, ns)
    /\ abandoned' = IF wait THEN abandoned ELSE abandoned \cup ns
    /\ UNCHANGED <<goals, unread, coming, declared, leaked, faults>>

\* drbdadm on the next node, for each of the volumes.
Command ==
    /\ pc = "busy"
    /\ todo # {}
    /\ LET n == CHOOSE m \in todo : TRUE IN
       /\ todo' = todo \ {n}
       /\ \E lines \in Written(op.name, n) :
           coming' = [u \in Node \X Volume |->
               IF u[1] = n /\ u[2] \in op.vols
               THEN coming[u] \o [i \in DOMAIN lines |->
                       [kind |-> lines[i], vol |-> u[2], by |-> op.id]]
               ELSE coming[u]]
    /\ UNCHANGED <<pc, op, calls, goals, mask, forbidden, unread>>
    /\ UNCHANGED <<history, faults>>

\* event() is called.
NextCall ==
    /\ pc = "busy"
    /\ todo = {} /\ goals = {} /\ calls # <<>>
    /\ goals' = Filters(op, Head(calls))
    /\ calls' = Tail(calls)
    /\ UNCHANGED <<pc, op, todo, mask, forbidden, unread, coming, history>>
    /\ UNCHANGED faults

\* The operation returns: masked patterns are forbidden again, and up_wait()
\* adds what must not happen any more once the nodes are connected.
Return ==
    /\ pc = "busy"
    /\ todo = {} /\ goals = {} /\ calls = <<>>
    /\ pc' = "idle"
    /\ LET new == IF op.name = "up_wait" THEN WhenConnected ELSE {} IN
        /\ forbidden' = forbidden \cup mask \cup new
        /\ declared' = declared \cup new
        /\ leaked' = leaked \ new
    /\ mask' = {}
    /\ UNCHANGED <<op, todo, calls, goals, unread, coming, abandoned, faults>>

-----------------------------------------------------------------------------
(* Logscan.event() takes the next line of a node it still waits for.       *)

\* The stack is unwound; nothing puts the masked patterns back.
Unwind ==
    /\ pc' = "raised"
    /\ todo' = {}
    /\ calls' = <<>>
    /\ goals' = {}
    /\ mask' = {}
    /\ leaked' = leaked \cup mask
    /\ abandoned' = abandoned \cup op.nodes
    /\ UNCHANGED <<op, forbidden, declared, faults>>

Take(n) ==
    /\ pc = "busy"
    /\ \E g \in goals : g.node = n
    /\ unread[n] # <<>>
    /\ unread' = [unread EXCEPT ![n] = Tail(@)]
    /\ UNCHANGED coming
    /\ LET line == Head(unread[n]) IN
        IF line.kind \in forbidden
        THEN Unwind
        ELSE /\ goals' = {g \in goals : g.node = n => ~Matches(line, g)}
             /\ UNCHANGED <<pc, op, todo, calls, mask, forbidden, history>>
             /\ UNCHANGED faults

\* A command fails, or the lines do not come within 30 seconds.
Raise ==
    /\ pc = "busy"
    /\ todo # {} \/ goals # {}
    /\ Unwind
    /\ UNCHANGED <<unread, coming>>

\* The script catches the exception and goes on.
Catch ==
    /\ pc = "raised"
    /\ pc' = "idle"
    /\ UNCHANGED <<control, forbidden, unread, coming, history, faults>>

-----------------------------------------------------------------------------
(* The kernel.  It is not followed any more once the script is over.       *)

Over == pc = "idle" /\ op.id = MaxOps

Write(u) ==
    /\ ~Over
    /\ coming[u] # <<>>
    /\ coming' = [coming EXCEPT ![u] = Tail(@)]
    /\ unread' = [unread EXCEPT ![u[1]] = Append(@, Head(coming[u]))]
    /\ UNCHANGED <<pc, control, forbidden, history, faults>>

\* A connection or a disk fails.
Fault(n, p) ==
    /\ ~Over
    /\ faults < MaxFaults
    /\ faults' = faults + 1
    /\ unread' = [unread EXCEPT ![n] =
            Append(@, [kind |-> p, vol |-> AVolume, by |-> 0])]
    /\ UNCHANGED <<pc, control, forbidden, coming, history>>

-----------------------------------------------------------------------------
\* Operations that can be told not to wait.
Call(c) ==
    \E wait \in {TRUE, c.name \notin MayNotWait} :
        Begin(c.name, c.nodes, c.vols, wait)

Next ==
    \/ Command \/ NextCall \/ Return \/ Raise \/ Catch
    \/ \E c \in Calls : Call(c)
    \/ \E n \in Node : Take(n)
    \/ \E p \in Pattern : Forbid(p) \/ Allow(p)
    \/ \E u \in Node \X Volume : Write(u)
    \/ \E n \in Node, p \in Pattern : Fault(n, p)

Spec == Init /\ [][Next]_vars

-----------------------------------------------------------------------------
\* A line ends the wait exactly if the script or up_wait() wants it forbidden
\* and the running operation does not mask it.  The exception: an operation
\* that raised has left its patterns out of the set, and the script went on
\* (Nodes.down, Volumes.detach, Resource.logscan).
ForbiddenRaises ==
    [][\A n \in Node : Len(unread'[n]) < Len(unread[n]) =>
        LET kind == Head(unread[n]).kind IN
        (pc' = "raised") = (kind \in declared \ (mask \cup leaked))]_vars

\* What an operation waits for was not taken before: the line is unread or the
\* kernel will write it, so that only a slow node or a failure can make the
\* operation time out.  The exception: detach() and up_unconnected() of several
\* volumes of a node make two calls, and the first one can take what the second
\* one needs ("We would need to save and restore the events position").
StillToCome ==
    pc = "busy" => \A g \in goals :
        \/ \E line \in ToSet(unread[g.node] \o coming[<<g.node, g.vol>>]) :
            Matches(line, g)
        \/ Len(Awaited[op.name]) > 1 /\ Cardinality(op.vols) > 1

\* An operation returns because of what its own command did: the line that
\* ends its waiting on a node is not left over from an earlier operation,
\* unless one on this node was not to wait, or raised; unless the disk fails by
\* itself; and unless it is the UpToDate that primary(force=True) waits for:
\* attach() only waits for Attaching and leaves what the disk is then to be
\* taken for it (event() of the collections).
OwnEvent ==
    [][\A n \in Node \ abandoned :
        (pc' # "raised" /\ goals' # goals /\ Len(unread'[n]) < Len(unread[n]))
        => \/ Head(unread[n]).by \in {op.id, 0}
           \/ op.name = "primary_force" /\ Head(unread[n]).kind = "UpToDate"
      ]_vars
=============================================================================
