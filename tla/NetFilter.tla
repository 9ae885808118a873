----------------------------- MODULE NetFilter ------------------------------
(***************************************************************************)
(* Blocking the network of one host with iptables (block_path,             *)
(* unblock_path, block_packet_type and unblock_packet_type of python/      *)
(* drbdtest.py and linuxplatformhelper.py).                                *)
(*                                                                         *)
(* A block is a group of rules in the chains of the framework, each        *)
(* inserted by a command of its own.  Rules that are alike are             *)
(* interchangeable: iptables -D deletes one of them, or fails.             *)
(*                                                                         *)
(* A block with for_seconds is ended by a shell in the background of the   *)
(* host.  Nobody waits for the shell or stops it: it runs beside the       *)
(* coordinator's commands, and goes on after the test.                     *)
(***************************************************************************)
EXTENDS Naturals, FiniteSets, Sequences

CONSTANTS
    Paths,          \* what block_path() blocks: a peer, a path and jump_to
    Packets,        \* what block_packet_type() blocks: a packet and a sender
    PathRules,      \* rules of a path: 4 for TCP, 2 for RDMA
    MaxBlocks,      \* bound on the blocks of a target
    MaxShells,      \* bound on the timed blocks
    MaxTests        \* bound on the tests run on the host

ASSUME NetFilterAssumption ==
    /\ Paths \cap Packets = {}
    /\ PathRules \in {2, 4}
    /\ {MaxBlocks, MaxShells, MaxTests} \subseteq Nat \ {0}

Target == Paths \cup Packets

VARIABLES
    test,           \* number of the test
    running,        \* the test runs: the chains exist
    rules,          \* how many rules of each kind are in the chains
    call,           \* the call in progress: the commands left to run
    blocks,         \* per target, blocks without for_seconds that the script
                    \* has made and not undone
    shells,         \* the shells of timed blocks: the commands left
    stale           \* a shell of an earlier test was left when this one began

vars == <<test, running, rules, call, blocks, shells, stale>>

-----------------------------------------------------------------------------
\* _iptables_cmd(): for TCP a rule per direction and port, as either end may
\* have connected; for RDMA one per direction.  _block_packet_type(): a rule
\* that logs and one that drops.
IptablesCmd(t, op) ==
    [i \in 1..(IF t \in Paths THEN PathRules ELSE 2) |->
        [op |-> op, rule |-> <<t, i>>]]

\* Defects: the first rule is forgotten; the rules of another jump target.
UnblockCmdsShort(t) == Tail(IptablesCmd(t, "-D"))
UnblockCmdsOther(t) == IptablesCmd(CHOOSE u \in Paths : TRUE, "-D")

\* The commands that undo a block.
UnblockCmds(t) == IptablesCmd(t, "-D")

Rule == UNION {{<<t, i>> : i \in 1..(IF t \in Paths THEN PathRules ELSE 2)} :
                t \in Target}

NoRules == [r \in Rule |-> 0]

\* iptables runs command c, and succeeds.
Works(c) == c.op = "-D" => rules[c.rule] > 0
Applied(c) ==
    rules' = [rules EXCEPT ![c.rule] = IF c.op = "-I" THEN @ + 1 ELSE @ - 1]

Idle == [kind |-> "none", todo |-> <<>>]

Init ==
    /\ test = 1
    /\ running = TRUE
    /\ rules = NoRules
    /\ call = Idle
    /\ blocks = [t \in Target |-> 0]
    /\ shells = <<>>
    /\ stale = FALSE

-----------------------------------------------------------------------------
(* The script.                                                             *)

\* block_path() or block_packet_type() without for_seconds
Block(t) ==
    /\ running /\ call = Idle
    /\ blocks[t] < MaxBlocks
    /\ call' = [kind |-> "block", target |-> t, todo |-> IptablesCmd(t, "-I")]
    /\ UNCHANGED <<test, running, rules, blocks, shells, stale>>

\* unblock_path() or unblock_packet_type() of what the script has blocked
Unblock(t) ==
    /\ running /\ call = Idle
    /\ blocks[t] > 0
    /\ call' = [kind |-> "unblock", target |-> t, todo |-> UnblockCmds(t)]
    /\ UNCHANGED <<test, running, rules, blocks, shells, stale>>

\* block_path() with for_seconds: a shell inserts the rules, sleeps and deletes
\* them.
BlockPathFor(t) ==
    /\ running /\ call = Idle
    /\ t \in Paths
    /\ Len(shells) < MaxShells
    /\ shells' = Append(shells, IptablesCmd(t, "-I") \o UnblockCmds(t))
    /\ UNCHANGED <<test, running, rules, call, blocks, stale>>

\* block_packet_type() with for_seconds: the rules are inserted by the call.
BlockPacketFor(t) ==
    /\ running /\ call = Idle
    /\ t \in Packets
    /\ Len(shells) < MaxShells
    /\ call' = [kind |-> "timed", target |-> t, todo |-> IptablesCmd(t, "-I")]
    /\ UNCHANGED <<test, running, rules, blocks, shells, stale>>

\* A command of the call succeeds.
Command ==
    /\ call.todo # <<>>
    /\ Works(Head(call.todo))
    /\ Applied(Head(call.todo))
    /\ call' = [call EXCEPT !.todo = Tail(@)]
    /\ UNCHANGED <<test, running, blocks, shells, stale>>

\* Defect: the shell is started only if the packet is not blocked otherwise.
ReturnNoShell ==
    /\ call # Idle /\ call.todo = <<>>
    /\ call' = Idle
    /\ blocks' = [blocks EXCEPT ![call.target] =
            CASE call.kind = "block" -> @ + 1
              [] call.kind = "unblock" -> @ - 1
              [] OTHER -> @]
    /\ shells' = IF call.kind = "timed" /\ rules[<<call.target, 1>>] = 1
                 THEN Append(shells, UnblockCmds(call.target)) ELSE shells
    /\ UNCHANGED <<test, running, rules, stale>>

\* The call is complete; block_packet_type() starts the shell, which sleeps and
\* then deletes the rules.
Return ==
    /\ call # Idle /\ call.todo = <<>>
    /\ call' = Idle
    /\ blocks' = [blocks EXCEPT ![call.target] =
            CASE call.kind = "block" -> @ + 1
              [] call.kind = "unblock" -> @ - 1
              [] OTHER -> @]
    /\ shells' = IF call.kind = "timed"
                 THEN Append(shells, UnblockCmds(call.target)) ELSE shells
    /\ UNCHANGED <<test, running, rules, stale>>

-----------------------------------------------------------------------------
(* The shells.                                                             *)

\* A command of a shell; it ignores those that fail, as they do when there are
\* no chains.
Shell(s) ==
    /\ shells[s] # <<>>
    /\ IF running /\ Works(Head(shells[s])) THEN Applied(Head(shells[s]))
                                            ELSE UNCHANGED rules
    /\ shells' = [shells EXCEPT ![s] = Tail(@)]
    /\ UNCHANGED <<test, running, call, blocks, stale>>

-----------------------------------------------------------------------------
(* Tests on the host.                                                      *)

\* The script ends or raises, also because a command failed, and
\* cleanup_framework() flushes and removes the chains.
EndTest ==
    /\ running
    /\ running' = FALSE
    /\ rules' = NoRules
    /\ call' = Idle
    /\ blocks' = [t \in Target |-> 0]
    /\ UNCHANGED <<test, shells, stale>>

\* init_host() of the next test flushes the chains, or makes them.
NextTest ==
    /\ ~running
    /\ test < MaxTests
    /\ test' = test + 1
    /\ running' = TRUE
    /\ rules' = NoRules
    /\ stale' = \E s \in 1..Len(shells) : shells[s] # <<>>
    /\ UNCHANGED <<call, blocks, shells>>

-----------------------------------------------------------------------------
Next ==
    \/ \E t \in Target :
        Block(t) \/ Unblock(t) \/ BlockPathFor(t) \/ BlockPacketFor(t)
    \/ Command \/ Return
    \/ \E s \in 1..Len(shells) : Shell(s)
    \/ EndTest \/ NextTest

Spec == Init /\ [][Next]_vars

\* A call runs its commands, and the shells wake up and run theirs.
FairSpec ==
    /\ Spec
    /\ WF_vars(Command \/ Return)
    /\ \A s \in 1..MaxShells : WF_vars(s \in 1..Len(shells) /\ Shell(s))

-----------------------------------------------------------------------------
Has(s, op, r) ==
    \E i \in 1..Len(shells[s]) : shells[s][i] = [op |-> op, rule |-> r]

\* The shells that have inserted rule r and not deleted it.
Holding(r) == {s \in 1..Len(shells) : Has(s, "-D", r) /\ ~Has(s, "-I", r)}

\* Between two calls of the script, the rules are those of the blocks it has
\* not undone and of the timed blocks that have not ended, whatever the shells
\* are doing: neither unblock_path() nor the end of a timed block opens a path
\* that is still to be blocked, and none leaves a rule behind.  A shell left by
\* an earlier test may delete the rules of this one.
RulesAccounted ==
    running /\ call = Idle /\ ~stale =>
        \A r \in Rule : rules[r] = blocks[r[1]] + Cardinality(Holding(r))

\* A command of unblock_path() fails only if a shell of an earlier test has
\* deleted the rule.
UnblockWorks == call.todo # <<>> /\ ~stale => Works(Head(call.todo))

\* No rule outlives a block: what is blocked for a time only gets free again,
\* unless the script blocks it itself.
PathsOpenAgain ==
    \A r \in Rule : blocks[r[1]] = 0 ~> rules[r] = 0 \/ blocks[r[1]] > 0
=============================================================================
