---------------------------- MODULE CiSelection -----------------------------
(***************************************************************************)
(* The choice of tests for the CI, vmshed_tests_generator.py.              *)
(*                                                                         *)
(* Every test file has a line that says on how many VMs it runs in each    *)
(* selection, from which DRBD version on, and with which variants.  The    *)
(* generator reads all of them, and then writes those that fit the version *)
(* or the two versions it was called for.  It raises and writes no tests   *)
(* if a file has no such line, and it raises in the middle if versions     *)
(* cannot be compared.                                                     *)
(*                                                                         *)
(* A version is a sequence of integers; the strings that can be among its  *)
(* elements are integers below zero.                                       *)
(***************************************************************************)
EXTENDS Integers, Sequences, FiniteSetsExt

CONSTANTS
    Versions,           \* arguments and minimal versions, before parsing
    Configs,            \* what a test file may say: vms_all as "all", whether
                        \* it is "selected" and with which "vms", its "min"
                        \* version, and "variants_add" with "variant", "min"
    NumTests,           \* files, by position in sorted order
    Inf                 \* float('inf'), above all numbers in use

Star == -1              \* '*'
Latest == -2            \* 'latest' or a commit hash
Word == -3              \* any other string
None == <<>>            \* no version

IsStr(e) == e < 0

\* The minimal versions that test files name are numbers.
ASSUME CiAssumption ==
    /\ Inf \in Nat /\ Inf > 9
    /\ Versions \subseteq Seq(-3..(Inf - 1)) \ {None}
    /\ \A c \in Configs :
        /\ c.vms \subseteq Nat
        /\ c.min \in Seq(0..(Inf - 1))
        /\ \A a \in c.variants_add : a.min \in Seq(0..(Inf - 1))
    /\ NumTests \in Nat

VARIABLES
    stage,
    drbd_version, drbd_version_other,
    config,             \* of each file
    unread,             \* files not read yet
    next,               \* next file to be written
    written             \* [tests.*]: vms and variants of the written ones

args == <<drbd_version, drbd_version_other, config>>
generator == <<stage, args, unread, next, written>>

-----------------------------------------------------------------------------
(* Versions.                                                               *)

\* Defect: a development build counts as the release it starts from.
ParseAsRelease(s) ==
    IF Len(s) >= 4 /\ s[3] = 0 /\ s[4] = Latest THEN SubSeq(s, 1, 3) ELSE s

\* parse_version(), of the elements between the dots
parse_version(s) ==
    IF Len(s) >= 4 /\ s[3] = 0 /\ s[4] = Latest
    THEN <<s[1], s[2], Inf>>
    ELSE s

\* Where the loop of is_lower() ends; 0 if it runs to the end.
Decides(v, w) ==
    LET ends == {i \in DOMAIN w : i > Len(v) \/ Star \in {v[i], w[i]}
                                    \/ v[i] # w[i]}
    IN  IF ends = {} THEN 0 ELSE Min(ends)

\* Defect: equal elements up to the end of the shorter one mean "not lower".
LowerIgnoresLength(v, w) ==
    LET i == Decides(v, w) IN
    /\ i \in DOMAIN v
    /\ v[i] # Star
    /\ w[i] = Star \/ v[i] < w[i]

\* is_lower()
is_lower(v, w) ==
    LET i == Decides(v, w) IN
    IF i = 0
    THEN Len(v) < Len(w)
    ELSE i > Len(v) \/ (v[i] # Star /\ (w[i] = Star \/ v[i] < w[i]))

\* A string and a number are compared: TypeError.
LowerRaises(v, w) ==
    LET i == Decides(v, w) IN
    /\ i \in DOMAIN v
    /\ Star \notin {v[i], w[i]}
    /\ IsStr(v[i]) # IsStr(w[i])

\* drbd_version_lower, or None
Lower ==
    LET v == parse_version(drbd_version)
        w == parse_version(drbd_version_other)
    IN  IF \/ drbd_version_other = None
           \/ drbd_version # None /\ is_lower(v, w)
        THEN v ELSE w

-----------------------------------------------------------------------------
(* One test.                                                               *)

\* vms, limited to two nodes with DRBD 8
Vms(c) ==
    IF Lower # None /\ Lower[1] < 9
    THEN {n \in c.vms : n <= 2}
    ELSE c.vms

\* The version is too low for the test.
TooLow(c) ==
    Lower # None /\ c.min # None /\ is_lower(Lower, parse_version(c.min))

\* Defect: for the version of the first node.
VariantsAddFirst(c) ==
    {a.variant : a \in {b \in c.variants_add :
        \/ b.min = None
        \/ drbd_version = None
        \/ is_lower(parse_version(b.min), parse_version(drbd_version))}}

\* parse_variants_add(): with a minimal version only above that version.
parse_variants_add(c) ==
    {a.variant : a \in {b \in c.variants_add :
        \/ b.min = None
        \/ Lower = None
        \/ is_lower(parse_version(b.min), Lower)}}

\* A comparison for this test raises.
WriteRaises(c) ==
    /\ Lower # None
    /\ \/ IsStr(Lower[1])
       \/ /\ Vms(c) # {}
          /\ c.min # None
          /\ LowerRaises(Lower, parse_version(c.min))
       \/ /\ Vms(c) # {}
          /\ ~TooLow(c)
          /\ \E a \in c.variants_add :
                a.min # None /\ LowerRaises(parse_version(a.min), Lower)

-----------------------------------------------------------------------------
\* The arguments, and what the files say.
Start ==
    /\ stage = "start"
    /\ drbd_version \in Versions \cup {None}
    /\ drbd_version_other \in Versions \cup {None}
    /\ config \in [1..NumTests -> Configs]
    /\ unread = 1..NumTests
    /\ next = 1
    /\ written = [t \in {} |-> 0]

\* Which version is the lower one?
Compare ==
    /\ stage = "start"
    /\ stage' = IF /\ None \notin {drbd_version, drbd_version_other}
                   /\ LowerRaises(parse_version(drbd_version),
                                  parse_version(drbd_version_other))
                THEN "raised" ELSE "read"
    /\ UNCHANGED <<args, unread, next, written>>

\* The next file of os.listdir(), in any order.
Read(t) ==
    /\ stage = "read"
    /\ t \in unread
    /\ unread' = unread \ {t}
    /\ stage' = IF config[t].all = {} THEN "raised"
                ELSE IF unread' = {} THEN "write" ELSE "read"
    /\ UNCHANGED <<args, next, written>>

\* A test that is in the selection is written, or passed over.
WriteTest ==
    /\ stage = "write"
    /\ next <= NumTests
    /\ LET c == config[next]
           writes == c.selected /\ Vms(c) # {} /\ ~TooLow(c)
       IN
       IF c.selected /\ WriteRaises(c)
       THEN stage' = "raised" /\ UNCHANGED <<next, written>>
       ELSE /\ next' = next + 1
            /\ written' = IF writes
                THEN [t \in DOMAIN written \cup {next} |->
                        IF t = next
                        THEN [vms |-> Vms(c), variants |->
                                {"default"} \cup parse_variants_add(c)]
                        ELSE written[t]]
                ELSE written
            /\ UNCHANGED stage
    /\ UNCHANGED <<args, unread>>

Finish ==
    /\ stage = "write"
    /\ next > NumTests
    /\ stage' = "done"
    /\ UNCHANGED <<args, unread, next, written>>

Step == Compare \/ (\E t \in 1..NumTests : Read(t)) \/ WriteTest \/ Finish

Generates == Start /\ [][Step]_generator

-----------------------------------------------------------------------------
(* The order of versions, as an order of numbers of any length: their      *)
(* digits are the elements up to and including a '*', which is above all   *)
(* others, and the first digit in which they differ decides.               *)

Digit(v, i) ==
    IF i > Len(v) \/ \E j \in 1..(i - 1) : v[j] = Star THEN 0
    ELSE IF v[i] = Star THEN Inf + 2 ELSE v[i] + 1

Below(v, w) ==
    \E i \in DOMAIN w : /\ Digit(v, i) < Digit(w, i)
                        /\ \A j \in 1..(i - 1) : Digit(v, j) = Digit(w, j)

Numeric(v) == \A i \in DOMAIN v : ~IsStr(v[i]) \/ v[i] = Star

Given == {parse_version(v) : v \in {drbd_version, drbd_version_other} \ {None}}

\* Versions are ordered like numbers, whatever their lengths and wherever they
\* have a '*': there are no cycles, and a minimum of two exists (is_lower).
LowerIsNumeric ==
    \A v, w \in Given :
        Numeric(v) /\ Numeric(w) => (is_lower(v, w) <=> Below(v, w))

\* "Treat them as greater than any released version in their major.minor
\* series (but less than the next minor version)" (parse_version).
DevelopmentNewest ==
    LET v == drbd_version
        w == drbd_version_other
    IN  /\ Len(v) = 4 /\ v[3] = 0 /\ v[4] = Latest
        /\ Len(w) > 1 /\ \A i \in DOMAIN w : w[i] >= 0
        /\ v[1] = w[1] /\ v[2] \in 0..w[2]
        => IF v[2] = w[2] THEN is_lower(w, parse_version(v))
                          ELSE is_lower(parse_version(v), w)

\* How a test is to be written: with the VMs that every version that was given
\* can have, DRBD 8 two nodes only, if every one reaches the minimum; and with
\* the variants whose minimum is below every one.
RightVms(c) ==
    {n \in c.vms : n <= 2 \/ \A v \in Given : Digit(v, 1) > 9}
Fits(c) ==
    /\ c.selected
    /\ RightVms(c) # {}
    /\ \A v \in Given : ~Below(v, parse_version(c.min))
RightVariants(c) ==
    {"default"} \cup {a.variant : a \in {b \in c.variants_add :
        b.min = None \/ \A v \in Given : Below(parse_version(b.min), v)}}

\* A test is written, with these VMs and variants, exactly if it can run with
\* every version that was given, not only with one of them (main,
\* parse_variants_add).
FitsAllVersions ==
    stage = "done" /\ (\A v \in Given : Numeric(v)) =>
        \A t \in 1..NumTests :
            LET c == config[t] IN
            IF Fits(c)
            THEN /\ t \in DOMAIN written
                 /\ written[t] = [vms |-> RightVms(c),
                                  variants |-> RightVariants(c)]
            ELSE t \notin DOMAIN written
=============================================================================
