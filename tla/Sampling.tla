------------------------------ MODULE Sampling ------------------------------
(***************************************************************************)
(* How one end of a window is sampled from /proc.  Collect lists the       *)
(* processes once and reads up to four files of each, one after the other; *)
(* CountConnsAnyOf then opens the socket table of every process it kept,   *)
(* once per address.  The processes start, exec, connect, disconnect and   *)
(* die meanwhile.                                                          *)
(*                                                                         *)
(* A process of the arm is a "worker".  Its "supervisor", and the child    *)
(* that is about to exec the worker, carry the worker's argv too.  A       *)
(* "foreign" process runs the same binary for another arm.  A "zombie" has *)
(* exited and not been reaped.  No pid is used twice, and os.ReadDir       *)
(* returns the pids sorted.  Sharers map Shared units of text together and *)
(* Private units each.                                                     *)
(***************************************************************************)
EXTENDS Sums, Sequences, Functions

CONSTANTS
    Pids,       \* pids, and the order of the walk
    Addrs,      \* where the apiserver can be reached
    Shared,     \* size of the text the sharers share
    Private,    \* size of what each maps alone
    MaxMoves    \* bound: moves of processes and connections

ASSUME SamplingAssumption ==
    /\ Pids \subseteq Nat /\ IsFiniteSet(Pids)
    /\ Shared \in Nat /\ Private \in Nat \ {0} /\ MaxMoves \in Nat

VARIABLES
    proc,       \* what each pid is
    conns,      \* established connections: pid and address
    moves,
    stage,      \* "idle" | the file read next | "sampled"
    entries,    \* pids listed and not yet done with, the least one in progress
    samples,    \* the Set: the PSS of each pid kept, or Unknown
    always,     \* history: workers throughout the walk
    ever,       \* history: workers at some moment of it
    sharers,    \* history: sharers at some moment of it
    tally,      \* CountConnsAnyOf: pids left, address, subtotal, total, complete
    kept,       \* history: connections open throughout the count
    held        \* history: connections open at some moment of it

walk == <<stage, entries, samples>>
lives == <<proc, conns, moves, always, ever, sharers, kept, held>>

Unknown == 0
Alive(p) == proc[p] \in {"supervisor", "worker", "foreign"}
Workers == {p \in Pids : proc[p] = "worker"}
Sharers == {p \in Pids : proc[p] \in {"worker", "foreign"}}

SamplingTypeOK ==
    /\ proc \in [Pids -> {"none", "supervisor", "worker", "foreign", "zombie", "gone"}]
    /\ conns \subseteq Workers \X Addrs
    /\ moves \in 0 .. MaxMoves
    /\ stage \in {"idle", "cmdline", "status", "stat", "rollup", "sampled"}
    /\ entries \subseteq Pids
    /\ DOMAIN samples \subseteq Pids \ entries
    /\ \A p \in DOMAIN samples : samples[p] \in 0 .. Shared + Private
    /\ always \subseteq ever /\ ever \subseteq sharers /\ sharers \subseteq Pids
    /\ tally \in [left: SUBSET DOMAIN samples, next: Nat \ {0}, n: Nat, total: Nat,
                  complete: BOOLEAN]
    /\ kept \subseteq held /\ held \subseteq Pids \X Addrs

(***************************************************************************)
(* The processes.                                                          *)
(***************************************************************************)

Walking == stage \notin {"idle", "sampled"}

\* The histories follow proc and conns while something is being read.
Followed ==
    /\ moves < MaxMoves
    /\ moves' = moves + 1
    /\ always' = IF Walking THEN always \cap Workers' ELSE always
    /\ ever' = IF Walking THEN ever \cup Workers' ELSE ever
    /\ sharers' = IF Walking THEN sharers \cup Sharers' ELSE sharers
    /\ kept' = IF tally.left # {} THEN kept \cap conns' ELSE kept
    /\ held' = IF tally.left # {} THEN held \cup conns' ELSE held
    /\ UNCHANGED <<walk, tally>>

Lives(p) ==
    /\ \/ proc[p] = "none" /\ \E k \in {"supervisor", "foreign"} : proc' = [proc EXCEPT ![p] = k]
       \/ proc[p] = "supervisor" /\ proc' = [proc EXCEPT ![p] = "worker"]
       \/ Alive(p) /\ proc' = [proc EXCEPT ![p] = "zombie"]
       \/ proc[p] = "zombie" /\ proc' = [proc EXCEPT ![p] = "gone"]
    /\ conns' = {c \in conns : proc'[c[1]] = "worker"}
    /\ Followed

Connects(p) ==
    /\ proc[p] = "worker"
    /\ \E a \in Addrs : conns' = IF <<p, a>> \in conns THEN conns \ {<<p, a>>}
                                                     ELSE conns \cup {<<p, a>>}
    /\ UNCHANGED proc
    /\ Followed

(***************************************************************************)
(* Collect.                                                                *)
(***************************************************************************)

\* os.ReadDir.
Collect ==
    /\ entries' = {p \in Pids : proc[p] \notin {"none", "gone"}}
    /\ stage' = IF entries' = {} THEN "sampled" ELSE "cmdline"
    /\ samples' = << >>
    /\ always' = Workers /\ ever' = Workers /\ sharers' = Sharers
    /\ kept' = {} /\ held' = {}
    /\ UNCHANGED <<proc, conns, moves, tally>>

NoTally == [left |-> {}, next |-> 1, n |-> 0, total |-> 0, complete |-> TRUE]

\* A Set and a count that nothing refers to any more.
Forget ==
    /\ stage' = "idle" /\ samples' = << >> /\ tally' = NoTally
    /\ always' = {} /\ ever' = {} /\ sharers' = {} /\ kept' = {} /\ held' = {}
    /\ UNCHANGED <<entries, proc, conns, moves>>

This == Min(entries)

\* On to the next pid, or the end of the walk.
Leave ==
    /\ entries' = entries \ {This}
    /\ stage' = IF entries' = {} THEN "sampled" ELSE "cmdline"

Continue(file) == stage' = file /\ UNCHANGED entries

Selected_SupervisorsToo(p) == proc[p] \in {"supervisor", "worker"}

\* The command line contains the selector and none of Supervisors; that of a
\* zombie is empty.
Selected(p) ==
    LET contains == proc[p] \in {"supervisor", "worker"}
        rejected == proc[p] = "supervisor"
    IN  contains /\ ~rejected

ReadCmdline ==
    /\ stage = "cmdline"
    /\ IF Selected(This) THEN Continue("status") ELSE Leave
    /\ UNCHANGED <<samples, tally, lives>>

\* A zombie has a status without VmRSS.
ReadStatus ==
    /\ stage = "status"
    /\ IF Alive(This) THEN Continue("stat") ELSE Leave
    /\ UNCHANGED <<samples, tally, lives>>

ReadStat ==
    /\ stage = "stat"
    /\ IF proc[This] # "gone" THEN Continue("rollup") ELSE Leave
    /\ UNCHANGED <<samples, tally, lives>>

\* What the kernel answers for Pss.
ProportionalSize(p) ==
    Private + IF p \in Sharers THEN Shared \div Cardinality(Sharers) ELSE Shared

\* The one file the sample can do without: refused by the kernel, or lost with
\* the process, it leaves the PSS unknown.
ReadRollup ==
    /\ stage = "rollup"
    /\ \E pss \in {Unknown} \cup
                  (IF Alive(This) THEN {ProportionalSize(This)} ELSE {}) :
         samples' = [p \in DOMAIN samples \cup {This} |-> IF p = This THEN pss ELSE samples[p]]
    /\ Leave
    /\ UNCHANGED <<tally, lives>>

Totals_UnknownIsZero ==
    [rss |-> (Private + Shared) * Cardinality(DOMAIN samples),
     pss |-> Total(samples, DOMAIN samples),
     complete |-> TRUE]

Totals ==
    [rss |-> (Private + Shared) * Cardinality(DOMAIN samples),
     pss |-> Total(samples, DOMAIN samples),
     complete |-> \A p \in DOMAIN samples : samples[p] # Unknown]

(***************************************************************************)
(* CountConnsAnyOf, over the processes sampled.                            *)
(***************************************************************************)

CountConns ==
    /\ tally' = [NoTally EXCEPT !.left = DOMAIN samples]
    /\ kept' = conns /\ held' = conns
    /\ UNCHANGED <<walk, proc, conns, moves, always, ever, sharers>>

Unreadable_IsZero(p) ==
    tally' = [tally EXCEPT !.left = @ \ {p}, !.next = 1, !.n = 0]

\* A process whose table cannot be read contributes nothing, whatever was read
\* of it before, and the total is marked.
Unreadable(p) ==
    tally' = [tally EXCEPT !.left = @ \ {p}, !.next = 1, !.n = 0, !.complete = FALSE]

\* ConnsTo: the table of the process, read for one address of want.
ReadTable(want) ==
    LET p == Min(tally.left)
        n == tally.n + (IF <<p, want[tally.next]>> \in conns THEN 1 ELSE 0)
    IN  /\ tally.left # {}
        /\ \/ /\ Alive(p)
              /\ tally' = IF tally.next < Len(want)
                          THEN [tally EXCEPT !.next = @ + 1, !.n = n]
                          ELSE [tally EXCEPT !.left = @ \ {p}, !.next = 1, !.n = 0,
                                             !.total = @ + n]
           \/ Unreadable(p)
        /\ UNCHANGED <<walk, lives>>

SamplingInit ==
    /\ proc \in [Pids -> {"none", "supervisor", "worker", "foreign"}]
    /\ \E a \in Addrs : conns = Workers \X {a}
    /\ moves = 0
    /\ stage = "idle" /\ entries = {} /\ samples = << >>
    /\ always = {} /\ ever = {} /\ sharers = {}
    /\ tally = NoTally
    /\ kept = {} /\ held = {}

ReadFile == ReadCmdline \/ ReadStatus \/ ReadStat \/ ReadRollup

ProcessStep == \E p \in Pids : Lives(p) \/ Connects(p)

(***************************************************************************)
(* Properties.                                                             *)
(***************************************************************************)

\* A finished walk has every process that was a worker throughout it and none
\* that never was one, although it reads each in four steps and they come and
\* go: no supervisor, no child before its exec, no zombie.
PopulationBracket ==
    stage = "sampled" => /\ always \subseteq DOMAIN samples
                         /\ DOMAIN samples \subseteq ever

\* Where nothing moved and nobody else maps the binary, a complete PSS total
\* has the shared text once, less what the kernel rounds off, under one unit
\* of each process; an incomplete one is marked, and none is above the RSS
\* total, which has it once per process.
TextCountedOnce ==
    stage = "sampled" =>
        LET n == Cardinality(DOMAIN samples) IN
        /\ Totals.pss <= Totals.rss
        /\ (Totals.complete /\ sharers = always /\ n > 0)
             => Totals.pss - Private * n \in Shared - (n - 1) .. Shared
=============================================================================
