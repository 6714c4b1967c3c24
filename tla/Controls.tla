------------------------------ MODULE Controls ------------------------------
(***************************************************************************)
(* The two commands that decide whether a run may open a window: Fixtures, *)
(* which makes the namespace hold exactly n pairs, and ProveConvergence,   *)
(* which writes a sentinel into every source and polls the destinations.   *)
(* They are separate commands, in any order, with any n, and either may    *)
(* fail at any of its requests and leave what it had done.                 *)
(*                                                                         *)
(* Operators named Definition_Slip are what Definition would be with one   *)
(* plausible mistake; no action uses them, and the mutation runs of        *)
(* PROJECT.json put them in Definition's place to see a property notice.   *)
(***************************************************************************)
EXTENDS Integers, FiniteSets

CONSTANTS
    MaxN,         \* bound: the largest -n anybody passes
    MaxCommands,  \* bound: commands issued
    MaxHiccups    \* bound: requests that fail

ASSUME ControlsAssumption ==
    /\ MaxN \in Nat \ {0}
    /\ MaxCommands \in Nat
    /\ MaxHiccups \in Nat

VARIABLES
    data,      \* data.v of every fixture
    cmd,       \* the command in progress: where it is, its n, its next request
    want,      \* the last sentinel; every proof uses a fresh one
    stale,     \* the fixtures above n that Fixtures listed and will delete
    up,        \* the pairs somebody relays
    relayed,   \* history: pairs relayed to `want` since it was written
    outcome,   \* what the last command reported
    issued,    \* commands issued
    hiccups

controlsVars == <<data, cmd, want, stale, up, relayed, outcome, issued, hiccups>>

Pairs == 0 .. MaxN - 1
Keys == Pairs \X {"src", "dst"}
Absent == -1
Empty == 0
Fixture(k) == data[k] # Absent

ControlsTypeOK ==
    /\ data \in [Keys -> {Absent, Empty} \cup 1 .. MaxCommands]
    /\ cmd \in [pc: {"idle", "create", "delete", "write", "poll"},
                n: 0 .. MaxN, at: 0 .. 2 * MaxN]
    /\ cmd.pc = "create" => cmd.at =< 2 * cmd.n
    /\ cmd.pc = "write" => cmd.at =< cmd.n
    /\ want \in 0 .. MaxCommands
    /\ stale \in SUBSET Keys
    /\ up \in SUBSET Pairs
    /\ relayed \in SUBSET Pairs
    /\ outcome \in {"none", "exact", "proved", "error"}
    /\ issued \in 0 .. MaxCommands
    /\ hiccups \in 0 .. MaxHiccups

Issue == cmd.pc = "idle" /\ issued < MaxCommands /\ issued' = issued + 1

Report(r) ==
    /\ outcome' = r
    /\ cmd' = [cmd EXCEPT !.pc = "idle"]

(***************************************************************************)
(* Fixtures.                                                               *)
(***************************************************************************)

StartFixtures(n) ==
    /\ Issue
    /\ cmd' = [pc |-> "create", n |-> n, at |-> 0]
    /\ UNCHANGED <<data, want, stale, up, relayed, outcome, hiccups>>

\* src-i, then dst-i, pair by pair.
Position(p) == <<p \div 2, IF p % 2 = 0 THEN "src" ELSE "dst">>

CreateFixture_OneTooMany ==
    LET k == Position(cmd.at) IN
    /\ cmd.pc = "create"
    /\ cmd.at =< 2 * cmd.n /\ cmd.at < 2 * MaxN
    /\ data' = IF Fixture(k) THEN data ELSE [data EXCEPT ![k] = Empty]
    /\ cmd' = [cmd EXCEPT !.at = @ + 1]
    /\ UNCHANGED <<want, stale, up, relayed, outcome, issued, hiccups>>

\* AlreadyExists is fine, and leaves the object as it is.
CreateFixture ==
    LET k == Position(cmd.at) IN
    /\ cmd.pc = "create"
    /\ cmd.at < 2 * cmd.n
    /\ data' = IF Fixture(k) THEN data ELSE [data EXCEPT ![k] = Empty]
    /\ cmd' = [cmd EXCEPT !.at = @ + 1]
    /\ UNCHANGED <<want, stale, up, relayed, outcome, issued, hiccups>>

ListStale_KeepsOneMore ==
    /\ cmd.pc = "create"
    /\ cmd.at = 2 * cmd.n
    /\ stale' = {k \in Keys : Fixture(k) /\ k[1] > cmd.n}
    /\ cmd' = [cmd EXCEPT !.pc = "delete"]
    /\ UNCHANGED <<data, want, up, relayed, outcome, issued, hiccups>>

ListStale ==
    /\ cmd.pc = "create"
    /\ cmd.at = 2 * cmd.n
    /\ stale' = {k \in Keys : Fixture(k) /\ k[1] >= cmd.n}
    /\ cmd' = [cmd EXCEPT !.pc = "delete"]
    /\ UNCHANGED <<data, want, up, relayed, outcome, issued, hiccups>>

\* In the order of the list; NotFound is fine.
DeleteStale ==
    /\ cmd.pc = "delete"
    /\ \/ /\ stale # {}
          /\ \E k \in stale :
               /\ k[2] = "src" => \A j \in stale : j[2] = "src"
               /\ stale' = stale \ {k}
               /\ data' = [data EXCEPT ![k] = Absent]
          /\ UNCHANGED <<cmd, outcome>>
       \/ /\ stale = {}
          /\ Report("exact")
          /\ UNCHANGED <<data, stale>>
    /\ UNCHANGED <<want, up, relayed, issued, hiccups>>

(***************************************************************************)
(* ProveConvergence.                                                       *)
(***************************************************************************)

StartProof_FixedSentinel(n, served) ==
    /\ Issue
    /\ cmd' = [pc |-> "write", n |-> n, at |-> 0]
    /\ want' = 1
    /\ up' = served
    /\ relayed' = {}
    /\ UNCHANGED <<data, stale, outcome, hiccups>>

\* The sentinel carries the instant it was made, so it is a new one each time.
\* `served` is what the arm under test, if there is one, relays.
StartProof(n, served) ==
    /\ Issue
    /\ cmd' = [pc |-> "write", n |-> n, at |-> 0]
    /\ want' = want + 1
    /\ up' = served
    /\ relayed' = {}
    /\ UNCHANGED <<data, stale, outcome, hiccups>>

\* SetSource stops at the first source that is not there.
WriteSentinel ==
    LET s == <<cmd.at, "src">> IN
    /\ cmd.pc = "write"
    /\ \/ /\ cmd.at < cmd.n /\ Fixture(s)
          /\ data' = [data EXCEPT ![s] = want]
          /\ cmd' = [cmd EXCEPT !.at = @ + 1]
          /\ UNCHANGED outcome
       \/ /\ cmd.at < cmd.n /\ ~Fixture(s)
          /\ Report("error")
          /\ UNCHANGED data
       \/ /\ cmd.at = cmd.n
          /\ cmd' = [cmd EXCEPT !.pc = "poll"]
          /\ UNCHANGED <<data, outcome>>
    /\ UNCHANGED <<want, stale, up, relayed, issued, hiccups>>

\* Only a destination the list returned can be behind.
Behind == {i \in 0 .. cmd.n - 1 : Fixture(<<i, "dst">>) /\ data[<<i, "dst">>] # want}

Poll_NoDeadline ==
    /\ cmd.pc = "poll"
    /\ Behind = {}
    /\ Report("proved")
    /\ UNCHANGED <<data, want, stale, up, relayed, issued, hiccups>>

\* The poll that ends the proof: nothing is behind, or the deadline passed.
Poll ==
    /\ cmd.pc = "poll"
    /\ Report(IF Behind = {} THEN "proved" ELSE "error")
    /\ UNCHANGED <<data, want, stale, up, relayed, issued, hiccups>>

(***************************************************************************)
(* Around them.                                                            *)
(***************************************************************************)

\* Any request may fail; the command returns with its work half done.
RequestFails ==
    /\ cmd.pc # "idle"
    /\ hiccups < MaxHiccups
    /\ hiccups' = hiccups + 1
    /\ stale' = {}
    /\ Report("error")
    /\ UNCHANGED <<data, want, up, relayed, issued>>

\* An arm relays one pair.
Relay(i) ==
    LET s == <<i, "src">>  d == <<i, "dst">> IN
    /\ i \in up
    /\ Fixture(s) /\ Fixture(d)
    /\ data[s] # Empty /\ data[d] # data[s]
    /\ data' = [data EXCEPT ![d] = data[s]]
    /\ relayed' = IF data[s] = want THEN relayed \cup {i} ELSE relayed
    /\ UNCHANGED <<cmd, want, stale, up, outcome, issued, hiccups>>

ControlsInit ==
    /\ data = [k \in Keys |-> Absent]
    /\ cmd = [pc |-> "idle", n |-> 0, at |-> 0]
    /\ want = 0
    /\ stale = {}
    /\ up = {}
    /\ relayed = {}
    /\ outcome = "none"
    /\ issued = 0
    /\ hiccups = 0

Command == CreateFixture \/ ListStale \/ DeleteStale \/ WriteSentinel \/ Poll

ControlsNext ==
    \/ \E n \in 0 .. MaxN :
         StartFixtures(n) \/ \E served \in SUBSET Pairs : StartProof(n, served)
    \/ Command
    \/ RequestFails
    \/ \E i \in Pairs : Relay(i)

\* A command keeps issuing its requests; nothing is asked of the arm.
ControlsSpec == ControlsInit /\ [][ControlsNext]_controlsVars /\ WF_controlsVars(Command)

(***************************************************************************)
(* Properties.                                                             *)
(***************************************************************************)

\* A proof is never lent by an earlier one: every destination that stood for
\* it was relayed to this proof's own sentinel since the proof began, so an
\* arm that does nothing proves nothing, whatever a previous arm left behind.
ProvedByThisArm ==
    outcome = "proved" /\ cmd.pc = "idle" =>
        \A i \in 0 .. cmd.n - 1 : Fixture(<<i, "dst">>) => i \in relayed

\* Whatever failed commands left behind, a Fixtures that succeeds leaves the
\* namespace holding exactly the pairs below its n.
FixturesAreExact ==
    outcome = "exact" /\ cmd.pc = "idle" =>
        {k \in Keys : Fixture(k)} = {k \in Keys : k[1] < cmd.n}

\* Every command returns, with an arm that relays nothing too.
CommandsReturn == cmd.pc # "idle" ~> cmd.pc = "idle"
=============================================================================
