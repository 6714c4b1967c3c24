------------------------------- MODULE Window -------------------------------
(***************************************************************************)
(* One change window: Load writes the sources round by round,              *)
(* WatchDestinations follows the destinations on a goroutine of its own,   *)
(* Observe sorts what it sees into the latency record, and a deadline ends *)
(* all three.  (An idle window is the same without Load.)  The arm is      *)
(* anything that writes destinations: it may write value and stamp         *)
(* separately, and it reads its clock after its sources, as arms A and B   *)
(* do, or once before them, as arm B2 does.                                *)
(*                                                                         *)
(* As in Cluster, the clock counts the values encoded so far and a value   *)
(* is its own origin.  A stamp counts whole milliseconds, Milli values of  *)
(* the clock.  A destination starts with preflight's sentinel, which is no *)
(* load value.                                                             *)
(*                                                                         *)
(* Operators named Definition_Slip are what Definition would be with one   *)
(* plausible mistake; no action uses them, and the mutation runs of        *)
(* PROJECT.json put them in Definition's place to see a property notice.   *)
(***************************************************************************)
EXTENDS Quantiles

CONSTANTS
    N,           \* pairs
    MaxRounds,   \* bound: rounds of load
    MaxWrites,   \* bound: destination writes
    MaxHiccups,  \* bound: watches that expire, requests that fail
    Milli        \* ticks of the clock in one millisecond

ASSUME WindowAssumption ==
    /\ N \in Nat \ {0} /\ Milli \in Nat \ {0}
    /\ MaxRounds \in Nat /\ MaxWrites \in Nat /\ MaxHiccups \in Nat

VARIABLES
    clockFirst, \* fixed: the arm reads its clock before it reads its sources
    open,      \* the window's deadline has not passed
    result,    \* "running" | "closed" | "failed"
    load,      \* "tick" | "write" | "stopped"
    next,      \* the source the round writes next
    ticks,     \* rounds Load reports
    clock,
    held,      \* history: the load values each source has held
    dst,       \* the destinations
    log,       \* their versions, in resourceVersion order
    watcher,   \* "list" | "watch" | "drain" | "stopped" | "failed"
    rv,        \* the version WatchDestinations resumes from
    lat,       \* the Latencies: samples, reaction, dropped, stale, unstamped
    summary,   \* the Latency column of the window, once closed
    from,      \* history: the version it listed at
    seen,      \* history: the versions it observed, in order
    hiccups

vars == <<clockFirst, open, result, load, next, ticks, clock, held, dst, log, watcher, rv,
          lat, summary, from, seen, hiccups>>

Pairs == 0 .. N - 1
Values == 1 .. MaxRounds
Sentinel == -1
NoStamp == [val |-> 0, at |-> 0]

Stamp == [val: Values, at: 0 .. MaxRounds] \cup {NoStamp}
Destination == [v: Values \cup {Sentinel}, t: Stamp]

TypeOK ==
    /\ clockFirst \in BOOLEAN
    /\ open \in BOOLEAN
    /\ result \in {"running", "closed", "failed"}
    /\ load \in {"tick", "write", "stopped"}
    /\ next \in 0 .. N - 1
    /\ clock \in 0 .. MaxRounds
    /\ ticks \in 0 .. clock
    /\ held \in [Pairs -> SUBSET Values]
    /\ dst \in [Pairs -> Destination]
    /\ log \in Seq(Destination)
    /\ watcher \in {"list", "watch", "drain", "stopped", "failed"}
    /\ rv \in 0 .. Len(log) /\ from \in 0 .. rv
    /\ seen \in Seq(1 .. rv)
    /\ lat \in [samples: Seq(0 .. MaxRounds), reaction: Seq(Int), dropped: Nat,
                stale: Nat, unstamped: Nat]
    /\ hiccups \in 0 .. MaxHiccups

Hiccup == hiccups < MaxHiccups /\ hiccups' = hiccups + 1

(***************************************************************************)
(* Load.                                                                   *)
(***************************************************************************)

loadVars == <<load, next, ticks, clock, held>>

\* The next tick; one value for the whole round.
StartRound ==
    /\ result = "running" /\ open
    /\ load = "tick"
    /\ clock < MaxRounds
    /\ clock' = clock + 1
    /\ load' = "write"
    /\ next' = 0
    /\ UNCHANGED <<clockFirst, open, result, ticks, held, dst, log, watcher, rv, lat,
                   summary, from, seen, hiccups>>

Written == held' = [held EXCEPT ![next] = @ \cup {clock}]

WriteSource_TickPerRequest ==
    /\ result = "running"
    /\ load = "write"
    /\ \/ /\ open /\ Written /\ ticks' = ticks + 1
          /\ \/ next < N - 1 /\ next' = next + 1 /\ UNCHANGED load
             \/ next = N - 1 /\ load' = "tick" /\ UNCHANGED next
       \/ /\ ~open /\ (Written \/ UNCHANGED held)
          /\ load' = "stopped"
          /\ UNCHANGED <<next, ticks>>
    /\ UNCHANGED <<clockFirst, open, result, clock, dst, log, watcher, rv, lat,
                   summary, from, seen, hiccups>>

WriteSource_CountsThePartialRound ==
    /\ result = "running"
    /\ load = "write"
    /\ \/ /\ open /\ Written
          /\ \/ next < N - 1 /\ next' = next + 1 /\ UNCHANGED <<load, ticks>>
             \/ next = N - 1 /\ load' = "tick" /\ ticks' = ticks + 1 /\ UNCHANGED next
       \/ /\ ~open /\ (Written \/ UNCHANGED held)
          /\ load' = "stopped"
          /\ ticks' = ticks + 1
          /\ UNCHANGED next
    /\ UNCHANGED <<clockFirst, open, result, clock, dst, log, watcher, rv, lat,
                   summary, from, seen, hiccups>>

\* One request of SetSource.  One in flight when the deadline passes comes
\* back as an error whether it was applied or not, and Load, asking the
\* context, returns no error and does not count the round.
WriteSource ==
    /\ result = "running"
    /\ load = "write"
    /\ \/ /\ open /\ Written
          /\ \/ next < N - 1 /\ next' = next + 1 /\ UNCHANGED <<load, ticks>>
             \/ next = N - 1 /\ load' = "tick" /\ ticks' = ticks + 1 /\ UNCHANGED next
       \/ /\ ~open /\ (Written \/ UNCHANGED held)
          /\ load' = "stopped"
          /\ UNCHANGED <<next, ticks>>
    /\ UNCHANGED <<clockFirst, open, result, clock, dst, log, watcher, rv, lat,
                   summary, from, seen, hiccups>>

\* A write that fails inside the window fails the window at once.
WriteFails ==
    /\ result = "running" /\ open
    /\ load = "write"
    /\ Hiccup
    /\ result' = "failed"
    /\ UNCHANGED <<clockFirst, open, loadVars, dst, log, watcher, rv, lat, summary,
                   from, seen>>

StopLoad_WaitsForATick ==
    /\ result = "running" /\ ~open
    /\ load = "tick" /\ clock < MaxRounds
    /\ load' = "stopped"
    /\ UNCHANGED <<clockFirst, open, result, next, ticks, clock, held, dst, log,
                   watcher, rv,
                   lat, summary, from, seen, hiccups>>

StopLoad ==
    /\ result = "running" /\ ~open
    /\ load = "tick"
    /\ load' = "stopped"
    /\ UNCHANGED <<clockFirst, open, result, next, ticks, clock, held, dst, log,
                   watcher, rv,
                   lat, summary, from, seen, hiccups>>

(***************************************************************************)
(* The arm: value and stamp together, or either of them alone.  A write     *)
(* that changes nothing makes no version.                                  *)
(***************************************************************************)

\* When the arm may have read the clock it stamps value x with: any time since
\* x was made, or, if it reads the clock first, any time before that as well.
ClockRead(x) == IF clockFirst THEN 0 .. clock ELSE x .. clock

\* The clock in milliseconds is the last whole one.
StampOf(x, c) == [val |-> x, at |-> c - (c % Milli)]

ArmWrites(i) ==
    /\ Len(log) < MaxWrites
    /\ \E x \in held[i] : \E c \in ClockRead(x) :
         dst' = [dst EXCEPT ![i] = [v |-> x, t |-> StampOf(x, c)]]
    /\ dst' # dst /\ log' = Append(log, dst'[i])
    /\ UNCHANGED <<clockFirst, open, result, loadVars, watcher, rv, lat, summary, from,
                   seen, hiccups>>

ArmTears(i) ==
    /\ Len(log) < MaxWrites
    /\ \E x \in held[i] : \E c \in ClockRead(x) :
         \/ dst' = [dst EXCEPT ![i].v = x]
         \/ dst' = [dst EXCEPT ![i].t = StampOf(x, c)]
    /\ dst' # dst /\ log' = Append(log, dst'[i])
    /\ UNCHANGED <<clockFirst, open, result, loadVars, watcher, rv, lat, summary, from,
                   seen, hiccups>>

(***************************************************************************)
(* WatchDestinations and Observe.                                          *)
(***************************************************************************)

\* Observe, for one version d of a destination.
Observe_AnyStamp(l, d) ==
    LET s == [l EXCEPT !.samples = Append(@, clock - d.v)] IN
    IF d.v = Sentinel THEN [l EXCEPT !.dropped = @ + 1]
    ELSE IF d.t = NoStamp THEN [s EXCEPT !.unstamped = @ + 1]
    ELSE [s EXCEPT !.reaction = Append(@, d.t.at - d.v)]

\* A value that is no load value is dropped.  The rest are convergence
\* samples dated from the value itself, and reaction samples only if they
\* carry a stamp and the stamp names the value.
Observe(l, d) ==
    LET s == [l EXCEPT !.samples = Append(@, clock - d.v)] IN
    IF d.v = Sentinel THEN [l EXCEPT !.dropped = @ + 1]
    ELSE IF d.t = NoStamp THEN [s EXCEPT !.unstamped = @ + 1]
    ELSE IF d.t.val # d.v THEN [s EXCEPT !.stale = @ + 1]
    ELSE [s EXCEPT !.reaction = Append(@, d.t.at - d.v)]

\* The list is only a place to start from: nothing in it is observed.  Past
\* the deadline it is an error like any other.
List ==
    /\ result = "running"
    /\ watcher = "list"
    /\ \/ /\ open
          /\ watcher' = "watch"
          /\ rv' = Len(log) /\ from' = Len(log)
          /\ UNCHANGED hiccups
       \/ /\ ~open \/ hiccups < MaxHiccups
          /\ watcher' = "failed"
          /\ hiccups' = IF open THEN hiccups + 1 ELSE hiccups
          /\ UNCHANGED <<rv, from>>
    /\ UNCHANGED <<clockFirst, open, result, loadVars, dst, log, lat, summary, seen>>

Watch_FromTheList ==
    /\ result = "running"
    /\ watcher = "watch"
    /\ watcher' = IF open THEN "drain" ELSE "stopped"
    /\ rv' = from
    /\ UNCHANGED <<clockFirst, open, result, loadVars, dst, log, lat, summary, from,
                   seen, hiccups>>

\* A watch is opened, and after it expires opened again, at rv.  A watch that
\* cannot be opened ends the goroutine: with an error only inside the window.
Watch ==
    /\ result = "running"
    /\ watcher = "watch"
    /\ \/ /\ watcher' = IF open THEN "drain" ELSE "stopped"
          /\ UNCHANGED hiccups
       \/ open /\ Hiccup /\ watcher' = "failed"
    /\ UNCHANGED <<clockFirst, open, result, loadVars, dst, log, rv, lat, summary,
                   from, seen>>

Drain ==
    /\ result = "running"
    /\ watcher = "drain"
    /\ rv < Len(log)
    /\ rv' = rv + 1
    /\ lat' = Observe(lat, log[rv + 1])
    /\ seen' = Append(seen, rv + 1)
    /\ UNCHANGED <<clockFirst, open, result, loadVars, dst, log, watcher, summary,
                   from, hiccups>>

\* The watch expires, or the drain sees the deadline: it may see events first.
DrainEnds ==
    /\ result = "running"
    /\ watcher = "drain"
    /\ \/ ~open /\ watcher' = "stopped" /\ UNCHANGED hiccups
       \/ Hiccup /\ watcher' = "watch"
    /\ UNCHANGED <<clockFirst, open, result, loadVars, dst, log, rv, lat, summary,
                   from, seen>>

(***************************************************************************)
(* measure.                                                                *)
(***************************************************************************)

Deadline ==
    /\ open
    /\ open' = FALSE
    /\ UNCHANGED <<clockFirst, result, loadVars, dst, log, watcher, rv, lat, summary,
                   from, seen, hiccups>>

\* Load first, then the deadline, then the watcher's word.
Close ==
    /\ result = "running" /\ ~open
    /\ load = "stopped"
    /\ watcher \in {"stopped", "failed"}
    /\ result' = IF watcher = "stopped" THEN "closed" ELSE "failed"
    /\ summary' = IF watcher = "stopped" THEN Summarize(lat) ELSE summary
    /\ UNCHANGED <<clockFirst, open, loadVars, dst, log, watcher, rv, lat, from, seen,
                   hiccups>>

Init ==
    /\ clockFirst \in BOOLEAN
    /\ open = TRUE
    /\ result = "running"
    /\ load = "tick"
    /\ next = 0 /\ ticks = 0 /\ clock = 0
    /\ held = [i \in Pairs |-> {}]
    /\ dst = [i \in Pairs |-> [v |-> Sentinel, t |-> NoStamp]]
    /\ log = << >>
    /\ watcher = "list"
    /\ rv = 0 /\ from = 0 /\ seen = << >>
    /\ lat = [samples |-> << >>, reaction |-> << >>, dropped |-> 0, stale |-> 0,
              unstamped |-> 0]
    /\ summary = Summarize(lat)
    /\ hiccups = 0

Next ==
    \/ StartRound \/ WriteSource \/ WriteFails \/ StopLoad
    \/ \E i \in Pairs : ArmWrites(i) \/ ArmTears(i)
    \/ List \/ Watch \/ Drain \/ DrainEnds
    \/ Deadline \/ Close

\* The deadline passes; measure, which calls Load itself, and its watcher run.
\* Nothing is asked of the arm.
Fairness ==
    /\ WF_vars(Deadline)
    /\ WF_vars(WriteSource \/ StopLoad \/ Close)
    /\ WF_vars(List \/ Watch \/ Drain \/ (~open /\ DrainEnds))

Spec == Init /\ [][Next]_vars /\ Fairness

(***************************************************************************)
(* Properties.                                                             *)
(***************************************************************************)

\* Across every watch that expired, each destination version after the list
\* is observed at most once, in order and with none skipped: a window loses a
\* suffix at its deadline and nothing else, and replays nothing.
ObservedOnce == seen = [j \in 1 .. rv - from |-> from + j]

\* The reaction samples pair off, in order, with distinct convergence samples,
\* each at most its partner, although the arm may tear value and stamp apart: a
\* stamp that names another value is what would have gone beyond it.  An arm
\* that reads its clock after its sources has none a whole millisecond below
\* zero; one that reads it before them has no such bound.
ReactionIsSane ==
    LET R == DOMAIN lat.reaction  S == DOMAIN lat.samples IN
    \E pair \in [R -> S] :
        /\ \A j, k \in R : j < k => pair[j] < pair[k]
        /\ \A j \in R : /\ lat.reaction[j] =< lat.samples[pair[j]]
                        /\ ~clockFirst => lat.reaction[j] > -Milli

\* A closed window's columns are nearest ranks of what it observed, between
\* the smallest and the largest sample, and its denominators add up: every
\* version observed was dropped or dated, and every one dated has a reaction,
\* a stale stamp or none.
SummaryIsObserved ==
    LET Column(c, s) ==
            /\ c.count = Len(s)
            /\ s # << >> => /\ NearestRank(s, c.p50, 50)
                            /\ NearestRank(s, c.p90, 90)
                            /\ NearestRank(s, c.p99, 99)
                            /\ \A j \in DOMAIN s : s[j] \in c.min .. c.max
    IN  result = "closed" =>
            /\ Column(summary.convergence, lat.samples)
            /\ Column(summary.reaction, lat.reaction)
            /\ Len(seen) = summary.dropped + summary.convergence.count
            /\ summary.convergence.count
                 = summary.reaction.count + summary.stale + summary.unstamped

\* The ticks Load reports are rounds that reached every source; at most one
\* round that did is missing, the one whose last answer the deadline took.
TicksAreWholeRounds ==
    LET whole == {x \in Values : \A i \in Pairs : x \in held[i]} IN
    /\ 1 .. ticks \subseteq whole
    /\ whole \subseteq 1 .. ticks + 1

\* A window ends, whatever its two goroutines were doing at the deadline.
WindowEnds == <>(result # "running")
=============================================================================
