------------------------------ MODULE Counters ------------------------------
(***************************************************************************)
(* The two-ended instruments of a window.  Processes work, call the        *)
(* apiserver, exit and restart with their counters at zero; measure reads  *)
(* CPU ticks and request counters at both ends and reports the difference, *)
(* or a note instead.                                                      *)
(*                                                                         *)
(* A controller-runtime arm has workers with counters of their own.  For a *)
(* Perseid arm the one process is radiant, which counts for everybody in   *)
(* one bucket and may count for each program under a label, ours and other *)
(* people's; its CPU is the host line of the report and carries no note.   *)
(*                                                                         *)
(* Operators named Definition_Slip are what Definition would be with one   *)
(* plausible mistake; no action uses them, and the mutation runs of        *)
(* PROJECT.json put them in Definition's place to see a property notice.   *)
(***************************************************************************)
EXTENDS Sums, Sequences, FiniteSets

CONSTANTS
    Workers,      \* the processes of a controller-runtime arm
    Radiant,      \* the process of a Perseid arm
    MaxCPU,       \* bound: CPU ticks each process spends
    MaxCalls,     \* bound: requests made, by all processes together
    MaxRestarts   \* bound: processes that exit

ASSUME CountersAssumption ==
    /\ IsFiniteSet(Workers) /\ Workers # {}
    /\ MaxCPU \in Nat /\ MaxCalls \in Nat /\ MaxRestarts \in Nat

VARIABLES
    up,        \* the processes alive
    kind,      \* "workers", "programs", or "unlabelled", a radiant that has no
               \* series for them
    cpu,       \* the ticks of each process
    count,     \* what it has counted; 0 is a series not registered yet
    spent,     \* history: ticks each process ever spent
    made,      \* history: requests it ever made
    exits,     \* history: how often each process exited
    step,      \* how far measure is
    collected, \* the CPU readings, one for each end
    scraped,   \* the counter readings: each process's, if all have answered
    failed,    \* the ends at which a scrape failed
    bucket,    \* radiant's unlabelled counter, at each end
    report     \* the Window

countersVars == <<up, kind, cpu, count, spent, made, exits, step, collected,
          scraped, failed, bucket, report>>

PerProgram == kind # "workers"
Labelled == kind # "unlabelled"

\* The processes read, and the series looked for in each.
Procs == IF PerProgram THEN {Radiant} ELSE Workers
Own == IF PerProgram THEN {"applied", "runs"} ELSE {"GET", "PATCH"}
Series == IF PerProgram THEN Own \cup {"neighbour"} ELSE Own
Ends == {"before", "after"}

\* measure, in order.
Steps ==
    IF PerProgram
      THEN <<"bucket", "scrape", "collect", "window", "bucket", "collect", "scrape",
             "report", "done">>
      ELSE <<"collect", "scrape", "window", "collect", "scrape", "report", "done">>
End == IF \E i \in step .. Len(Steps) : Steps[i] = "window" THEN "before" ELSE "after"
At(s) == Steps[step] = s

NoReport == [cpu |-> 0, cpuValid |-> FALSE, api |-> 0,
             split |-> [s \in Own |-> 0], measured |-> FALSE, note |-> "none",
             host |-> 0, hostFound |-> FALSE]

CountersTypeOK ==
    /\ up \in SUBSET Procs
    /\ kind \in {"workers", "programs", "unlabelled"}
    /\ cpu \in [Procs -> 0 .. MaxCPU] /\ spent \in [Procs -> 0 .. MaxCPU]
    /\ count \in [Procs -> [Series -> 0 .. MaxCalls]]
    /\ made \in [Procs -> [Series -> 0 .. MaxCalls]]
    /\ exits \in [Procs -> 0 .. MaxRestarts]
    /\ step \in DOMAIN Steps
    /\ failed \in SUBSET Ends
    /\ bucket \in [Ends -> [count: 0 .. MaxCalls, made: 0 .. MaxCalls, exits: 0 .. MaxRestarts]]
    /\ report \in [cpu: 0 .. MaxCPU * Cardinality(Procs), cpuValid: BOOLEAN,
                   api: 0 .. MaxCalls,
                   split: [Own -> 0 .. MaxCalls],
                   measured: BOOLEAN,
                   note: {"none", "population", "unscraped", "scrape", "reset"},
                   host: 0 .. MaxCalls, hostFound: BOOLEAN]

(***************************************************************************)
(* The processes.                                                          *)
(***************************************************************************)

\* Nobody sees what they do after the last reading.
Running == ~At("report") /\ ~At("done")

measureVars == <<step, collected, scraped, failed, bucket, report>>

Work(p) ==
    /\ Running /\ p \in up /\ spent[p] < MaxCPU
    /\ cpu' = [cpu EXCEPT ![p] = @ + 1]
    /\ spent' = [spent EXCEPT ![p] = @ + 1]
    /\ UNCHANGED <<up, kind, count, made, exits, measureVars>>

Requested == Total([p \in Procs |-> Total(made[p], Series)], Procs)

\* A series appears with the first request it counts.
Call(p, s) ==
    /\ Running /\ p \in up /\ Requested < MaxCalls
    /\ made' = [made EXCEPT ![p][s] = @ + 1]
    /\ count' = [count EXCEPT ![p][s] = @ + 1]
    /\ UNCHANGED <<up, kind, cpu, spent, exits, measureVars>>

Exit(p) ==
    /\ Running /\ p \in up /\ Total(exits, Procs) < MaxRestarts
    /\ up' = up \ {p}
    /\ exits' = [exits EXCEPT ![p] = @ + 1]
    /\ UNCHANGED <<kind, cpu, count, spent, made, measureVars>>

\* RestartPolicyAlways: a new process, with new counters.
Start(p) ==
    /\ Running /\ p \notin up
    /\ up' = up \cup {p}
    /\ cpu' = [cpu EXCEPT ![p] = 0]
    /\ count' = [count EXCEPT ![p] = [s \in Series |-> 0]]
    /\ UNCHANGED <<kind, spent, made, exits, measureVars>>

(***************************************************************************)
(* The readings.                                                           *)
(***************************************************************************)

processVars == <<up, kind, cpu, count, spent, made, exits>>

\* Collect and Totals.  One walk of /proc takes each process at most once.
Collect ==
    /\ At("collect")
    /\ collected' = [collected EXCEPT ![End] =
                       [size |-> Cardinality(up), ticks |-> Total(cpu, up),
                        spent |-> spent, exits |-> exits]]
    /\ step' = step + 1
    /\ UNCHANGED <<processVars, scraped, failed, bucket, report>>

\* What is applied for everybody.
Bucket(f) == f["applied"] + f["neighbour"]

\* ScrapeCounters: a radiant that does not answer leaves nothing to compare.
ReadBucket ==
    /\ At("bucket")
    /\ bucket' = [bucket EXCEPT ![End] =
                    [count |-> IF Radiant \in up THEN Bucket(count[Radiant]) ELSE 0,
                     made |-> Bucket(made[Radiant]), exits |-> exits[Radiant]]]
    /\ step' = step + 1
    /\ UNCHANGED <<processVars, collected, scraped, failed, report>>

Read_EveryProgram(p) ==
    LET c == [s \in Own |-> IF s = "applied" /\ PerProgram THEN Bucket(count[p])
                            ELSE count[p][s]]
    IN  [count |-> c, made |-> made[p], exits |-> exits[p]]

\* Scrape and Parse, or ScrapeByLabelPrefix: our own series only, and 0 for
\* one that is not there (`made` and `exits` are what was true at that moment).
Read(p) ==
    [count |-> [s \in Own |-> IF Labelled THEN count[p][s] ELSE 0],
     made |-> made[p], exits |-> exits[p]]

\* scrapeArm takes the endpoints one by one, in any order.
Scrape(p) ==
    /\ At("scrape")
    /\ p \in up \ DOMAIN scraped[End]
    /\ scraped' = [scraped EXCEPT ![End] =
                     [q \in DOMAIN @ \cup {p} |-> IF q = p THEN Read(p) ELSE @[q]]]
    /\ step' = IF DOMAIN scraped'[End] = Procs THEN step + 1 ELSE step
    /\ UNCHANGED <<processVars, collected, failed, bucket, report>>

\* One that does not answer voids the scrape of the whole arm.
ScrapeFails(p) ==
    /\ At("scrape")
    /\ p \notin up /\ p \notin DOMAIN scraped[End]
    /\ scraped' = [scraped EXCEPT ![End] = << >>]
    /\ failed' = failed \cup {End}
    /\ step' = step + 1
    /\ UNCHANGED <<processVars, collected, bucket, report>>

Window ==
    /\ At("window")
    /\ step' = step + 1
    /\ UNCHANGED <<processVars, collected, scraped, failed, bucket, report>>

(***************************************************************************)
(* The report.                                                             *)
(***************************************************************************)

CPUValid_SizeOnly(b, a) == b.size = a.size

CPUValid(b, a) == b.size = a.size /\ a.ticks >= b.ticks

Found(r) == \E s \in Own : r.count[s] > 0
Requests(r) == Total(r.count, Own)

\* Delta, or DeltaByMethod, returns an error.  A series is in the scrape only
\* once it is registered, so only those that `a` has are compared.
DeltaFails(b, a) ==
    \/ ~Found(b) \/ ~Found(a)
    \/ Requests(a) < Requests(b)
    \/ \E s \in Own : a.count[s] > 0 /\ a.count[s] < b.count[s]

DeltaOf_KnownSeries(b, a, s) ==
    IF a.count[s] > 0 /\ b.count[s] > 0 THEN a.count[s] - b.count[s] ELSE 0

\* DeltaByMethod for one series: absent from `a` it is not in the result, and
\* absent from `b` it counts from zero.
DeltaOf(b, a, s) == IF a.count[s] > 0 THEN a.count[s] - b.count[s] ELSE 0

\* The per-program reading is used if neither counter went backwards.
ProgramsFail(b, a) == \E s \in Own : a.count[s] < b.count[s]

\* The bucket is compared if it was there at both ends and did not go back.
HostFound == LET b == bucket["before"].count IN b > 0 /\ bucket["after"].count >= b

\* measure's last part: the CPU line first, the requests over it.  What went
\* wrong with the requests replaces the note the CPU line left.
Report ==
    LET B == collected["before"]  A == collected["after"]
        b == scraped["before"]  a == scraped["after"]
        valid == CPUValid(B, A)
        void ==
            IF PerProgram
              THEN \E p \in Procs : ProgramsFail(b[p], a[p])
              ELSE \E p \in Procs : DeltaFails(b[p], a[p])
        problem ==
            CASE "before" \in failed -> "unscraped"
              [] "before" \notin failed /\ "after" \in failed -> "scrape"
              [] failed = {} /\ void -> "reset"
              [] OTHER -> "none"
        split == [s \in Own |->
                    Total([p \in Procs |-> IF PerProgram THEN a[p].count[s] - b[p].count[s]
                                            ELSE DeltaOf(b[p], a[p], s)], Procs)]
        api == IF PerProgram THEN split["applied"]
               ELSE Total([p \in Procs |-> Requests(a[p]) - Requests(b[p])], Procs)
        measured == problem = "none"
    IN  /\ At("report")
        /\ report' = [cpu |-> IF valid THEN A.ticks - B.ticks ELSE 0,
                      cpuValid |-> valid,
                      api |-> IF measured THEN api ELSE 0,
                      split |-> IF measured THEN split ELSE NoReport.split,
                      measured |-> measured,
                      note |-> IF ~measured THEN problem
                               ELSE IF valid \/ PerProgram THEN "none" ELSE "population",
                      host |-> IF HostFound THEN bucket["after"].count - bucket["before"].count
                               ELSE 0,
                      hostFound |-> HostFound]
        /\ step' = step + 1
        /\ UNCHANGED <<processVars, collected, scraped, failed, bucket>>

CountersInit ==
    /\ kind \in {"workers", "programs", "unlabelled"}
    /\ up = Procs
    /\ cpu = [p \in Procs |-> 0] /\ spent = [p \in Procs |-> 0]
    /\ count = [p \in Procs |-> [s \in Series |-> 0]]
    /\ made = [p \in Procs |-> [s \in Series |-> 0]]
    /\ exits = [p \in Procs |-> 0]
    /\ step = 1
    /\ collected = [e \in Ends |-> [size |-> 0, ticks |-> 0, spent |-> spent, exits |-> exits]]
    /\ scraped = [e \in Ends |-> << >>]
    /\ failed = {}
    /\ bucket = [e \in Ends |-> [count |-> 0, made |-> 0, exits |-> 0]]
    /\ report = NoReport

CountersNext ==
    \/ \E p \in Procs :
         \/ Work(p) \/ Exit(p) \/ Start(p) \/ Scrape(p) \/ ScrapeFails(p)
         \/ \E s \in Series : Call(p, s)
    \/ Collect \/ ReadBucket \/ Window \/ Report

CountersSpec == CountersInit /\ [][CountersNext]_countersVars

(***************************************************************************)
(* Properties.                                                             *)
(***************************************************************************)

TrueCPU == Total(collected["after"].spent, Procs) - Total(collected["before"].spent, Procs)
TrueCalls(p, s) == scraped["after"][p].made[s] - scraped["before"][p].made[s]
AllCalls(s) == Total([p \in Procs |-> TrueCalls(p, s)], Procs)

TrueBucket == bucket["after"].made - bucket["before"].made

CPUHeld == collected["after"].exits = collected["before"].exits /\ collected["before"].size = Cardinality(Procs)
BucketHeld == bucket["after"].exits = bucket["before"].exits
ScrapeHeld == \A p \in Procs : scraped["after"][p].exits = scraped["before"][p].exits

\* Whatever exits, restarts and counts again between the two ends, a number in
\* the report is never more than what was really spent or requested between
\* its own two readings, and never below zero.
NeverOverstated ==
    At("done") =>
      /\ report.cpu \in 0 .. TrueCPU
      /\ report.host \in 0 .. TrueBucket
      /\ report.measured =>
           /\ report.api \in 0 .. Total([s \in Own |-> AllCalls(s)], Own)
           /\ \A s \in Own : report.split[s] \in 0 .. AllCalls(s)

\* If no process exited between the two readings the report is exact: the
\* first requests of a series, the ones that register it, included.
ExactWhenNobodyExits ==
    At("done") =>
      /\ report.cpuValid /\ CPUHeld => report.cpu = TrueCPU
      /\ report.hostFound /\ BucketHeld => report.host = TrueBucket
      /\ report.measured /\ Labelled /\ ScrapeHeld =>
           \A s \in Own : report.split[s] = AllCalls(s)

\* "A COUNTER RESET IS REPORTED, NOT CLAMPED" (apiload.go, Delta): a measured
\* request count means that no counter was reset between its readings.
ResetIsReported ==
    At("done") /\ ~PerProgram /\ report.measured => ScrapeHeld
=============================================================================
