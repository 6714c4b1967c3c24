-------------------------------- MODULE Bench --------------------------------
(***************************************************************************)
(* The two commands of cmd/bench that leave a record: `run`, a preflight   *)
(* and two windows over an arm that is already up, and `size`.  A signal   *)
(* cancels the context both run under, at any moment, and what is asked of *)
(* the apiserver or of an endpoint after that fails; what is read from     *)
(* /proc does not.  How the processes are sampled is in Sampling, what a   *)
(* file is counted as in Sizes, what happens inside a window in Window and *)
(* the counters' arithmetic in Counters.                                   *)
(*                                                                         *)
(* Operators named Definition_Slip are what Definition would be with one   *)
(* plausible mistake; no action uses them, and the mutation runs of        *)
(* PROJECT.json put them in Definition's place to see a property notice.   *)
(***************************************************************************)
EXTENDS Sampling, Sizes

CONSTANTS
    N,          \* the workers the arm is asked to have
    Commands,   \* what is run: [name, arm, server], server being -apiserver
    Service     \* the apiserver's ClusterIP

ASSUME BenchAssumption ==
    /\ N \in Nat
    /\ Service \in Addrs
    /\ \A c \in Commands : /\ c.name \in {"run", "size"}
                           /\ c.arm \in {"cr", "perseid"}
                           /\ c.server \in Addrs \cup {"", "unparsable"}

VARIABLES
    command,
    cancelled,  \* the context has been
    pc,
    window,     \* the window being measured
    scraped,    \* the counters were read where the window opened
    windows,    \* those in the Result
    preErr,     \* Preflight.Err
    runErr,     \* Run, or MeasureSizes, returned an error
    disk,       \* the record was written
    printed     \* the table was

benchVars == <<command, cancelled, pc, window, scraped, windows, preErr, runErr, disk, printed>>
samplingVars == <<walk, tally, lives>>
vars == <<benchVars, samplingVars, sizeVars>>

NoWindow == [name |-> "", full |-> FALSE, measured |-> FALSE, noted |-> FALSE]
WindowRecord == [name: {"", "idle", "change"}, full: BOOLEAN, measured: BOOLEAN, noted: BOOLEAN]

TypeOK ==
    /\ SamplingTypeOK /\ SizesTypeOK
    /\ command \in Commands
    /\ cancelled \in BOOLEAN
    /\ pc \in {"start", "count", "settle", "open", "before", "window", "close", "after",
               "conns", "health", "sizes", "record", "print", "exit"}
    /\ window \in WindowRecord
    /\ scraped \in BOOLEAN
    /\ windows \in Seq(WindowRecord) /\ Len(windows) <= 2
    /\ preErr \in BOOLEAN /\ runErr \in BOOLEAN /\ disk \in BOOLEAN /\ printed \in BOOLEAN

\* -apiserver is beside the ClusterIP if it parses, and dropped if not.
apiEndpoints ==
    IF command.server \in Addrs THEN <<Service, command.server>> ELSE <<Service>>

Goto(there) == pc' = there

Fails ==
    /\ runErr' = TRUE
    /\ Goto("record")

Unless(ok, there) == (ok /\ Goto(there) /\ UNCHANGED runErr) \/ Fails

(***************************************************************************)
(* Run.                                                                    *)
(***************************************************************************)

StartRun ==
    /\ pc = "start" /\ command.name = "run"
    /\ Collect
    /\ Goto("count")
    /\ UNCHANGED <<command, cancelled, window, scraped, windows, preErr, runErr, disk,
                   printed, sizeVars>>

\* The end of preflight.  It needs the population counted, none of another
\* arm, and a cluster that answers; any of its other controls may fail.
Judge ==
    /\ pc = "count" /\ stage = "sampled"
    /\ \/ /\ Cardinality(DOMAIN samples) = N
          /\ \A p \in Pids : proc[p] # "foreign"
          /\ ~cancelled
          /\ Goto("settle")
          /\ UNCHANGED <<preErr, runErr>>
       \/ preErr' = TRUE /\ Fails
    /\ Forget
    /\ UNCHANGED <<command, cancelled, window, scraped, windows, disk, printed, sizeVars>>

\* sleepCtx.
Settle ==
    /\ pc = "settle"
    /\ \/ Goto("open") /\ UNCHANGED runErr
       \/ cancelled /\ Fails
    /\ window' = [NoWindow EXCEPT !.name = "idle"]
    /\ UNCHANGED <<command, cancelled, scraped, windows, preErr, disk, printed,
                   samplingVars, sizeVars>>

\* measure: the processes first, then the counters.
OpenWindow ==
    /\ pc = "open"
    /\ Collect
    /\ Goto("before")
    /\ UNCHANGED <<command, cancelled, window, scraped, windows, preErr, runErr, disk,
                   printed, sizeVars>>

ScrapeBefore ==
    /\ pc = "before" /\ stage = "sampled"
    /\ scraped' \in IF cancelled THEN {FALSE} ELSE BOOLEAN
    /\ Goto("window")
    /\ Forget
    /\ UNCHANGED <<command, cancelled, window, windows, preErr, runErr, disk, printed, sizeVars>>

\* Load and the watch end with the window's context, cancelled or not, and
\* without an error unless a request failed in it.
CloseWindow ==
    /\ pc = "window"
    /\ \/ /\ window' = [window EXCEPT !.full = ~cancelled]
          /\ Collect
          /\ Goto("close")
          /\ UNCHANGED runErr
       \/ /\ Fails
          /\ UNCHANGED <<window, samplingVars>>
    /\ UNCHANGED <<command, cancelled, scraped, windows, preErr, disk, printed, sizeVars>>

\* Both ends were scraped and the difference makes sense, or a note says that
\* nothing was measured.
ScrapeAfter ==
    /\ pc = "close" /\ stage = "sampled"
    /\ \E measured \in IF scraped /\ ~cancelled THEN BOOLEAN ELSE {FALSE} :
         window' = [window EXCEPT !.measured = measured, !.noted = ~measured]
    /\ CountConns
    /\ Goto("conns")
    /\ UNCHANGED <<command, cancelled, scraped, windows, preErr, runErr, disk, printed, sizeVars>>

AppendWindow ==
    /\ pc = "conns" /\ tally.left = {}
    /\ windows' = Append(windows, window)
    /\ Goto("health")
    /\ Forget
    /\ UNCHANGED <<command, cancelled, window, scraped, preErr, runErr, disk, printed, sizeVars>>

Boundary == IF window.name = "idle" THEN "open" ELSE "record"

NextWindow ==
    window' = IF window.name = "idle" THEN [NoWindow EXCEPT !.name = "change"] ELSE window

Healthy_IdleOnly ==
    /\ pc = "health"
    /\ IF command.arm = "perseid" /\ window.name = "idle"
       THEN Unless(~cancelled, Boundary) ELSE Goto(Boundary) /\ UNCHANGED runErr
    /\ NextWindow
    /\ UNCHANGED <<command, cancelled, scraped, windows, preErr, disk, printed,
                   samplingVars, sizeVars>>

\* A Perseid arm is asked for its phases at every boundary; a manager has none.
Healthy ==
    /\ pc = "health"
    /\ IF command.arm = "perseid"
       THEN Unless(~cancelled, Boundary) ELSE Goto(Boundary) /\ UNCHANGED runErr
    /\ NextWindow
    /\ UNCHANGED <<command, cancelled, scraped, windows, preErr, disk, printed,
                   samplingVars, sizeVars>>

(***************************************************************************)
(* size, and what both commands end with.                                  *)
(***************************************************************************)

Size ==
    /\ pc \in {"start", "sizes"} /\ command.name = "size"
    /\ MeasureSizes
    /\ IF file' = "failed" THEN runErr' = TRUE /\ Goto("exit")
       ELSE /\ Goto(IF file' = "counted" THEN "record" ELSE "sizes")
            /\ UNCHANGED runErr
    /\ UNCHANGED <<command, cancelled, window, scraped, windows, preErr, disk, printed,
                   samplingVars>>

\* writeRecord, whatever became of the run, and writeJSON: nothing is printed
\* that is not on disk.
WriteRecord ==
    /\ pc = "record"
    /\ \/ disk' = TRUE /\ Goto(IF runErr THEN "exit" ELSE "print")
       \/ Goto("exit") /\ UNCHANGED disk
    /\ UNCHANGED <<command, cancelled, window, scraped, windows, preErr, runErr, printed,
                   samplingVars, sizeVars>>

PrintRun ==
    /\ pc = "print"
    /\ printed' = TRUE
    /\ Goto("exit")
    /\ UNCHANGED <<command, cancelled, window, scraped, windows, preErr, runErr, disk,
                   samplingVars, sizeVars>>

Cancel ==
    /\ ~cancelled /\ pc # "exit"
    /\ cancelled' = TRUE
    /\ UNCHANGED <<command, pc, window, scraped, windows, preErr, runErr, disk, printed,
                   samplingVars, sizeVars>>

Init ==
    /\ command \in Commands
    /\ SamplingInit /\ SizesInit
    /\ cancelled = FALSE
    /\ pc = "start"
    /\ window = NoWindow
    /\ scraped = FALSE
    /\ windows = << >>
    /\ preErr = FALSE /\ runErr = FALSE /\ disk = FALSE /\ printed = FALSE

Sample ==
    /\ pc \in {"count", "before", "close", "conns"}
    /\ ReadFile \/ ReadTable(apiEndpoints)
    /\ UNCHANGED <<benchVars, sizeVars>>

Run ==
    \/ StartRun \/ Judge \/ Settle
    \/ OpenWindow \/ ScrapeBefore \/ CloseWindow \/ ScrapeAfter \/ AppendWindow
    \/ Healthy
    \/ Size \/ WriteRecord \/ PrintRun

Processes == command.name = "run" /\ pc # "exit" /\ ProcessStep /\ UNCHANGED <<benchVars, sizeVars>>

Next == Run \/ Sample \/ Processes \/ Cancel

Spec == Init /\ [][Next]_vars

(***************************************************************************)
(* Properties.                                                             *)
(***************************************************************************)

\* The connections a window reports are at most those open at some moment of
\* the count, unless -apiserver repeats the ClusterIP and they count twice; a
\* total that is not marked has every one open throughout it, to an address it
\* was told of, of the processes sampled before.
ConnsBracket ==
    LET mine == (DOMAIN samples) \X Range(apiEndpoints) IN
    (pc = "conns" /\ tally.left = {}) =>
        /\ command.server # Service => tally.total <= Cardinality(held \cap mine)
        /\ tally.complete => tally.total >= Cardinality(kept \cap mine)

\* A table that is printed is of a record on disk and a command that failed
\* nowhere: after an interrupt, a Perseid arm prints nothing, and a manager's
\* window that was cut short is printed as not measured, with a note.
PrintedRunsPassed ==
    printed =>
        /\ disk /\ ~runErr /\ ~preErr
        /\ command.name = "size" => file = "counted"
        /\ command.name = "run" =>
             /\ [i \in DOMAIN windows |-> windows[i].name] = <<"idle", "change">>
             /\ \A i \in DOMAIN windows :
                  windows[i].full \/ (command.arm = "cr" /\ ~windows[i].measured
                                        /\ windows[i].noted)
=============================================================================
