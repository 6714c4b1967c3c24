------------------------------- MODULE Ladder -------------------------------
(***************************************************************************)
(* One pass of hack/ladder.sh: for every cell, an arm at a size, bring the *)
(* arm up, run its controls and its two windows, take it down, and go on   *)
(* whatever happened.  What is at stake is which workers a window is about *)
(* to measure.                                                             *)
(*                                                                         *)
(* A worker is a pod of a controller-runtime arm, or a Perseid with the    *)
(* pod its host gives it.  A worker that is being deleted keeps its phase  *)
(* until it is gone: a terminating pod is still Ready.  The scheduler may  *)
(* put a Perseid's pod on another host, where the sampler does not see it, *)
(* and a pod may be of a runtime that keeps its config from the guest.     *)
(*                                                                         *)
(* Operators named Definition_Slip are what Definition would be with one   *)
(* plausible mistake; no action uses them, and the mutation runs of        *)
(* PROJECT.json put them in Definition's place to see a property notice.   *)
(***************************************************************************)
EXTENDS Integers, Sequences, FiniteSets, Functions

CONSTANTS
    Ladders,     \* the ladders run, each flattened: a sequence of [arm, n]
    MaxHiccups   \* bound: worker crashes and requests that fail

CRArms == {"a1-cr-leader", "a2-cr-noleader", "a3-cr-shared"}
PerseidArms == {"b-perseid", "b2-perseid-fused"}

Consolidated == {"a3-cr-shared", "b2-perseid-fused"}

\* The consolidated arms are one worker at every size but zero.
Instances(arm, n) == IF arm \in Consolidated /\ n > 0 THEN 1 ELSE n

\* How many workers `up` creates: it has no size zero for those arms.
Creations(arm, n) == IF arm \in Consolidated THEN 1 ELSE n

ASSUME LadderAssumption ==
    /\ Ladders \subseteq Seq([arm: CRArms \cup PerseidArms, n: Nat]) \ {<< >>}
    /\ IsFiniteSet(Ladders)
    /\ MaxHiccups \in Nat

\* The cells of any ladder.
Cells == UNION {Range(l) : l \in Ladders}
Sizes == {c.n : c \in Cells}
Workers == UNION {{<<c.arm, i>> : i \in 0 .. Creations(c.arm, c.n) - 1} : c \in Cells}

VARIABLES
    todo,      \* the cells left, the one in progress first
    pc,        \* where the harness is in it
    made,      \* instances Create has been called for
    worker,    \* the workers, by arm and instance
    seen,      \* what preflight counted: processes and metrics endpoints
    took,      \* destinations that took the convergence sentinel
    cameBack,  \* history: workers that started since preflight sampled
    failures,  \* history: programs that failed before their cell's last check
    hiccups

vars == <<todo, pc, made, worker, seen, took, cameBack, failures, hiccups>>

Arm == Head(todo).arm
Num == Head(todo).n
Mine == {<<Arm, i>> : i \in 0 .. Instances(Arm, Num) - 1}

Absent == [phase |-> "absent", dying |-> FALSE, proc |-> FALSE, spec |-> 0, pod |-> "none"]

Present(w) == worker[w].phase # "absent"
Up(w) == worker[w].phase = "up"
OfArms(arms) == {w \in Workers : w[1] \in arms /\ Present(w)}
Pods(arms) == {w \in OfArms(arms) : worker[w].proc}

\* Those the sampler finds, which reads the /proc of its own host.
Processes(arms) == {w \in Pods(arms) : worker[w].pod # "away"}

Windows == {"idle", "change"}

TypeOK ==
    /\ todo \in Seq(Cells) \ {<< >>}
    /\ pc \in {"create", "wait", "sample", "converge", "settle", "recorded",
               "down", "gone", "end"} \cup Windows
    /\ made \in 0 .. Creations(Arm, Num)
    /\ worker \in [Workers -> [phase: {"absent", "starting", "up", "refused", "failed"},
                               dying: BOOLEAN, proc: BOOLEAN, spec: Sizes \cup {0},
                               pod: {"none", "here", "away", "bare"}]]
    /\ \A w \in Workers : worker[w].proc => worker[w].phase \in {"up", "failed"}
    /\ seen \in [found: 0 .. Cardinality(Workers), foreign: 0 .. Cardinality(Workers),
                 served: 0 .. Cardinality(Workers)]
    /\ \E a \in CRArms \cup PerseidArms :
         seen.found =< Cardinality({w \in Workers : w[1] = a})
    /\ took \in SUBSET (0 .. Num - 1)
    /\ cameBack \in SUBSET Workers
    /\ failures \in SUBSET Workers
    /\ hiccups \in 0 .. MaxHiccups

(***************************************************************************)
(* up: UpArm, UpPerseids or UpFused, then the wait for the arm.            *)
(***************************************************************************)

Created(w) ==
    /\ worker' = [worker EXCEPT ![w] = [Absent EXCEPT !.phase = "starting", !.spec = Num]]
    /\ failures' = failures \ {w}

Create_AlreadyExistsIsFine ==
    LET w == <<Arm, made>> IN
    /\ pc = "create"
    /\ made < Creations(Arm, Num)
    /\ \/ ~Present(w) /\ Created(w)
       \/ Present(w) /\ UNCHANGED <<worker, failures>>
    /\ made' = made + 1
    /\ UNCHANGED <<todo, pc, seen, took, cameBack, hiccups>>

\* AlreadyExists is the goal for a pod, and for the fused program too; for a
\* Perseid of arm B it fails the cell.
Create ==
    LET w == <<Arm, made>> IN
    /\ pc = "create"
    /\ made < Creations(Arm, Num)
    /\ \/ ~Present(w) /\ Created(w) /\ made' = made + 1 /\ UNCHANGED pc
       \/ /\ Present(w) /\ Arm # "b-perseid"
          /\ made' = made + 1
          /\ UNCHANGED <<pc, worker, failures>>
       \/ /\ Present(w) /\ Arm = "b-perseid"
          /\ pc' = "down"
          /\ UNCHANGED <<made, worker, failures>>
    /\ UNCHANGED <<todo, seen, took, cameBack, hiccups>>

CreateDone ==
    /\ pc = "create"
    /\ made = Creations(Arm, Num)
    /\ pc' = "wait"
    /\ UNCHANGED <<todo, made, worker, seen, took, cameBack, failures, hiccups>>

\* Counted by the arm's label, and exactly: a worker left from a larger cell,
\* or one that is being deleted, counts like any other.  A program that was
\* refused or failed ends the wait, and so does its deadline.
Wait ==
    LET all == Cardinality({w \in OfArms({Arm}) : Up(w)}) = Instances(Arm, Num) IN
    /\ pc = "wait"
    /\ \/ all /\ pc' = "sample"
       \/ ~all /\ pc' = "down"
    /\ UNCHANGED <<todo, made, worker, seen, took, cameBack, failures, hiccups>>

(***************************************************************************)
(* run: preflight, then the idle and the change window.                    *)
(***************************************************************************)

\* No pod of the arm is off the host.
PodPlacement == \A w \in Pods({Arm}) : worker[w].pod # "away"

\* There is a pod, and none without its config.
ConfigReachesGuest == Pods({Arm}) # {} /\ \A w \in Pods({Arm}) : worker[w].pod # "bare"

\* For the Perseid arms at any size but zero.
PodsCheckOut == (Arm \in PerseidArms /\ Num > 0) => PodPlacement /\ ConfigReachesGuest

Sample_SupervisorsToo ==
    LET others == (CRArms \cup PerseidArms) \ {Arm} IN
    /\ pc = "sample"
    /\ \E served \in IF Arm \in CRArms THEN 0 .. Cardinality(OfArms({Arm})) ELSE {0} :
         seen' = [found |-> 2 * Cardinality(Processes({Arm})),
                  foreign |-> 2 * Cardinality(Processes(others)), served |-> served]
    /\ took' = {}
    /\ cameBack' = {}
    /\ pc' = IF PodsCheckOut THEN "converge" ELSE "down"
    /\ UNCHANGED <<todo, made, worker, failures, hiccups>>

\* The selectors of this arm and of every other are counted once, up front,
\* and so are the endpoints that answer a scrape, any of which may not.
Sample ==
    LET others == (CRArms \cup PerseidArms) \ {Arm} IN
    /\ pc = "sample"
    /\ \E served \in IF Arm \in CRArms THEN 0 .. Cardinality(OfArms({Arm})) ELSE {0} :
         seen' = [found |-> Cardinality(Processes({Arm})),
                  foreign |-> Cardinality(Processes(others)), served |-> served]
    /\ took' = {}
    /\ cameBack' = {}
    /\ pc' = IF PodsCheckOut THEN "converge" ELSE "down"
    /\ UNCHANGED <<todo, made, worker, failures, hiccups>>

\* Which pairs a worker relays.
Serves(w, i) ==
    \/ w[1] = "a3-cr-shared"
    \/ w[1] = "b2-perseid-fused" /\ i < worker[w].spec
    \/ w[1] \notin Consolidated /\ i = w[2]

\* Whoever relays the pair, of this arm or not, converges it.  A program
\* without its config does not know its pair.
Relays(i) ==
    /\ pc = "converge"
    /\ \E w \in Workers : Up(w) /\ worker[w].proc /\ worker[w].pod # "bare" /\ Serves(w, i)
    /\ took' = took \cup {i}
    /\ UNCHANGED <<todo, pc, made, worker, seen, cameBack, failures, hiccups>>

\* Arms B and B2 only: every Perseid of the benchmark is Running or Parked.
\* No Perseid at all is healthy.
Healthy == Arm \in PerseidArms => \A w \in OfArms(PerseidArms) : Up(w)

Serving == Arm \in CRArms => seen.served = Instances(Arm, Num)

Judge_NoNegativeControl ==
    /\ pc = "converge"
    /\ pc' = IF took = 0 .. Num - 1 /\ Healthy /\ seen.found = Instances(Arm, Num) /\ Serving
             THEN "settle" ELSE "down"
    /\ UNCHANGED <<todo, made, worker, seen, took, cameBack, failures, hiccups>>

\* The convergence control ends with every destination carrying the sentinel
\* or at its deadline; health is looked at after it, and the counts taken
\* before it are judged last.
Judge ==
    /\ pc = "converge"
    /\ pc' = IF /\ took = 0 .. Num - 1
                /\ Healthy
                /\ seen.found = Instances(Arm, Num) /\ seen.foreign = 0
                /\ Serving
             THEN "settle" ELSE "down"
    /\ UNCHANGED <<todo, made, worker, seen, took, cameBack, failures, hiccups>>

OpenWindows ==
    /\ pc = "settle"
    /\ pc' = "idle"
    /\ UNCHANGED <<todo, made, worker, seen, took, cameBack, failures, hiccups>>

CloseWindow_UpFrontOnly ==
    /\ pc \in Windows
    /\ pc' = IF pc = "idle" THEN "change" ELSE "recorded"
    /\ UNCHANGED <<todo, made, worker, seen, took, cameBack, failures, hiccups>>

\* Health is checked at every window boundary.
CloseWindow ==
    /\ pc \in Windows
    /\ pc' = IF ~Healthy THEN "down" ELSE IF pc = "idle" THEN "change" ELSE "recorded"
    /\ UNCHANGED <<todo, made, worker, seen, took, cameBack, failures, hiccups>>

\* Any request of `up` or `run` may fail, and a window with it.
RequestFails ==
    /\ pc \in {"create", "wait", "sample", "converge", "settle"} \cup Windows
    /\ hiccups < MaxHiccups
    /\ hiccups' = hiccups + 1
    /\ pc' = "down"
    /\ UNCHANGED <<todo, made, worker, seen, took, cameBack, failures>>

(***************************************************************************)
(* down: Down or DownPerseids, whose outcome the ladder does not look at.  *)
(***************************************************************************)

\* DownPerseids selects both Perseid arms.
DownSelects == IF Arm \in PerseidArms THEN PerseidArms ELSE {Arm}

NextCell ==
    /\ IF Len(todo) = 1
       THEN pc' = "end" /\ UNCHANGED todo
       ELSE pc' = "create" /\ todo' = Tail(todo)
    /\ made' = 0
    /\ took' = {}
    /\ failures' = {}
    /\ UNCHANGED <<seen, cameBack>>

Delete ==
    /\ pc \in {"down", "recorded"}
    /\ \/ /\ worker' = [w \in Workers |-> IF w \in OfArms(DownSelects)
                                         THEN [worker[w] EXCEPT !.dying = TRUE]
                                         ELSE worker[w]]
          /\ pc' = "gone"
          /\ UNCHANGED <<todo, made, seen, took, cameBack, failures, hiccups>>
       \/ /\ hiccups < MaxHiccups
          /\ hiccups' = hiccups + 1
          /\ NextCell
          /\ UNCHANGED worker

WaitGone_NoDeadline ==
    /\ pc = "gone"
    /\ OfArms(DownSelects) = {}
    /\ NextCell
    /\ UNCHANGED <<worker, hiccups>>

\* The wait ends when nothing is left, or at its deadline.
WaitGone ==
    /\ pc = "gone"
    /\ NextCell
    /\ UNCHANGED <<worker, hiccups>>

(***************************************************************************)
(* The workers.                                                            *)
(***************************************************************************)

harness == <<todo, pc, made, seen, took>>

\* A worker becomes Ready, Running or Parked.
Start(w) ==
    /\ worker[w].phase = "starting"
    /\ ~worker[w].dying
    /\ \E pod \in IF w[1] \in PerseidArms THEN {"here", "away", "bare"} ELSE {"here"} :
         worker' = [worker EXCEPT ![w].phase = "up", ![w].proc = TRUE, ![w].pod = pod]
    /\ cameBack' = cameBack \cup {w}
    /\ UNCHANGED <<failures, hiccups>>
    /\ UNCHANGED harness

\* Admission refuses a Perseid: it never gets a pod.
Refuse(w) ==
    /\ w[1] \in PerseidArms
    /\ worker[w].phase = "starting"
    /\ worker' = [worker EXCEPT ![w].phase = "refused"]
    /\ UNCHANGED <<cameBack, failures, hiccups>>
    /\ UNCHANGED harness

\* A program dies on its park: terminal, with the pod Ready and running.
Fail(w) ==
    /\ w[1] \in PerseidArms
    /\ Up(w)
    /\ worker' = [worker EXCEPT ![w].phase = "failed"]
    /\ failures' = IF pc \in {"recorded", "down", "gone", "end"}
                   THEN failures ELSE failures \cup {w}
    /\ UNCHANGED <<cameBack, hiccups>>
    /\ UNCHANGED harness

\* A pod's container dies; unless the pod is being deleted, Start follows.
Crash(w) ==
    /\ w[1] \in CRArms
    /\ Up(w)
    /\ hiccups < MaxHiccups
    /\ hiccups' = hiccups + 1
    /\ worker' = [worker EXCEPT ![w].phase = "starting", ![w].proc = FALSE, ![w].pod = "none"]
    /\ UNCHANGED <<cameBack, failures>>
    /\ UNCHANGED harness

\* A delete completes, except that the finalizer of a refused Perseid waits
\* for a pod that will never exist.
Vanish(w) ==
    /\ worker[w].dying
    /\ worker[w].phase # "refused"
    /\ worker' = [worker EXCEPT ![w] = Absent]
    /\ UNCHANGED <<cameBack, failures, hiccups>>
    /\ UNCHANGED harness

Init ==
    /\ todo \in Ladders
    /\ pc = "create"
    /\ made = 0
    /\ worker = [w \in Workers |-> Absent]
    /\ seen = [found |-> 0, foreign |-> 0, served |-> 0]
    /\ took = {}
    /\ cameBack = {}
    /\ failures = {}
    /\ hiccups = 0

HarnessStep ==
    \/ Create \/ CreateDone \/ Wait
    \/ Sample \/ Judge \/ OpenWindows \/ CloseWindow
    \/ Delete \/ WaitGone

WorkerStep == \E w \in Workers : Start(w) \/ Refuse(w) \/ Fail(w) \/ Crash(w) \/ Vanish(w)

Next == HarnessStep \/ RequestFails \/ WorkerStep \/ \E i \in 0 .. Num - 1 : Relays(i)

\* Every wait of the harness has a deadline; nothing is asked of the workers.
Spec == Init /\ [][Next]_vars /\ WF_vars(HarnessStep)

(***************************************************************************)
(* Properties.                                                             *)
(***************************************************************************)

\* Whatever was left standing by a teardown that failed, the only processes
\* of another arm a window can contain, and of any arm a baseline of size zero
\* can, were down at the moment preflight counted them and came back later.
ForeignersCameBack ==
    LET described == IF Num = 0 THEN {} ELSE {Arm} IN
    pc \in Windows => Processes((CRArms \cup PerseidArms) \ described) \subseteq cameBack

\* The programs arm B measures were declared by their own cell: none carries
\* an earlier cell's spec and none is being deleted.  Those that were up when
\* preflight looked run where the sampler sees them, with their config; one
\* that a leftover stood in for until then may have started anywhere.
MeasuresFreshPrograms ==
    (pc \in Windows /\ Arm = "b-perseid")
      => \A w \in Mine :
           /\ Present(w) /\ ~worker[w].dying /\ worker[w].spec = Num
           /\ w \notin cameBack => worker[w].pod = "here"

\* A cell of arm B that ends recorded had no program fail from its creation
\* to the close of the change window, however green its other controls were.
NoFailureRecorded == pc = "recorded" /\ Arm = "b-perseid" => failures \cap Mine = {}

\* The ladder ends, stuck finalizers and arms that never come up included.
LadderEnds == <>(pc = "end")

\* "Accepting it silently is what let two runs in a row measure a stale
\* declaration" (perseid.go): no window measures a program that carries the
\* spec of another cell.
MeasuresItsOwnSpec ==
    (pc \in Windows /\ Arm \in PerseidArms)
      => \A w \in Processes({Arm}) : worker[w].spec = Num
=============================================================================
