---------------------------- MODULE Ladder_proofs ----------------------------
(***************************************************************************)
(* What a window of a ladder measures, for any ladders, of any length, at  *)
(* any sizes: who may stand beside the arm, which programs arm B counts,   *)
(* and that a program that failed is never recorded.                       *)
(*                                                                         *)
(* None of the three is inductive: a window is opened on counts that were  *)
(* taken before it, and trusts them.  CreatedInv says what the cell has    *)
(* brought about by its own hand, CountedInv what the counts still mean    *)
(* after workers came and went, and JudgedInv what the controls added.     *)
(***************************************************************************)
EXTENDS Ladder, FiniteSetTheorems, SequenceTheorems, TLAPS

Arms == CRArms \cup PerseidArms

\* The phases of a cell up to its record, those that follow preflight's count,
\* and those that follow its verdict.
Judged == {"settle"} \cup Windows
Counted == {"converge"} \cup Judged
InCell == {"create", "wait", "sample", "recorded"} \cup Counted

\* A worker that is up has a process, and a process is in a pod.
ShapeInv == \A w \in Workers :
    /\ Up(w) => worker[w].proc
    /\ worker[w].proc => worker[w].pod # "none"

\* The programs arm B has created in this cell are there, of this cell's spec,
\* not being deleted, and failed if they ever did; and a cell that is past
\* its creation has made them all.
CreatedInv ==
    /\ pc \in InCell \ {"create"} => made = Creations(Arm, Num)
    /\ (Arm = "b-perseid" /\ pc \in InCell) => \A i \in 0 .. made - 1 :
         LET w == <<Arm, i>> IN
         /\ Present(w) /\ ~worker[w].dying /\ worker[w].spec = Num
         /\ w \in failures => worker[w].phase = "failed"

\* A count of zero says that whoever is there now started after it; and a
\* program of a Perseid arm that was counted is on this host, with its config.
CountedInv == pc \in Counted =>
    /\ seen.foreign = 0 => Processes(Arms \ {Arm}) \subseteq cameBack
    /\ seen.found = 0 => Processes({Arm}) \subseteq cameBack
    /\ (Arm \in PerseidArms /\ Num > 0) =>
         \A w \in Pods({Arm}) : w \notin cameBack => worker[w].pod = "here"

\* The verdict: the counts are as described, and arm B's programs are running.
JudgedInv == pc \in Judged =>
    /\ seen.foreign = 0 /\ seen.found = Instances(Arm, Num)
    /\ Arm = "b-perseid" => \A w \in Mine : worker[w].proc

IInv == TypeOK /\ ShapeInv /\ CreatedInv /\ CountedInv /\ JudgedInv /\ NoFailureRecorded

-----------------------------------------------------------------------------
(***************************************************************************)
(* Cells, workers and counts.                                              *)
(***************************************************************************)

\* What a sequence is made of, for sequences whose elements are records.
LEMMA SequenceFacts ==
    ASSUME NEW S, NEW s \in Seq(S)
    PROVE  /\ Len(s) \in Nat /\ DOMAIN s = 1 .. Len(s)
           /\ \A i \in DOMAIN s : s[i] \in S
           /\ s # << >> /\ Len(s) # 1 => Tail(s) \in Seq(S) \ {<< >>}
<1>1. Len(s) \in Nat /\ DOMAIN s = 1 .. Len(s)
  OBVIOUS
<1>2. \A i \in DOMAIN s : s[i] \in S
  OBVIOUS
<1>3. ASSUME s # << >>, Len(s) # 1 PROVE Tail(s) \in Seq(S) \ {<< >>}
  <2>1. Len(s) > 1
    BY <1>1, <1>3, EmptySeq
  <2>2. Tail(s) \in Seq(S) /\ Len(Tail(s)) = Len(s) - 1
    BY <2>1
  <2>3. Len(Tail(s)) # 0
    BY <1>1, <2>1, <2>2
  <2>4. Len(<< >>) = 0
    BY EmptySeq
  <2>. QED BY <2>2, <2>3, <2>4
<1>. QED BY <1>1, <1>2, <1>3

\* A cell is an arm at a size.
LEMMA CellType == Cells \subseteq [arm: Arms, n: Nat]
<1>. SUFFICES ASSUME NEW l \in Ladders, NEW c \in Range(l) PROVE c \in [arm: Arms, n: Nat]
  BY DEF Cells
<1>1. l \in Seq([arm: Arms, n: Nat])
  BY LadderAssumption DEF Arms
<1>2. PICK i \in DOMAIN l : c = l[i]
  BY DEF Range
<1>. QED BY <1>1, <1>2, SequenceFacts

\* A ladder that is under way has a cell in progress, whose arm, size and
\* workers are of the ladder's; an arm has no more instances than `up` creates.
LEMMA CellInProgress ==
    ASSUME todo \in Seq(Cells) \ {<< >>}
    PROVE  /\ Arm \in Arms /\ Num \in Nat /\ Num \in Sizes
           /\ Instances(Arm, Num) \in Nat /\ Creations(Arm, Num) \in Nat
           /\ Instances(Arm, Num) =< Creations(Arm, Num)
           /\ \A i \in 0 .. Creations(Arm, Num) - 1 : <<Arm, i>> \in Workers
           /\ Mine \subseteq Workers
<1>1. Head(todo) \in Cells
  OBVIOUS
<1>2. Arm \in Arms /\ Num \in Nat /\ Num \in Sizes
  BY <1>1, CellType DEF Arm, Num, Sizes
<1>3. /\ Instances(Arm, Num) \in Nat /\ Creations(Arm, Num) \in Nat
      /\ Instances(Arm, Num) =< Creations(Arm, Num)
  BY <1>2 DEF Instances, Creations
<1>4. ASSUME NEW i \in 0 .. Creations(Arm, Num) - 1 PROVE <<Arm, i>> \in Workers
  BY <1>1 DEF Workers, Arm, Num
<1>5. Mine \subseteq Workers
  BY <1>3, <1>4 DEF Mine
<1>. QED BY <1>2, <1>3, <1>4, <1>5

\* There are finitely many workers: the ladders are, and each is finite.
LEMMA WorkersFinite == IsFiniteSet(Workers) /\ Cardinality(Workers) \in Nat
<1>1. ASSUME NEW l \in Ladders PROVE IsFiniteSet(Range(l))
  <2>1. l \in [1 .. Len(l) -> Range(l)] /\ Len(l) \in Nat /\ DOMAIN l = 1 .. Len(l)
    BY LadderAssumption DEF Range
  <2>2. l \in Surjection(1 .. Len(l), Range(l))
    BY <2>1 DEF Surjection, Range
  <2>. QED BY <2>1, <2>2, FS_Interval, FS_Surjection
<1>2. IsFiniteSet(Cells)
  <2>. DEFINE f == [l \in Ladders |-> Range(l)]
              R == {Range(l) : l \in Ladders}
  <2>1. f \in Surjection(Ladders, R)
    BY DEF Surjection
  <2>2. IsFiniteSet(R)
    BY <2>1, LadderAssumption, FS_Surjection
  <2>. QED BY <2>2, <1>1, FS_UNION DEF Cells
<1>. DEFINE OfCell(c) == {<<c.arm, i>> : i \in 0 .. Creations(c.arm, c.n) - 1}
<1>3. ASSUME NEW c \in Cells PROVE IsFiniteSet(OfCell(c))
  <2>. DEFINE I == 0 .. Creations(c.arm, c.n) - 1
              f == [i \in I |-> <<c.arm, i>>]
  <2>1. IsFiniteSet(I)
    BY CellType, FS_Interval DEF Creations
  <2>2. f \in Surjection(I, OfCell(c))
    BY DEF Surjection
  <2>. QED BY <2>1, <2>2, FS_Surjection
<1>4. IsFiniteSet(Workers)
  <2>. DEFINE f == [c \in Cells |-> OfCell(c)]
              R == {OfCell(c) : c \in Cells}
  <2>1. f \in Surjection(Cells, R)
    BY DEF Surjection
  <2>2. IsFiniteSet(R)
    BY <2>1, <1>2, FS_Surjection
  <2>. QED BY <2>2, <1>3, FS_UNION DEF Workers
<1>. QED BY <1>4, FS_CardinalityType

\* A count of workers is a number, and no more than those it is taken among.
LEMMA Counting ==
    ASSUME NEW S \in SUBSET Workers, NEW T \in SUBSET S
    PROVE  /\ Cardinality(T) \in 0 .. Cardinality(Workers)
           /\ Cardinality(T) =< Cardinality(S)
           /\ Cardinality(T) = 0 => T = {}
<1>1. IsFiniteSet(S) /\ IsFiniteSet(T) /\ T \in SUBSET Workers
  BY WorkersFinite, FS_Subset
<1>2. Cardinality(T) \in Nat /\ Cardinality(T) =< Cardinality(Workers)
  BY <1>1, WorkersFinite, FS_Subset, FS_CardinalityType
<1>3. Cardinality(T) =< Cardinality(S) /\ (Cardinality(T) = 0 => T = {})
  BY <1>1, FS_Subset, FS_EmptySet
<1>. QED BY <1>2, <1>3, WorkersFinite

-----------------------------------------------------------------------------
(***************************************************************************)
(* Type correctness, action by action.                                     *)
(***************************************************************************)

\* What a worker can be.
WorkerType ==
    [phase: {"absent", "starting", "up", "refused", "failed"}, dying: BOOLEAN,
     proc: BOOLEAN, spec: Sizes \cup {0}, pod: {"none", "here", "away", "bare"}]

\* A worker that is changed has a process only where its phase allows one.
WorkersOK(ws) ==
    /\ ws \in [Workers -> WorkerType]
    /\ \A w \in Workers : ws[w].proc => ws[w].phase \in {"up", "failed"}

\* Going on to the next cell keeps a cell in progress.
LEMMA NextCellTyped ==
    ASSUME TypeOK, NextCell
    PROVE  /\ todo' \in Seq(Cells) \ {<< >>} /\ pc' \in {"end", "create"}
           /\ made' = 0 /\ made' \in 0 .. Creations(Arm, Num)'
           /\ took' = {} /\ failures' = {} /\ UNCHANGED <<seen, cameBack>>
<1>1. todo' \in Seq(Cells) \ {<< >>}
  <2>1. todo \in Seq(Cells) /\ todo # << >>
    BY DEF TypeOK
  <2>2. CASE Len(todo) = 1
    BY <2>1, <2>2 DEF NextCell
  <2>3. CASE Len(todo) # 1
    BY <2>1, <2>3, SequenceFacts DEF NextCell
  <2>. QED BY <2>2, <2>3
<1>2. Creations(Arm, Num)' \in Nat
  BY <1>1, CellType DEF Creations, Arm, Num
<1>. QED BY <1>1, <1>2 DEF NextCell

\* A cell that is not left keeps its arm, its size and its workers.
LEMMA SameCell ==
    ASSUME todo' = todo
    PROVE  /\ Arm' = Arm /\ Num' = Num /\ Mine' = Mine
           /\ Creations(Arm, Num)' = Creations(Arm, Num)
           /\ Instances(Arm, Num)' = Instances(Arm, Num)
BY DEF Arm, Num, Mine

\* The first states are typed.
LEMMA InitTyped == Init => TypeOK
<1>. SUFFICES ASSUME Init PROVE TypeOK
  OBVIOUS
<1>1. todo \in Seq(Cells) \ {<< >>}
  <2>1. todo \in Seq([arm: Arms, n: Nat]) /\ todo # << >>
    BY LadderAssumption DEF Init, Arms
  <2>2. \A i \in 1 .. Len(todo) : todo[i] \in Cells
    BY <2>1, SequenceFacts DEF Cells, Range, Init
  <2>3. todo = [i \in 1 .. Len(todo) |-> todo[i]] /\ Len(todo) \in Nat
    BY <2>1
  <2>. QED BY <2>1, <2>2, <2>3
<1>2. 0 \in 0 .. Creations(Arm, Num) /\ took \in SUBSET (0 .. Num - 1)
  BY <1>1, CellInProgress DEF Init
<1>3. worker \in [Workers -> WorkerType] /\ \A w \in Workers : ~worker[w].proc
  BY DEF Init, Absent, WorkerType
<1>4. /\ seen \in [found: 0 .. Cardinality(Workers), foreign: 0 .. Cardinality(Workers),
                   served: 0 .. Cardinality(Workers)]
      /\ seen.found = 0
  BY WorkersFinite DEF Init
<1>5. Cardinality({w \in Workers : w[1] = Arm}) >= 0
  BY Counting, WorkersFinite
<1>6. Arm \in Arms
  BY <1>1, CellInProgress
<1>7. hiccups \in 0 .. MaxHiccups
  BY LadderAssumption DEF Init
<1>. QED BY <1>1, <1>2, <1>3, <1>4, <1>5, <1>6, <1>7 DEF Init, TypeOK, WorkerType, Arms

\* Preflight's counts are of workers, and those it finds are of one arm.
LEMMA SampleTyped ==
    ASSUME TypeOK, Sample
    PROVE  /\ seen' \in [found: 0 .. Cardinality(Workers), foreign: 0 .. Cardinality(Workers),
                         served: 0 .. Cardinality(Workers)]
           /\ seen'.found =< Cardinality({w \in Workers : w[1] = Arm})
<1>. DEFINE mine == Processes({Arm})
            theirs == Processes((CRArms \cup PerseidArms) \ {Arm})
<1>1. PICK served \in IF Arm \in CRArms THEN 0 .. Cardinality(OfArms({Arm})) ELSE {0} :
        seen' = [found |-> Cardinality(mine), foreign |-> Cardinality(theirs), served |-> served]
  BY DEF Sample
<1>2. mine \in SUBSET {w \in Workers : w[1] = Arm}
  BY DEF Processes, Pods, OfArms
<1>3. theirs \in SUBSET Workers /\ OfArms({Arm}) \in SUBSET Workers
  BY DEF Processes, Pods, OfArms
<1>4. /\ Cardinality(mine) \in 0 .. Cardinality(Workers)
      /\ Cardinality(mine) =< Cardinality({w \in Workers : w[1] = Arm})
  BY <1>2, Counting
<1>5. Cardinality(theirs) \in 0 .. Cardinality(Workers)
  BY <1>3, Counting
<1>6. served \in 0 .. Cardinality(Workers)
  BY <1>1, <1>3, Counting, WorkersFinite
<1>. QED BY <1>1, <1>4, <1>5, <1>6

\* A worker's step leaves a worker, and a record of those that started.
LEMMA WorkersTyped ==
    ASSUME TypeOK, NEW x \in Workers,
           Start(x) \/ Refuse(x) \/ Fail(x) \/ Crash(x) \/ Vanish(x)
    PROVE  /\ WorkersOK(worker') /\ cameBack' \in SUBSET Workers /\ failures' \in SUBSET Workers
           /\ hiccups' \in 0 .. MaxHiccups /\ UNCHANGED harness
<1>. USE DEF TypeOK, WorkersOK, WorkerType, harness
<1>0. worker \in [Workers -> WorkerType] /\ MaxHiccups \in Nat
  BY LadderAssumption
<1>x. worker[x].dying \in BOOLEAN /\ worker[x].spec \in Sizes \cup {0}
  BY <1>0
<1>1. CASE Start(x)
  <2>1. PICK pod \in {"here", "away", "bare"} :
          worker' = [worker EXCEPT ![x].phase = "up", ![x].proc = TRUE, ![x].pod = pod]
    BY <1>1 DEF Start
  <2>2. /\ worker'[x] = [phase |-> "up", dying |-> worker[x].dying, proc |-> TRUE,
                         spec |-> worker[x].spec, pod |-> pod]
        /\ DOMAIN worker' = Workers
        /\ \A w \in Workers \ {x} : worker'[w] = worker[w]
    BY <1>0, <2>1
  <2>3. \A w \in Workers : worker'[w] \in WorkerType
    <3>1. worker'[x] \in WorkerType
      BY <1>x, <2>2
    <3>. QED BY <1>0, <2>2, <3>1
  <2>4. worker' \in [Workers -> WorkerType]
    BY <1>0, <2>1, <2>3
  <2>5. \A w \in Workers : worker'[w].proc => worker'[w].phase \in {"up", "failed"}
    BY <1>0, <2>2
  <2>. QED BY <1>1, <2>4, <2>5 DEF Start
<1>2. CASE Refuse(x)
  BY <1>0, <1>2 DEF Refuse
<1>3. CASE Fail(x)
  BY <1>0, <1>3 DEF Fail, Up
<1>4. CASE Crash(x)
  <2>1. WorkersOK(worker')
    <3>1. worker' = [worker EXCEPT ![x].phase = "starting", ![x].proc = FALSE, ![x].pod = "none"]
      BY <1>4 DEF Crash
    <3>2. /\ worker'[x] = [phase |-> "starting", dying |-> worker[x].dying, proc |-> FALSE,
                           spec |-> worker[x].spec, pod |-> "none"]
          /\ DOMAIN worker' = Workers
          /\ \A w \in Workers \ {x} : worker'[w] = worker[w]
      BY <1>0, <3>1
    <3>3. \A w \in Workers : worker'[w] \in WorkerType
      <4>1. worker'[x] \in WorkerType
        BY <1>x, <3>2
      <4>. QED BY <1>0, <3>2, <4>1
    <3>4. worker' \in [Workers -> WorkerType]
      BY <1>0, <3>1, <3>3
    <3>. QED BY <1>0, <3>2, <3>4
  <2>2. hiccups' \in 0 .. MaxHiccups
    BY <1>0, <1>4 DEF Crash
  <2>. QED BY <1>4, <2>1, <2>2 DEF Crash
<1>5. CASE Vanish(x)
  BY <1>0, <1>5 DEF Vanish, Absent
<1>. QED BY <1>1, <1>2, <1>3, <1>4, <1>5

\* Every step keeps the types.
LEMMA StepTyped == TypeOK /\ [Next]_vars => TypeOK'
<1>. SUFFICES ASSUME TypeOK, [Next]_vars PROVE TypeOK'
  OBVIOUS
<1>. USE DEF TypeOK, Windows
<1>0. /\ Arm \in Arms /\ Num \in Nat /\ Num \in Sizes
      /\ Creations(Arm, Num) \in Nat /\ MaxHiccups \in Nat
      /\ \A i \in 0 .. Creations(Arm, Num) - 1 : <<Arm, i>> \in Workers
  BY CellInProgress, LadderAssumption
<1>1. CASE Create
  <2>1. todo' = todo
    BY <1>1 DEF Create
  <2>2. <<Arm, made>> \in Workers /\ made \in Nat /\ made + 1 \in 0 .. Creations(Arm, Num)
    BY <1>0, <1>1 DEF Create
  <2>3. WorkersOK(worker') /\ failures' \in SUBSET Workers
    <3>1. CASE Created(<<Arm, made>>)
      BY <1>0, <2>2, <3>1 DEF Created, Absent, WorkersOK, WorkerType
    <3>2. CASE UNCHANGED <<worker, failures>>
      BY <3>2 DEF WorkersOK, WorkerType
    <3>. QED BY <1>1, <3>1, <3>2 DEF Create
  <2>4. made' \in 0 .. Creations(Arm, Num) /\ pc' \in {"create", "down"}
        /\ UNCHANGED <<seen, took, cameBack, hiccups>>
    BY <1>1, <2>2 DEF Create
  <2>. QED BY <2>1, <2>3, <2>4, SameCell DEF WorkersOK, WorkerType
<1>2. CASE CreateDone
  BY <1>2, SameCell DEF CreateDone
<1>3. CASE Wait
  BY <1>3, SameCell DEF Wait
<1>4. CASE Sample
  <2>1. todo' = todo /\ took' = {} /\ cameBack' = {} /\ pc' \in {"converge", "down"}
        /\ UNCHANGED <<made, worker, failures, hiccups>>
    BY <1>4 DEF Sample
  <2>. QED BY <1>0, <1>4, <2>1, SampleTyped, SameCell DEF Arms
<1>5. CASE Judge
  BY <1>5, SameCell DEF Judge
<1>6. CASE OpenWindows
  BY <1>6, SameCell DEF OpenWindows
<1>7. CASE CloseWindow
  BY <1>7, SameCell DEF CloseWindow
<1>8. CASE RequestFails
  <2>1. hiccups' \in 0 .. MaxHiccups
    BY <1>0, <1>8 DEF RequestFails
  <2>. QED BY <1>8, <2>1, SameCell DEF RequestFails
<1>9. CASE Delete
  <2>1. hiccups' \in 0 .. MaxHiccups
    BY <1>0, <1>9 DEF Delete
  <2>2. CASE NextCell /\ UNCHANGED worker
    BY <2>1, <2>2, NextCellTyped
  <2>3. CASE /\ worker' = [w \in Workers |-> IF w \in OfArms(DownSelects)
                                            THEN [worker[w] EXCEPT !.dying = TRUE]
                                            ELSE worker[w]]
             /\ pc' = "gone"
             /\ UNCHANGED <<todo, made, seen, took, cameBack, failures, hiccups>>
    <3>1. WorkersOK(worker')
      BY <2>3 DEF WorkersOK, WorkerType
    <3>. QED BY <2>1, <2>3, <3>1, SameCell DEF WorkersOK, WorkerType
  <2>. QED BY <1>9, <2>2, <2>3 DEF Delete
<1>10. CASE WaitGone
  BY <1>10, NextCellTyped DEF WaitGone
<1>11. CASE \E x \in Workers : Start(x) \/ Refuse(x) \/ Fail(x) \/ Crash(x) \/ Vanish(x)
  BY <1>11, WorkersTyped, SameCell DEF harness, WorkersOK, WorkerType
<1>12. CASE \E i \in 0 .. Num - 1 : Relays(i)
  BY <1>0, <1>12, SameCell DEF Relays
<1>13. CASE UNCHANGED vars
  BY <1>13, SameCell DEF vars
<1>. QED
  BY <1>1, <1>2, <1>3, <1>4, <1>5, <1>6, <1>7, <1>8, <1>9, <1>10, <1>11, <1>12, <1>13
  DEF Next, HarnessStep, WorkerStep

-----------------------------------------------------------------------------
(***************************************************************************)
(* What the workers may do to a cell behind the harness's back.            *)
(***************************************************************************)

\* A worker that is not being deleted stays, with its spec; a process that was
\* not there, or has changed its pod, has started since the count; a program
\* that runs keeps its process; one that failed stays failed, and only one that
\* failed is a new failure.
Stays(w) ==
    /\ worker'[w].proc => \/ worker[w].proc /\ worker'[w].pod = worker[w].pod
                          \/ w \in cameBack'
    /\ Present(w) /\ ~worker[w].dying =>
         /\ worker'[w].phase # "absent" /\ ~worker'[w].dying /\ worker'[w].spec = worker[w].spec
         /\ w[1] \in PerseidArms /\ worker[w].proc => worker'[w].proc
         /\ worker[w].phase = "failed" => worker'[w].phase = "failed"
    /\ w \in failures' => w \in failures \/ worker'[w].phase = "failed"

\* That is all a worker's step does, and it leaves a recorded cell's failures.
LEMMA WorkersStay ==
    ASSUME TypeOK, ShapeInv, NEW x \in Workers,
           Start(x) \/ Refuse(x) \/ Fail(x) \/ Crash(x) \/ Vanish(x)
    PROVE  /\ \A w \in Workers : Stays(w)
           /\ ShapeInv' /\ cameBack \subseteq cameBack'
           /\ pc = "recorded" => failures' = failures
           /\ UNCHANGED harness
<1>0. worker \in [Workers -> WorkerType]
  BY DEF TypeOK, WorkerType
<1>1. CASE Start(x)
  <2>1. PICK pod \in {"here", "away", "bare"} :
          worker' = [worker EXCEPT ![x].phase = "up", ![x].proc = TRUE, ![x].pod = pod]
    BY <1>1 DEF Start
  <2>2. /\ worker'[x] = [phase |-> "up", dying |-> worker[x].dying, proc |-> TRUE,
                         spec |-> worker[x].spec, pod |-> pod]
        /\ \A w \in Workers \ {x} : worker'[w] = worker[w]
    BY <1>0, <2>1 DEF WorkerType
  <2>3. /\ worker[x].phase = "starting" /\ cameBack' = cameBack \cup {x}
        /\ failures' = failures /\ UNCHANGED harness
    BY <1>1 DEF Start
  <2>4. \A w \in Workers : Stays(w)
    BY <2>2, <2>3 DEF Stays, Present
  <2>5. ShapeInv'
    BY <2>2 DEF ShapeInv, Up
  <2>. QED BY <2>3, <2>4, <2>5
<1>2. CASE Refuse(x)
  <2>1. /\ worker[x].phase = "starting" /\ worker' = [worker EXCEPT ![x].phase = "refused"]
        /\ UNCHANGED <<cameBack, failures>> /\ UNCHANGED harness
    BY <1>2 DEF Refuse
  <2>2. \A w \in Workers : Stays(w)
    BY <1>0, <2>1 DEF Stays, Present, WorkerType
  <2>3. ShapeInv'
    BY <1>0, <2>1 DEF ShapeInv, Up, WorkerType
  <2>. QED BY <2>1, <2>2, <2>3
<1>3. CASE Fail(x)
  <2>1. /\ worker[x].phase = "up" /\ worker' = [worker EXCEPT ![x].phase = "failed"]
        /\ failures' = IF pc \in {"recorded", "down", "gone", "end"}
                       THEN failures ELSE failures \cup {x}
        /\ cameBack' = cameBack /\ UNCHANGED harness
    BY <1>3 DEF Fail, Up
  <2>2. \A w \in Workers : Stays(w)
    BY <1>0, <2>1 DEF Stays, Present, WorkerType
  <2>3. ShapeInv'
    BY <1>0, <2>1 DEF ShapeInv, Up, WorkerType
  <2>. QED BY <2>1, <2>2, <2>3
<1>4. CASE Crash(x)
  <2>1. /\ x[1] \in CRArms /\ worker[x].phase = "up"
        /\ worker' = [worker EXCEPT ![x].phase = "starting", ![x].proc = FALSE, ![x].pod = "none"]
        /\ UNCHANGED <<cameBack, failures>> /\ UNCHANGED harness
    BY <1>4 DEF Crash, Up
  <2>2. /\ worker'[x] = [phase |-> "starting", dying |-> worker[x].dying, proc |-> FALSE,
                         spec |-> worker[x].spec, pod |-> "none"]
        /\ \A w \in Workers \ {x} : worker'[w] = worker[w]
    BY <1>0, <2>1 DEF WorkerType
  <2>3. x[1] \notin PerseidArms
    BY <2>1 DEF CRArms, PerseidArms
  <2>4. \A w \in Workers : Stays(w)
    <3>1. \A w \in Workers \ {x} : Stays(w)
      BY <2>1, <2>2 DEF Stays, Present
    <3>2. worker[x].phase # "failed" /\ ~worker'[x].proc /\ worker'[x].phase # "absent"
      BY <2>1, <2>2
    <3>3. worker'[x].dying = worker[x].dying /\ worker'[x].spec = worker[x].spec
      BY <2>2
    <3>4. Stays(x)
      BY <2>1, <2>3, <3>2, <3>3 DEF Stays
    <3>. QED BY <3>1, <3>4
  <2>5. ShapeInv'
    BY <2>2 DEF ShapeInv, Up
  <2>. QED BY <2>1, <2>4, <2>5
<1>5. CASE Vanish(x)
  <2>1. /\ worker[x].dying /\ worker' = [worker EXCEPT ![x] = Absent]
        /\ UNCHANGED <<cameBack, failures>> /\ UNCHANGED harness
    BY <1>5 DEF Vanish
  <2>2. \A w \in Workers : Stays(w)
    BY <1>0, <2>1 DEF Stays, Present, Absent
  <2>3. ShapeInv'
    BY <1>0, <2>1 DEF ShapeInv, Up, Absent
  <2>. QED BY <2>1, <2>2, <2>3
<1>. QED BY <1>1, <1>2, <1>3, <1>4, <1>5

\* The pods of some arms that the sampler finds now, and those whose process is
\* new to it, when nothing but workers moved.
LEMMA ProcessesCameBack ==
    ASSUME NEW arms, \A w \in Workers : Stays(w),
           \A w \in Workers : worker[w].proc => Present(w),
           Processes(arms) \subseteq cameBack, cameBack \subseteq cameBack'
    PROVE  Processes(arms)' \subseteq cameBack'
<1>. SUFFICES ASSUME NEW w \in Workers, w[1] \in arms, worker'[w].proc, worker'[w].pod # "away",
                     w \notin cameBack'
              PROVE  FALSE
  BY DEF Processes, Pods, OfArms
<1>1. worker[w].proc /\ worker[w].pod # "away"
  BY DEF Stays
<1>2. w \in Processes(arms)
  BY <1>1 DEF Processes, Pods, OfArms
<1>. QED BY <1>2

-----------------------------------------------------------------------------
(***************************************************************************)
(* The invariants over a step that leaves the workers alone.               *)
(***************************************************************************)

\* Outside a cell's own phases nothing is claimed, nor before it made anything.
LEMMA Leaving ==
    ASSUME pc' \in {"down", "gone", "end"} \/ (pc' = "create" /\ made' = 0)
    PROVE  CreatedInv' /\ CountedInv' /\ JudgedInv' /\ NoFailureRecorded'
<1>1. /\ pc' \notin Counted /\ pc' \notin Judged /\ pc' # "recorded"
      /\ pc' \notin InCell \ {"create"}
  BY DEF Counted, Judged, InCell, Windows
<1>2. pc' \in InCell => 0 .. made' - 1 = {}
  BY DEF Counted, Judged, InCell, Windows
<1>. QED BY <1>1, <1>2 DEF CreatedInv, CountedInv, JudgedInv, NoFailureRecorded

\* A worker keeps its shape while nobody touches it.
LEMMA ShapeKept == ShapeInv /\ UNCHANGED worker => ShapeInv'
BY DEF ShapeInv, Up

\* What the cell created it keeps from phase to phase.
LEMMA CreatedKept ==
    ASSUME CreatedInv, pc \in InCell, pc = "create" => made = Creations(Arm, Num),
           UNCHANGED <<todo, made, worker, failures>>
    PROVE  CreatedInv'
BY SameCell DEF CreatedInv, Present

\* The counts mean what they did.
LEMMA CountedKept ==
    ASSUME CountedInv, pc \in Counted, UNCHANGED <<todo, worker, seen, cameBack>>
    PROVE  CountedInv'
BY SameCell DEF CountedInv, Processes, Pods, OfArms, Present

\* And so does the verdict.
LEMMA JudgedKept ==
    ASSUME JudgedInv, pc \in Judged, UNCHANGED <<todo, worker, seen>>
    PROVE  JudgedInv'
BY SameCell DEF JudgedInv

\* Preflight's counts mean what CountedInv says: a count of zero finds nobody,
\* and the pods of a Perseid arm were looked at.
LEMMA SampleCounts ==
    ASSUME TypeOK, ShapeInv, Sample
    PROVE  CountedInv'
<1>. DEFINE mine == Processes({Arm})
            theirs == Processes(Arms \ {Arm})
<1>1. /\ seen'.found = Cardinality(mine) /\ seen'.foreign = Cardinality(theirs)
      /\ todo' = todo /\ worker' = worker
      /\ pc' = IF PodsCheckOut THEN "converge" ELSE "down"
  BY DEF Sample, Arms
<1>2. mine \in SUBSET Workers /\ theirs \in SUBSET Workers
  BY DEF Processes, Pods, OfArms
<1>3. (seen'.found = 0 => mine = {}) /\ (seen'.foreign = 0 => theirs = {})
  BY <1>1, <1>2, Counting
<1>4. mine' = mine /\ theirs' = theirs /\ Pods({Arm})' = Pods({Arm}) /\ Arm' = Arm /\ Num' = Num
  BY <1>1, SameCell DEF Processes, Pods, OfArms, Present
<1>5. ASSUME PodsCheckOut, Arm \in PerseidArms, Num > 0, NEW w \in Pods({Arm})
      PROVE  worker[w].pod = "here"
  <2>1. worker[w].pod # "away" /\ worker[w].pod # "bare"
    BY <1>5 DEF PodsCheckOut, PodPlacement, ConfigReachesGuest
  <2>2. worker[w].pod \in {"none", "here", "away", "bare"} /\ worker[w].pod # "none"
    BY DEF TypeOK, ShapeInv, Pods, OfArms
  <2>. QED BY <2>1, <2>2
<1>6. pc' \in Counted => PodsCheckOut
  BY <1>1 DEF Counted, Judged, Windows
<1>. QED BY <1>1, <1>3, <1>4, <1>5, <1>6 DEF CountedInv

\* Whoever is healthy runs, if it is arm B's, and has not failed.
LEMMA HealthyRuns ==
    ASSUME TypeOK, ShapeInv, CreatedInv, pc \in InCell \ {"create"}, Healthy, Arm = "b-perseid"
    PROVE  \A w \in Mine : Up(w) /\ worker[w].proc
<1>1. Mine = {<<Arm, i>> : i \in 0 .. made - 1} /\ Mine \subseteq Workers
  BY CellInProgress DEF Mine, CreatedInv, Instances, Creations, Consolidated, TypeOK
<1>2. ASSUME NEW w \in Mine PROVE Up(w) /\ worker[w].proc
  <2>1. PICK i \in 0 .. made - 1 : w = <<Arm, i>>
    BY <1>1
  <2>2. w \in Workers /\ Present(w) /\ w[1] \in PerseidArms
    BY <1>1, <2>1 DEF CreatedInv, InCell, PerseidArms
  <2>. QED BY <2>2 DEF Healthy, OfArms, PerseidArms, ShapeInv
<1>. QED BY <1>2

-----------------------------------------------------------------------------
(***************************************************************************)
(* The inductive invariant.                                                *)
(***************************************************************************)

\* A worker's step keeps what the cell relies on: its own programs are not
\* being deleted, so they stay, and whoever starts is remembered to have.
LEMMA WorkersKeep ==
    ASSUME IInv, NEW x \in Workers,
           Start(x) \/ Refuse(x) \/ Fail(x) \/ Crash(x) \/ Vanish(x)
    PROVE  ShapeInv' /\ CreatedInv' /\ CountedInv' /\ JudgedInv' /\ NoFailureRecorded'
<1>. USE DEF IInv
<1>1. /\ \A w \in Workers : Stays(w)
      /\ ShapeInv' /\ cameBack \subseteq cameBack'
      /\ pc = "recorded" => failures' = failures
      /\ todo' = todo /\ pc' = pc /\ made' = made /\ seen' = seen
  BY WorkersStay DEF harness
<1>2. /\ Arm' = Arm /\ Num' = Num /\ Mine' = Mine /\ Creations(Arm, Num)' = Creations(Arm, Num)
      /\ Instances(Arm, Num)' = Instances(Arm, Num)
  BY <1>1, SameCell
<1>3. /\ \A i \in 0 .. made - 1 : <<Arm, i>> \in Workers
      /\ Mine \subseteq Workers /\ Arm \in Arms
  BY CellInProgress DEF TypeOK
<1>4. \A w \in Workers : worker[w].proc => Present(w)
  BY DEF TypeOK, Present
<1>5. CreatedInv'
  <2>1. ASSUME Arm = "b-perseid", pc \in InCell, NEW i \in 0 .. made - 1
        PROVE  /\ worker'[<<Arm, i>>].phase # "absent" /\ ~worker'[<<Arm, i>>].dying
               /\ worker'[<<Arm, i>>].spec = Num
               /\ <<Arm, i>> \in failures' => worker'[<<Arm, i>>].phase = "failed"
    BY <1>1, <1>3, <2>1 DEF CreatedInv, Stays
  <2>. QED BY <1>1, <1>2, <2>1 DEF CreatedInv, Present
<1>6. CountedInv'
  <2>1. ASSUME pc \in Counted, seen.foreign = 0 PROVE Processes(Arms \ {Arm})' \subseteq cameBack'
    BY <1>1, <1>2, <1>4, <2>1, ProcessesCameBack DEF CountedInv
  <2>2. ASSUME pc \in Counted, seen.found = 0 PROVE Processes({Arm})' \subseteq cameBack'
    BY <1>1, <1>2, <1>4, <2>2, ProcessesCameBack DEF CountedInv
  <2>3. ASSUME pc \in Counted, Arm \in PerseidArms, Num > 0,
               NEW w \in Pods({Arm})', w \notin cameBack'
        PROVE  worker'[w].pod = "here"
    <3>1. w \in Workers /\ w[1] = Arm /\ worker'[w].proc
      BY <1>2, <2>3 DEF Pods, OfArms
    <3>2. worker[w].proc /\ worker'[w].pod = worker[w].pod /\ w \notin cameBack
      BY <1>1, <2>3, <3>1 DEF Stays
    <3>3. w \in Pods({Arm})
      BY <1>4, <3>1, <3>2 DEF Pods, OfArms
    <3>. QED BY <2>3, <3>2, <3>3 DEF CountedInv
  <2>. QED BY <1>1, <1>2, <2>1, <2>2, <2>3 DEF CountedInv
<1>7. JudgedInv'
  <2>1. ASSUME pc \in Judged, Arm = "b-perseid", NEW w \in Mine PROVE worker'[w].proc
    <3>1. PICK i \in 0 .. made - 1 : w = <<Arm, i>>
      BY <2>1 DEF Mine, CreatedInv, Instances, Creations, Consolidated, InCell, Counted, Judged, Windows
    <3>2. w \in Workers /\ Present(w) /\ ~worker[w].dying /\ w[1] \in PerseidArms
      BY <1>3, <2>1, <3>1 DEF CreatedInv, PerseidArms, InCell, Counted
    <3>3. worker[w].proc
      BY <2>1 DEF JudgedInv
    <3>. QED BY <1>1, <3>2, <3>3 DEF Stays
  <2>. QED BY <1>1, <1>2, <2>1 DEF JudgedInv
<1>8. NoFailureRecorded'
  BY <1>1, <1>2 DEF NoFailureRecorded
<1>. QED BY <1>1, <1>5, <1>6, <1>7, <1>8

\* Creating a worker, or finding one of another arm's kind in its place.
LEMMA CreateKeeps ==
    ASSUME IInv, Create
    PROVE  ShapeInv' /\ CreatedInv' /\ CountedInv' /\ JudgedInv' /\ NoFailureRecorded'
<1>. DEFINE w == <<Arm, made>>
<1>0. /\ pc = "create" /\ todo' = todo /\ pc' \in {"create", "down"} /\ made \in Nat
      /\ worker \in [Workers -> WorkerType]
      /\ w \in Workers /\ Arm' = Arm /\ Num' = Num
  BY CellInProgress, SameCell DEF IInv, TypeOK, Create, WorkerType
<1>1. CASE Created(w) /\ made' = made + 1
  <2>1. /\ worker'[w].phase = "starting" /\ ~worker'[w].dying /\ ~worker'[w].proc
        /\ worker'[w].spec = Num /\ w \notin failures'
        /\ \A x \in Workers \ {w} : worker'[x] = worker[x] /\ (x \in failures' => x \in failures)
    BY <1>0, <1>1 DEF Created, Absent
  <2>2. ShapeInv'
    BY <2>1 DEF IInv, ShapeInv, Up
  <2>3. ASSUME Arm = "b-perseid", NEW i \in 0 .. made' - 1
        PROVE  /\ worker'[<<Arm, i>>].phase # "absent" /\ ~worker'[<<Arm, i>>].dying
               /\ worker'[<<Arm, i>>].spec = Num
               /\ <<Arm, i>> \in failures' => worker'[<<Arm, i>>].phase = "failed"
    <3>1. CASE i = made
      BY <2>1, <3>1
    <3>2. CASE i # made
      <4>1. i \in 0 .. made - 1 /\ <<Arm, i>> \in Workers \ {w}
        BY <1>0, <1>1, <3>2, CellInProgress DEF IInv, TypeOK
      <4>. QED BY <1>0, <2>1, <2>3, <4>1 DEF IInv, CreatedInv, InCell, Present
    <3>. QED BY <3>1, <3>2
  <2>4. CreatedInv'
    BY <1>0, <2>3 DEF CreatedInv, InCell, Counted, Judged, Windows, Present
  <2>. QED BY <1>0, <2>2, <2>4 DEF CountedInv, JudgedInv, NoFailureRecorded, Counted, Judged, Windows
<1>2. CASE Arm # "b-perseid" /\ UNCHANGED <<worker, failures>>
  <2>1. CreatedInv'
    BY <1>0, <1>2 DEF CreatedInv, InCell, Counted, Judged, Windows
  <2>. QED
    BY <1>0, <1>2, <2>1, ShapeKept
    DEF IInv, CountedInv, JudgedInv, NoFailureRecorded, Counted, Judged, Windows
<1>3. CASE pc' = "down" /\ UNCHANGED worker
  BY <1>3, Leaving, ShapeKept DEF IInv
<1>. QED BY <1>1, <1>2, <1>3 DEF Create

\* Every other step of the harness, and with them every step.
LEMMA StepKeeps == IInv /\ [Next]_vars => IInv'
<1>. SUFFICES ASSUME IInv, [Next]_vars PROVE IInv'
  OBVIOUS
<1>. USE DEF IInv
<1>t. TypeOK'
  BY StepTyped
<1>p. /\ Judged \subseteq Counted /\ Counted \subseteq InCell /\ "create" \notin Counted
      /\ "converge" \in Counted \ Judged /\ "wait" \notin Counted /\ "sample" \notin Counted
      /\ {"create", "wait", "sample", "recorded"} \subseteq InCell
      /\ {"create", "recorded"} \cap Judged = {}
      /\ "recorded" \notin Counted /\ {"settle", "idle", "change"} \subseteq Judged
      /\ {"wait", "sample"} \cap Judged = {}
  BY DEF Judged, Counted, InCell, Windows
<1>1. CASE Create
  BY <1>t, <1>1, CreateKeeps
<1>2. CASE CreateDone
  <2>1. CreatedInv' /\ ShapeInv'
    BY <1>2, <1>p, CreatedKept, ShapeKept DEF CreateDone
  <2>. QED BY <1>t, <1>2, <1>p, <2>1 DEF CreateDone, CountedInv, JudgedInv, NoFailureRecorded
<1>3. CASE Wait
  <2>1. CASE pc' = "down"
    BY <1>t, <1>3, <2>1, Leaving, ShapeKept DEF Wait
  <2>2. CASE pc' = "sample"
    <3>1. CreatedInv' /\ ShapeInv'
      BY <1>3, <1>p, CreatedKept, ShapeKept DEF Wait
    <3>. QED BY <1>t, <2>2, <1>p, <3>1 DEF CountedInv, JudgedInv, NoFailureRecorded
  <2>. QED BY <1>3, <2>1, <2>2 DEF Wait
<1>4. CASE Sample
  <2>1. CountedInv'
    BY <1>4, SampleCounts
  <2>2. CreatedInv' /\ ShapeInv'
    BY <1>4, <1>p, CreatedKept, ShapeKept DEF Sample
  <2>3. pc' \notin Judged /\ pc' # "recorded"
    BY <1>4 DEF Sample, Judged, Windows
  <2>. QED BY <1>t, <2>1, <2>2, <2>3 DEF JudgedInv, NoFailureRecorded
<1>5. CASE \E i \in 0 .. Num - 1 : Relays(i)
  <2>1. pc = "converge" /\ pc' = "converge"
        /\ UNCHANGED <<todo, made, worker, seen, cameBack, failures>>
    BY <1>5 DEF Relays
  <2>. QED BY <1>t, <1>p, <2>1, CreatedKept, CountedKept, ShapeKept DEF JudgedInv, NoFailureRecorded
<1>6. CASE Judge
  <2>1. pc = "converge" /\ UNCHANGED <<todo, made, worker, seen, cameBack, failures>>
    BY <1>6 DEF Judge
  <2>2. CASE pc' = "down"
    BY <1>t, <2>1, <2>2, Leaving, ShapeKept
  <2>3. CASE pc' = "settle"
    <3>1. Healthy /\ seen.found = Instances(Arm, Num) /\ seen.foreign = 0
      BY <1>6, <2>3 DEF Judge
    <3>2. Arm = "b-perseid" => \A w \in Mine : worker[w].proc
      BY <1>p, <2>1, <3>1, HealthyRuns
    <3>3. JudgedInv'
      BY <2>1, <3>1, <3>2, SameCell DEF JudgedInv
    <3>. QED
      BY <1>t, <1>p, <2>1, <2>3, <3>3, CreatedKept, CountedKept, ShapeKept DEF NoFailureRecorded
  <2>. QED BY <1>6, <2>2, <2>3 DEF Judge
<1>7. CASE OpenWindows
  BY <1>t, <1>7, <1>p, CreatedKept, CountedKept, JudgedKept, ShapeKept
  DEF OpenWindows, NoFailureRecorded
<1>8. CASE CloseWindow
  <2>1. pc \in Judged /\ pc # "create" /\ UNCHANGED <<todo, made, worker, seen, cameBack, failures>>
    BY <1>8 DEF CloseWindow, Judged, Windows
  <2>2. CASE pc' = "down"
    BY <1>t, <2>1, <2>2, Leaving, ShapeKept
  <2>3. CASE pc' = "change"
    BY <1>t, <1>p, <2>1, <2>3, CreatedKept, CountedKept, JudgedKept, ShapeKept
    DEF NoFailureRecorded
  <2>4. CASE pc' = "recorded"
    <3>1. Healthy
      BY <1>8, <2>4 DEF CloseWindow
    <3>2. ASSUME Arm = "b-perseid", NEW w \in Mine, w \in failures PROVE FALSE
      <4>1. worker[w].phase = "up"
        BY <1>p, <2>1, <3>1, <3>2, HealthyRuns DEF Up
      <4>2. PICK i \in 0 .. made - 1 : w = <<Arm, i>>
        BY <1>p, <2>1, <3>2 DEF Mine, CreatedInv, Instances, Creations, Consolidated
      <4>. QED BY <1>p, <2>1, <3>2, <4>1, <4>2 DEF CreatedInv
    <3>3. NoFailureRecorded'
      BY <2>1, <3>2, SameCell DEF NoFailureRecorded
    <3>. QED
      BY <1>t, <1>p, <2>1, <2>4, <3>3, CreatedKept, ShapeKept DEF CountedInv, JudgedInv
  <2>. QED BY <1>8, <2>2, <2>3, <2>4 DEF CloseWindow
<1>9. CASE RequestFails
  BY <1>t, <1>9, Leaving, ShapeKept DEF RequestFails
<1>10. CASE Delete
  <2>1. ShapeInv'
    <3>1. \A w \in Workers : /\ worker'[w].phase = worker[w].phase
                             /\ worker'[w].proc = worker[w].proc
                             /\ worker'[w].pod = worker[w].pod
      BY <1>10 DEF Delete, TypeOK
    <3>. QED BY <3>1 DEF ShapeInv, Up
  <2>2. pc' = "gone" \/ NextCell
    BY <1>10 DEF Delete
  <2>3. pc' \in {"down", "gone", "end"} \/ (pc' = "create" /\ made' = 0)
    BY <2>2, NextCellTyped
  <2>. QED BY <1>t, <2>1, <2>3, Leaving
<1>11. CASE WaitGone
  <2>1. pc' \in {"end", "create"} /\ made' = 0 /\ worker' = worker
    BY <1>11, NextCellTyped DEF WaitGone
  <2>. QED BY <1>t, <2>1, Leaving, ShapeKept
<1>12. CASE \E x \in Workers : Start(x) \/ Refuse(x) \/ Fail(x) \/ Crash(x) \/ Vanish(x)
  BY <1>t, <1>12, WorkersKeep
<1>13. CASE UNCHANGED vars
  BY <1>t, <1>13, SameCell
  DEF vars, ShapeInv, CreatedInv, CountedInv, JudgedInv, NoFailureRecorded,
      Up, Present, Processes, Pods, OfArms
<1>. QED
  BY <1>1, <1>2, <1>3, <1>4, <1>5, <1>6, <1>7, <1>8, <1>9, <1>10, <1>11, <1>12, <1>13
  DEF Next, HarnessStep, WorkerStep

\* The invariant holds of every reachable state: of a cell in creation, of the
\* counts of preflight and of the verdict on them.
THEOREM InductiveInvariant == Spec => []IInv
<1>1. Init => IInv
  <2>. SUFFICES ASSUME Init PROVE IInv
    OBVIOUS
  <2>1. TypeOK
    BY InitTyped
  <2>2. \A w \in Workers : worker[w] = Absent
    BY DEF Init
  <2>. QED
    BY <2>1, <2>2 DEF Init, IInv, Absent, ShapeInv, CreatedInv, CountedInv, JudgedInv,
       NoFailureRecorded, Up, InCell, Counted, Judged, Windows
<1>. QED BY <1>1, StepKeeps, PTL DEF Spec

\* The harness and its workers stay within their types, and no count of
\* processes exceeds the workers of one arm.
THEOREM TypeCorrect == Spec => []TypeOK
<1>1. IInv => TypeOK
  BY DEF IInv
<1>. QED BY <1>1, InductiveInvariant, PTL

\* Beside the arm a window describes stands no process that preflight could
\* have counted: those of other arms, and of any arm in a baseline of size
\* zero, have all started since (preflight's negative control in run.go).
THEOREM StrangersCameLater == Spec => []ForeignersCameBack
<1>1. IInv => ForeignersCameBack
  <2>. SUFFICES ASSUME IInv, pc \in Windows
                PROVE  LET described == IF Num = 0 THEN {} ELSE {Arm} IN
                       Processes((CRArms \cup PerseidArms) \ described) \subseteq cameBack
    BY DEF ForeignersCameBack
  <2>1. Processes(Arms \ {Arm}) \subseteq cameBack
    BY DEF IInv, JudgedInv, CountedInv, Counted, Judged
  <2>2. Num = 0 => Processes({Arm}) \subseteq cameBack
    BY DEF IInv, JudgedInv, CountedInv, Counted, Judged, Instances
  <2>3. Processes(Arms) = Processes(Arms \ {Arm}) \cup Processes({Arm} \cap Arms)
    BY DEF Processes, Pods, OfArms
  <2>4. Processes({Arm} \cap Arms) \subseteq Processes({Arm})
    BY DEF Processes, Pods, OfArms
  <2>. QED BY <2>1, <2>2, <2>3, <2>4 DEF Arms
<1>. QED BY <1>1, InductiveInvariant, PTL

\* The programs arm B's windows measure are the ones its cell declared, whatever
\* earlier cells and failed teardowns left: AlreadyExists is an error to
\* UpPerseids, and what it created itself nobody is deleting (perseid.go).
THEOREM ProgramsAreFresh == Spec => []MeasuresFreshPrograms
<1>1. IInv => MeasuresFreshPrograms
  <2>. SUFFICES ASSUME IInv, pc \in Windows, Arm = "b-perseid", NEW w \in Mine
                PROVE  /\ Present(w) /\ ~worker[w].dying /\ worker[w].spec = Num
                       /\ w \notin cameBack => worker[w].pod = "here"
    BY DEF MeasuresFreshPrograms
  <2>1. pc \in InCell \ {"create"} /\ pc \in Judged /\ pc \in Counted
    BY DEF InCell, Counted, Judged, Windows
  <2>2. PICK i \in 0 .. made - 1 : w = <<Arm, i>>
    BY <2>1 DEF IInv, Mine, CreatedInv, Instances, Creations, Consolidated
  <2>3. Present(w) /\ ~worker[w].dying /\ worker[w].spec = Num
    BY <2>1, <2>2 DEF IInv, CreatedInv
  <2>4. w \in Workers /\ Num > 0 /\ Arm \in PerseidArms
    BY CellInProgress DEF IInv, TypeOK, Mine, Instances, Consolidated, PerseidArms
  <2>5. w \in Pods({Arm})
    BY <2>1, <2>2, <2>3, <2>4 DEF IInv, JudgedInv, Pods, OfArms
  <2>. QED BY <2>1, <2>3, <2>4, <2>5 DEF IInv, CountedInv
<1>. QED BY <1>1, InductiveInvariant, PTL

\* No program of arm B fails between its creation and the close of the change
\* window in a cell that ends recorded: Failed is terminal, and CheckHealth
\* runs at the last boundary.
THEOREM FailuresAreCaught == Spec => []NoFailureRecorded
<1>1. IInv => NoFailureRecorded
  BY DEF IInv
<1>. QED BY <1>1, InductiveInvariant, PTL
=============================================================================
