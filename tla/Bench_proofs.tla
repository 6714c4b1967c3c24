----------------------------- MODULE Bench_proofs -----------------------------
(***************************************************************************)
(* What the commands of cmd/bench may claim.                               *)
(*                                                                         *)
(* Bench: what `run` and `size` may put in a record and a table, for any   *)
(* number of processes, addresses and lines, and an interrupt anywhere.    *)
(* The walk of /proc keeps whom it should and counts the text they share   *)
(* once, connections are counted between bounds, code is counted as cloc   *)
(* does, and what is printed passed.  Each compares the end of something   *)
(* with what happened while it ran, so each needs to know how far it has   *)
(* come: WalkInv and PssInv, CountInv and LineInv say that of a walk, a    *)
(* count and a file, RunInv of the command around them.                    *)
(*                                                                         *)
(* Controls, the two answers that open a window, comes last.               *)
(***************************************************************************)
EXTENDS Bench, Controls, Sums_proofs

\* While nobody but the workers of the whole walk has shared the text, each PSS
\* known is its process's own pages and an equal share.
PssInv ==
    sharers = always =>
        \A p \in DOMAIN samples :
            samples[p] # Unknown => samples[p] = Private + Shared \div Cardinality(always)

\* A walk has yet to read, or has kept, whoever was a worker throughout it,
\* and only those that were one at some moment; the pid in progress has been
\* one since its command line was read.
WalkInv ==
    /\ Walking => /\ entries # {}
                  /\ always \subseteq Workers /\ Workers \subseteq ever /\ Sharers \subseteq sharers
                  /\ always \subseteq DOMAIN samples \cup entries
                  /\ DOMAIN samples \subseteq ever
    /\ stage \in {"status", "stat", "rollup"} => This \in ever
    /\ PssInv
    /\ PopulationBracket

\* The processes counted, and the addresses the one in progress was asked for.
Counted == DOMAIN samples \ tally.left
Asked == {apiEndpoints[j] : j \in 1 .. tally.next - 1}
Tallied == Counted \X Range(apiEndpoints)
InHand == {p \in tally.left : p = Min(tally.left)} \X Asked

\* Between CountConns and the end of the count the totals lie between what was
\* open throughout and what was open at some moment, as far as it has come.
CountInv ==
    /\ pc # "conns" => tally = NoTally
    /\ pc = "conns" =>
         /\ stage = "sampled"
         /\ tally.next \in 1 .. Len(apiEndpoints)
         /\ tally.left = {} => tally.next = 1
         /\ tally.next = 1 => tally.n = 0
         /\ tally.left # {} => kept \subseteq conns /\ conns \subseteq held
         /\ command.server # Service =>
              /\ tally.total <= Cardinality(held \cap Tallied)
              /\ tally.n <= Cardinality(held \cap InHand)
         /\ tally.complete =>
              /\ tally.total >= Cardinality(kept \cap Tallied)
              /\ tally.n >= Cardinality(kept \cap InHand)

\* Without a tangled line the counter is inside a comment when the compiler is.
LineInv == ~tangled => inBlock = comment /\ count.code = cloc

\* A window that was not measured to its end was interrupted, and says so.
Marked(w) == w.full \/ (~w.measured /\ w.noted)
Good(w) == w.full \/ (command.arm = "cr" /\ Marked(w))

InWindow == {"open", "before", "window", "close", "conns"}

\* What a command has done by each pc, while nothing has failed.
RunInv ==
    /\ preErr => runErr
    /\ runErr => pc \in {"record", "exit"} /\ ~printed
    /\ pc = "print" => disk
    /\ printed => pc = "exit" /\ disk
    /\ command.name = "size" =>
         /\ pc \in {"start", "sizes", "record", "print", "exit"} /\ windows = << >>
         /\ (pc \in {"record", "print", "exit"} /\ ~runErr) => file = "counted"
    /\ (command.name = "run" /\ ~runErr) =>
         /\ pc # "sizes"
         /\ pc \in {"start", "count", "settle"} => windows = << >>
         /\ pc \in InWindow \cup {"health"} => window.name \in {"idle", "change"}
         /\ pc = "close" => window.full \/ cancelled
         /\ pc = "conns" => Marked(window) /\ (window.full \/ cancelled)
         /\ (pc \in InWindow /\ window.name = "idle") => windows = << >>
         /\ (pc \in InWindow /\ window.name = "change") =>
              Len(windows) = 1 /\ windows[1].name = "idle" /\ Good(windows[1])
         /\ pc = "health" =>
              /\ Len(windows) = IF window.name = "idle" THEN 1 ELSE 2
              /\ windows[1].name = "idle"
              /\ window.name = "change" => windows[2].name = "change" /\ Good(windows[1])
              /\ LET last == windows[Len(windows)] IN
                 Marked(last) /\ (last.full \/ cancelled)
         /\ pc \in {"record", "print", "exit"} =>
              /\ Len(windows) = 2
              /\ windows[1].name = "idle" /\ windows[2].name = "change"
              /\ Good(windows[1]) /\ Good(windows[2])

IInv == TypeOK /\ WalkInv /\ CountInv /\ LineInv /\ RunInv

-----------------------------------------------------------------------------
(***************************************************************************)
(* Pids and their counts.                                                  *)
(***************************************************************************)

\* The assumptions on the constants, as the proofs use them.
LEMMA BenchConstants ==
    /\ Pids \subseteq Nat /\ IsFiniteSet(Pids)
    /\ Shared \in Nat /\ Private \in Nat /\ Private > 0 /\ MaxMoves \in Nat
    /\ Service \in Addrs
<1>1. /\ Pids \subseteq Nat /\ IsFiniteSet(Pids)
      /\ Shared \in Nat /\ Private \in Nat \ {0} /\ MaxMoves \in Nat
  BY SamplingAssumption
<1>2. Service \in Addrs
  BY BenchAssumption
<1>. QED BY <1>1, <1>2

\* A finite set of numbers has a least one: take the least of its initial
\* segments.
LEMMA LeastElement ==
    ASSUME NEW S, S \subseteq Nat, IsFiniteSet(S), S # {}
    PROVE  Min(S) \in S /\ \A y \in S : Min(S) =< y
<1>. DEFINE Below(x) == {y \in S : y =< x}
            T == {Below(x) : x \in S}
<1>1. T \subseteq FiniteSubsetsOf(S) /\ T # {}
  <2>1. FiniteSubsetsOf(S) = SUBSET S
    BY FS_FiniteSubsetsOfFinite
  <2>2. \A x \in S : Below(x) \in SUBSET S
    OBVIOUS
  <2>3. PICK x \in S : TRUE
    OBVIOUS
  <2>4. Below(x) \in T
    OBVIOUS
  <2>5. T \subseteq SUBSET S
    BY <2>2
  <2>. QED BY <2>1, <2>4, <2>5
<1>2. PICK B \in T : \A C \in T : <<C, B>> \notin StrictSubsetOrdering(S)
  BY <1>1, FS_StrictSubsetOrderingWellFounded, WFMin
<1>3. PICK x \in S : B = Below(x)
  OBVIOUS
<1>4. ASSUME NEW y \in S, ~(x =< y) PROVE FALSE
  <2>0. x \in Nat /\ y \in Nat /\ y < x /\ \A z \in S : z \in Nat /\ (z =< y => z =< x)
    BY <1>4
  <2>a. Below(y) \subseteq Below(x)
    BY <2>0
  <2>b. x \in Below(x) /\ x \notin Below(y)
    BY <1>4, <2>0
  <2>1. Below(y) \subseteq B /\ x \in B /\ x \notin Below(y)
    BY <1>3, <2>a, <2>b
  <2>2. Below(y) \in T /\ Below(y) \in SUBSET S /\ B \in SUBSET S
    BY <1>3
  <2>3. <<Below(y), B>> \in StrictSubsetOrdering(S)
    BY <2>1, <2>2 DEF StrictSubsetOrdering
  <2>. QED BY <1>2, <2>2, <2>3
<1>. QED BY <1>4 DEF Min

\* The pid a walk is at is the first of those it has left, and so is the one of
\* a count.
LEMMA FirstPid ==
    ASSUME NEW S \in SUBSET Pids, S # {}
    PROVE  Min(S) \in S
BY BenchConstants, FS_Subset, LeastElement

\* Sets of pids, and of pids and addresses, can be counted where they are finite.
LEMMA Fewer ==
    ASSUME NEW S, IsFiniteSet(S), NEW T \in SUBSET S
    PROVE  IsFiniteSet(T) /\ Cardinality(T) \in Nat /\ Cardinality(T) <= Cardinality(S)
BY FS_Subset, FS_CardinalityType

-----------------------------------------------------------------------------
(***************************************************************************)
(* The walk of /proc.                                                      *)
(***************************************************************************)

\* What the kernel answers is a share of the text and the private pages.
LEMMA ShareBound ==
    ASSUME NEW p \in Pids
    PROVE  ProportionalSize(p) \in 0 .. Shared + Private
<1>1. CASE p \in Sharers
  <2>1. IsFiniteSet(Sharers) /\ Cardinality(Sharers) \in Nat
    BY BenchConstants, Fewer DEF Sharers
  <2>2. Cardinality(Sharers) # 0
    BY <1>1, <2>1, FS_EmptySet
  <2>3. \A c \in Nat : c # 0 => Shared \div c \in 0 .. Shared
    BY BenchConstants
  <2>. QED BY <1>1, <2>1, <2>2, <2>3, BenchConstants DEF ProportionalSize
<1>2. CASE p \notin Sharers
  BY <1>2, BenchConstants DEF ProportionalSize
<1>. QED BY <1>1, <1>2

\* A fresh walk has kept nobody and has every worker before it.
LEMMA CollectKeeps ==
    ASSUME SamplingTypeOK, tally = NoTally, Collect
    PROVE  SamplingTypeOK' /\ WalkInv'
<1>1. /\ entries' = {p \in Pids : proc[p] \notin {"none", "gone"}}
      /\ stage' = IF entries' = {} THEN "sampled" ELSE "cmdline"
      /\ DOMAIN samples' = {} /\ samples' = << >>
      /\ always' = Workers /\ ever' = Workers /\ sharers' = Sharers
      /\ kept' = {} /\ held' = {}
      /\ proc' = proc /\ conns' = conns /\ moves' = moves /\ tally' = tally
  BY DEF Collect
<1>2. Workers' = Workers /\ Sharers' = Sharers
  BY <1>1 DEF Workers, Sharers
<1>3. Workers \subseteq Sharers /\ Sharers \subseteq Pids /\ Workers \subseteq entries'
  BY <1>1 DEF Workers, Sharers
<1>4. tally' \in [left: SUBSET DOMAIN samples', next: Nat \ {0}, n: Nat, total: Nat,
                  complete: BOOLEAN]
  BY <1>1 DEF NoTally
<1>5. SamplingTypeOK'
  <2>1. /\ (proc \in [Pids -> {"none", "supervisor", "worker", "foreign", "zombie", "gone"}])'
        /\ (conns \subseteq Workers \X Addrs)'
        /\ (moves \in 0 .. MaxMoves)'
    BY <1>1, <1>2 DEF SamplingTypeOK
  <2>. QED BY <1>1, <1>3, <1>4, <2>1 DEF SamplingTypeOK
<1>6. WalkInv'
  BY <1>1, <1>2, <1>3 DEF WalkInv, Walking, PssInv, PopulationBracket
<1>. QED BY <1>5, <1>6

\* A Set that is forgotten claims nothing.
LEMMA ForgetKeeps ==
    ASSUME SamplingTypeOK, Forget
    PROVE  SamplingTypeOK' /\ WalkInv' /\ tally' = NoTally
<1>1. /\ stage' = "idle" /\ samples' = << >> /\ DOMAIN samples' = {} /\ tally' = NoTally
      /\ always' = {} /\ ever' = {} /\ sharers' = {} /\ kept' = {} /\ held' = {}
      /\ entries' = entries /\ proc' = proc /\ conns' = conns /\ moves' = moves
  BY DEF Forget
<1>2. tally' \in [left: SUBSET DOMAIN samples', next: Nat \ {0}, n: Nat, total: Nat,
                  complete: BOOLEAN]
  BY <1>1 DEF NoTally
<1>3. Workers' = Workers
  BY <1>1 DEF Workers
<1>4. SamplingTypeOK'
  BY <1>1, <1>2, <1>3 DEF SamplingTypeOK
<1>5. WalkInv'
  BY <1>1 DEF WalkInv, Walking, PssInv, PopulationBracket
<1>. QED BY <1>1, <1>4, <1>5

\* One file of one process is read: it goes on to the next file, leaves the
\* process out, or keeps it at the last one.
LEMMA ReadKeeps ==
    ASSUME SamplingTypeOK, WalkInv, tally = NoTally, ReadFile
    PROVE  SamplingTypeOK' /\ WalkInv' /\ tally' = tally
<1>1. /\ proc' = proc /\ conns' = conns /\ moves' = moves /\ always' = always /\ ever' = ever
      /\ sharers' = sharers /\ kept' = kept /\ held' = held /\ tally' = tally
      /\ stage \in {"cmdline", "status", "stat", "rollup"}
  BY DEF ReadFile, ReadCmdline, ReadStatus, ReadStat, ReadRollup, lives
<1>2. Walking /\ Workers' = Workers /\ Sharers' = Sharers
  BY <1>1 DEF Walking, Workers, Sharers
<1>3. entries # {} /\ entries \subseteq Pids /\ This \in entries /\ This \in Pids
  BY <1>2, FirstPid DEF WalkInv, SamplingTypeOK, This
<1>. DEFINE Unkept == samples' = samples
<1>4. ASSUME Unkept, Leave, This \notin always PROVE SamplingTypeOK' /\ WalkInv'
  <2>1. /\ entries' = entries \ {This} /\ samples' = samples
        /\ stage' = IF entries' = {} THEN "sampled" ELSE "cmdline"
    BY <1>4 DEF Leave
  <2>2. SamplingTypeOK'
    BY <1>1, <1>2, <2>1 DEF SamplingTypeOK
  <2>3. WalkInv'
    BY <1>1, <1>2, <1>4, <2>1 DEF WalkInv, Walking, PssInv, PopulationBracket
  <2>. QED BY <2>2, <2>3
<1>5. ASSUME Unkept, NEW there \in {"status", "stat", "rollup"}, Continue(there), This \in ever
      PROVE  SamplingTypeOK' /\ WalkInv'
  <2>1. entries' = entries /\ samples' = samples /\ stage' = there /\ This' = This
    BY <1>5 DEF Continue, This
  <2>2. SamplingTypeOK'
    BY <1>1, <1>2, <2>1 DEF SamplingTypeOK
  <2>3. WalkInv'
    BY <1>1, <1>2, <1>5, <2>1 DEF WalkInv, Walking, PssInv, PopulationBracket
  <2>. QED BY <2>2, <2>3
<1>6. CASE ReadCmdline
  <2>1. Selected(This) => This \in ever
    BY <1>2, <1>3 DEF Selected, WalkInv, Workers
  <2>2. ~Selected(This) => This \notin always
    BY <1>2, <1>3 DEF Selected, WalkInv, Workers
  <2>. QED BY <1>1, <1>4, <1>5, <1>6, <2>1, <2>2 DEF ReadCmdline
<1>7. CASE ReadStatus
  <2>1. ~Alive(This) => This \notin always
    BY <1>2, <1>3 DEF Alive, WalkInv, Workers
  <2>. QED BY <1>1, <1>4, <1>5, <1>7, <2>1 DEF ReadStatus, WalkInv
<1>8. CASE ReadStat
  <2>1. proc[This] = "gone" => This \notin always
    BY <1>2, <1>3 DEF WalkInv, Workers
  <2>. QED BY <1>1, <1>4, <1>5, <1>8, <2>1 DEF ReadStat, WalkInv
<1>9. CASE ReadRollup
  <2>1. PICK pss \in 0 .. Shared + Private :
          /\ samples' = [p \in DOMAIN samples \cup {This} |-> IF p = This THEN pss ELSE samples[p]]
          /\ pss # Unknown => pss = ProportionalSize(This)
    <3>1. ProportionalSize(This) \in 0 .. Shared + Private /\ Unknown \in 0 .. Shared + Private
      BY <1>3, ShareBound, BenchConstants DEF Unknown
    <3>. QED BY <1>9, <3>1 DEF ReadRollup
  <2>2. /\ entries' = entries \ {This} /\ This \in ever
        /\ stage' = IF entries' = {} THEN "sampled" ELSE "cmdline"
    BY <1>9 DEF Leave, ReadRollup, WalkInv
  <2>3. /\ DOMAIN samples' = DOMAIN samples \cup {This}
        /\ \A p \in DOMAIN samples' : samples'[p] \in 0 .. Shared + Private
    BY <2>1 DEF SamplingTypeOK
  <2>4. tally' \in [left: SUBSET DOMAIN samples', next: Nat \ {0}, n: Nat, total: Nat,
                    complete: BOOLEAN]
    BY <1>1 DEF NoTally
  <2>5. SamplingTypeOK'
    BY <1>1, <1>2, <1>3, <2>2, <2>3, <2>4 DEF SamplingTypeOK
  <2>6. PssInv'
    <3>. SUFFICES ASSUME sharers = always, NEW p \in DOMAIN samples', samples'[p] # Unknown
                  PROVE  samples'[p] = Private + Shared \div Cardinality(always)
      BY <1>1 DEF PssInv
    <3>1. Sharers = always /\ This \in Sharers
      BY <1>2, <2>2 DEF WalkInv, SamplingTypeOK, Workers, Sharers
    <3>2. CASE p = This
      BY <2>1, <3>1, <3>2 DEF ProportionalSize
    <3>3. CASE p # This
      BY <2>1, <3>3 DEF WalkInv, PssInv
    <3>. QED BY <3>2, <3>3
  <2>7. WalkInv'
    BY <1>1, <1>2, <1>3, <2>2, <2>3, <2>6 DEF WalkInv, Walking, PopulationBracket
  <2>. QED BY <1>1, <2>5, <2>7
<1>. QED BY <1>1, <1>6, <1>7, <1>8, <1>9 DEF ReadFile

\* Processes and connections come and go: the histories follow them, while
\* something is read, and the walk itself stands still.
LEMMA ProcessKeeps ==
    ASSUME SamplingTypeOK, WalkInv, ProcessStep
    PROVE  /\ SamplingTypeOK' /\ WalkInv'
           /\ stage' = stage /\ samples' = samples /\ tally' = tally
           /\ tally.left # {} => kept' = kept \cap conns' /\ held' = held \cup conns'
           /\ tally.left = {} => kept' = kept /\ held' = held
<1>1. /\ moves' = moves + 1 /\ moves < MaxMoves
      /\ always' = IF Walking THEN always \cap Workers' ELSE always
      /\ ever' = IF Walking THEN ever \cup Workers' ELSE ever
      /\ sharers' = IF Walking THEN sharers \cup Sharers' ELSE sharers
      /\ kept' = IF tally.left # {} THEN kept \cap conns' ELSE kept
      /\ held' = IF tally.left # {} THEN held \cup conns' ELSE held
      /\ stage' = stage /\ entries' = entries /\ samples' = samples /\ tally' = tally
  BY DEF ProcessStep, Lives, Connects, Followed, walk
<1>2. /\ proc' \in [Pids -> {"none", "supervisor", "worker", "foreign", "zombie", "gone"}]
      /\ conns' \subseteq Workers' \X Addrs
  <2>1. PICK p \in Pids : Lives(p) \/ Connects(p)
    BY DEF ProcessStep
  <2>2. CASE Lives(p)
    <3>1. proc' \in [Pids -> {"none", "supervisor", "worker", "foreign", "zombie", "gone"}]
      BY <2>2 DEF Lives, SamplingTypeOK
    <3>2. conns' = {c \in conns : proc'[c[1]] = "worker"}
      BY <2>2 DEF Lives
    <3>3. ASSUME NEW c \in conns' PROVE c \in Workers' \X Addrs
      <4>1. PICK x \in Pids, a \in Addrs : c = <<x, a>>
        BY <3>2 DEF SamplingTypeOK, Workers
      <4>. QED BY <3>2, <4>1 DEF Workers
    <3>. QED BY <3>1, <3>3
  <2>3. CASE Connects(p)
    <3>1. proc' = proc /\ proc[p] = "worker" /\ Workers' = Workers /\ p \in Workers
      BY <2>3 DEF Connects, Workers
    <3>2. conns' \subseteq conns \cup ({p} \X Addrs)
      BY <2>3 DEF Connects
    <3>. QED BY <3>1, <3>2 DEF SamplingTypeOK
  <2>. QED BY <2>1, <2>2, <2>3
<1>3. /\ Workers' \subseteq Sharers' /\ Sharers' \subseteq Pids /\ Workers' \subseteq Pids
      /\ Workers' \X Addrs \subseteq Pids \X Addrs
  BY DEF Workers, Sharers
<1>4. moves' \in 0 .. MaxMoves
  BY <1>1, BenchConstants DEF SamplingTypeOK
<1>5. SamplingTypeOK'
  <2>1. always' \subseteq ever' /\ ever' \subseteq sharers' /\ sharers' \subseteq Pids
    BY <1>1, <1>3 DEF SamplingTypeOK
  <2>2. kept' \subseteq held' /\ held' \subseteq Pids \X Addrs
    BY <1>1, <1>2, <1>3 DEF SamplingTypeOK
  <2>. QED BY <1>1, <1>2, <1>4, <2>1, <2>2 DEF SamplingTypeOK
<1>6. WalkInv'
  <2>1. Walking' = Walking /\ This' = This
    BY <1>1 DEF Walking, This
  <2>2. ASSUME sharers' = always' PROVE sharers = always /\ always' = always
    <3>1. sharers \subseteq sharers' /\ always' \subseteq always
      BY <1>1
    <3>2. always \subseteq ever /\ ever \subseteq sharers
      BY DEF SamplingTypeOK
    <3>. QED BY <2>2, <3>1, <3>2
  <2>3. PssInv'
    BY <1>1, <2>2 DEF WalkInv, PssInv
  <2>. QED BY <1>1, <2>1, <2>3 DEF WalkInv, PopulationBracket, Walking
<1>. QED BY <1>1, <1>5, <1>6

\* The walk is not touched by the count.
LEMMA WalkKept ==
    ASSUME WalkInv, UNCHANGED <<stage, entries, samples, proc, always, ever, sharers>>
    PROVE  WalkInv'
BY DEF WalkInv, Walking, Workers, Sharers, PssInv, PopulationBracket, This

-----------------------------------------------------------------------------
(***************************************************************************)
(* The lines of a file.                                                    *)
(***************************************************************************)

\* A file that is opened has been counted to nothing.
LEMMA StartKeeps ==
    ASSUME NEW f \in {"crrelay", "relay"}, StartFile(f),
           images' \in [cr: Nat, perseid: Nat], crossover' \in Nat
    PROVE  SizesTypeOK' /\ LineInv'
<1>1. /\ file' = f /\ read' = 0 /\ count' = [code |-> 0, comment |-> 0, blank |-> 0]
      /\ cloc' = 0 /\ inBlock' = FALSE /\ tangled' = FALSE /\ comment' = FALSE
  BY DEF StartFile
<1>2. /\ read' \in 0 .. MaxLines /\ cloc' \in 0 .. read'
      /\ count' \in [code: 0 .. read', comment: 0 .. read', blank: 0 .. read']
      /\ count'.code + count'.comment + count'.blank = read'
  BY <1>1, SizesAssumption
<1>. QED BY <1>1, <1>2 DEF SizesTypeOK, LineInv

\* A file that stops being read is what it was.
LEMMA StopKeeps ==
    ASSUME SizesTypeOK, LineInv, file' \in {"none", "crrelay", "relay", "counted", "failed"},
           UNCHANGED <<read, inBlock, count, tangled, comment, cloc, images>>, crossover' \in Nat
    PROVE  SizesTypeOK' /\ LineInv'
BY DEF SizesTypeOK, LineInv

\* On a line that is not tangled the counter and the compiler agree on what it
\* is and on whether a comment goes on.
LEMMA ClassesAgree ==
    ASSUME NEW l \in Lines, inBlock \in BOOLEAN, comment = inBlock,
           Compiles(l), ~Tangled(l)
    PROVE  /\ Classify(l)[2] = l.open
           /\ Classify(l)[1] = "code" <=> l.code
<1>0. /\ l.begins \in {"", "//", "/*", "other"}
      /\ l.closes \in BOOLEAN /\ l.code \in BOOLEAN /\ l.open \in BOOLEAN
  BY DEF Lines
<1>1. CASE inBlock
  <2>1. ~l.code /\ (l.closes => ~l.open) /\ (~l.closes => l.open)
    BY <1>1 DEF Compiles, Tangled
  <2>2. Classify(l)[1] = "comment" /\ Classify(l)[2] = ~l.closes
    BY <1>1 DEF Classify
  <2>3. (~l.closes) = l.open
    BY <1>0, <2>1, Zenon
  <2>4. Classify(l)[2] = l.open
    BY <2>2, <2>3, Zenon
  <2>5. Classify(l)[1] # "code"
    BY <2>2
  <2>. QED BY <2>1, <2>4, <2>5, Zenon
<1>2. CASE ~inBlock /\ l.begins \in {"", "//"}
  <2>1. ~l.code /\ l.open = FALSE
    BY <1>0, <1>2 DEF Compiles
  <2>2. Classify(l)[1] # "code" /\ Classify(l)[2] = FALSE
    BY <1>2 DEF Classify
  <2>. QED BY <2>1, <2>2
<1>3. CASE ~inBlock /\ l.begins = "/*"
  <2>1. ~l.code /\ (l.closes => ~l.open) /\ (~l.closes => l.open)
    BY <1>3 DEF Compiles, Tangled
  <2>2. Classify(l)[1] = "comment" /\ Classify(l)[2] = ~l.closes
    BY <1>3 DEF Classify
  <2>3. (~l.closes) = l.open
    BY <1>0, <2>1, Zenon
  <2>4. Classify(l)[2] = l.open
    BY <2>2, <2>3, Zenon
  <2>5. Classify(l)[1] # "code"
    BY <2>2
  <2>. QED BY <2>1, <2>4, <2>5, Zenon
<1>4. CASE ~inBlock /\ l.begins = "other"
  <2>1. l.code /\ l.open = FALSE
    BY <1>0, <1>4 DEF Compiles, Tangled
  <2>2. Classify(l)[1] = "code" /\ Classify(l)[2] = FALSE
    BY <1>4 DEF Classify
  <2>. QED BY <2>1, <2>2, Zenon
<1>. QED BY <1>0, <1>1, <1>2, <1>3, <1>4

\* One line: it is counted once, under one of the three classes.
LEMMA LineKeeps ==
    ASSUME SizesTypeOK, LineInv, NEW l \in Lines, ReadLine(l)
    PROVE  SizesTypeOK' /\ LineInv'
<1>. DEFINE class == Classify(l)[1]
<1>1. /\ read \in Nat /\ read' = read + 1 /\ read' \in 0 .. MaxLines
      /\ count' = [count EXCEPT ![class] = @ + 1]
  <2>1. read < MaxLines /\ read' = read + 1 /\ count' = [count EXCEPT ![class] = @ + 1]
    BY DEF ReadLine
  <2>2. read \in 0 .. MaxLines
    BY DEF SizesTypeOK
  <2>. QED BY <2>1, <2>2, SizesAssumption
<1>2. /\ file' = file /\ images' = images /\ crossover' = crossover
      /\ cloc' = IF l.code THEN cloc + 1 ELSE cloc
      /\ inBlock' = Classify(l)[2] /\ comment' = l.open /\ Compiles(l)
  BY DEF ReadLine
<1>3. tangled' = (tangled \/ Tangled(l))
  BY DEF ReadLine
<1>4. class \in {"code", "comment", "blank"} /\ inBlock' \in BOOLEAN
  <2>1. inBlock' = FALSE \/ inBlock' = ~l.closes
    BY <1>2 DEF Classify
  <2>2. inBlock' \in BOOLEAN
    BY <2>1, Zenon
  <2>3. class \in {"code", "comment", "blank"}
    BY DEF Classify
  <2>. QED BY <2>2, <2>3
<1>5. comment' \in BOOLEAN /\ tangled' \in BOOLEAN
  <2>1. comment' \in BOOLEAN
    BY <1>2 DEF Lines
  <2>2. tangled' \in BOOLEAN
    BY <1>3, Zenon
  <2>. QED BY <2>1, <2>2
<1>6. /\ count.code \in Nat /\ count.comment \in Nat /\ count.blank \in Nat
      /\ count.code =< read /\ count.comment =< read /\ count.blank =< read
      /\ count.code + count.comment + count.blank = read
      /\ count = [code |-> count.code, comment |-> count.comment, blank |-> count.blank]
  BY <1>1 DEF SizesTypeOK
<1>7. count' = [code |-> IF class = "code" THEN count.code + 1 ELSE count.code,
                comment |-> IF class = "comment" THEN count.comment + 1 ELSE count.comment,
                blank |-> IF class = "blank" THEN count.blank + 1 ELSE count.blank]
  BY <1>1, <1>4, <1>6
<1>. HIDE DEF class
<1>8. /\ count' \in [code: 0 .. read', comment: 0 .. read', blank: 0 .. read']
      /\ count'.code + count'.comment + count'.blank = read'
  BY <1>1, <1>4, <1>6, <1>7
<1>9. cloc' \in 0 .. read'
  <2>1. cloc \in Nat /\ cloc =< read
    BY <1>1 DEF SizesTypeOK
  <2>2. cloc' = cloc \/ cloc' = cloc + 1
    BY <1>2
  <2>. QED BY <1>1, <2>1, <2>2
<1>10. SizesTypeOK'
  BY <1>1, <1>2, <1>4, <1>5, <1>8, <1>9 DEF SizesTypeOK
<1>11. LineInv'
  <2>1. SUFFICES ASSUME ~tangled' PROVE inBlock' = comment' /\ count'.code = cloc'
    BY DEF LineInv
  <2>2. ~tangled /\ ~Tangled(l)
    BY <1>3, <2>1
  <2>3. inBlock = comment /\ count.code = cloc /\ inBlock \in BOOLEAN
    BY <2>2 DEF LineInv, SizesTypeOK
  <2>4. inBlock' = comment'
    BY <1>2, <2>2, <2>3, ClassesAgree
  <2>5. class = "code" <=> l.code
    BY <1>2, <2>2, <2>3, ClassesAgree DEF class
  <2>6. count'.code = IF class = "code" THEN count.code + 1 ELSE count.code
    BY <1>7
  <2>. QED BY <1>2, <2>3, <2>4, <2>5, <2>6
<1>. QED BY <1>10, <1>11

\* The counting of a file, from its opening to its end.
LEMMA SizesKeep ==
    ASSUME SizesTypeOK, LineInv, MeasureSizes
    PROVE  SizesTypeOK' /\ LineInv'
<1>0. images \in [cr: Nat, perseid: Nat] /\ crossover \in Nat
  BY DEF SizesTypeOK
<1>1. CASE StatArtifacts
  <2>1. CASE file' = "failed" /\ UNCHANGED <<read, inBlock, count, tangled, comment, cloc, images, crossover>>
    BY <1>0, <2>1, StopKeeps
  <2>2. CASE images' \in imageSizes /\ StartFile("crrelay") /\ UNCHANGED crossover
    <3>1. images' \in [cr: Nat, perseid: Nat]
      BY <2>2 DEF imageSizes
    <3>. QED BY <1>0, <2>2, <3>1, StartKeeps
  <2>. QED BY <1>1, <2>1, <2>2 DEF StatArtifacts
<1>2. CASE EndFile
  <2>1. images' = images
    BY <1>2 DEF EndFile
  <2>2. CASE StartFile("relay") /\ UNCHANGED crossover
    BY <1>0, <2>1, <2>2, StartKeeps
  <2>3. CASE /\ file' \in {"counted", "failed"} /\ crossover' \in Nat
             /\ UNCHANGED <<read, inBlock, count, tangled, comment, cloc>>
    BY <2>1, <2>3, StopKeeps
  <2>. QED BY <1>0, <1>2, <2>2, <2>3 DEF EndFile
<1>3. CASE \E l \in Lines : ReadLine(l)
  BY <1>3, LineKeeps
<1>. QED BY <1>1, <1>2, <1>3 DEF MeasureSizes

-----------------------------------------------------------------------------
(***************************************************************************)
(* The count of connections.                                               *)
(***************************************************************************)

\* What of a history lies in two finite sets is at most what lies in each, and
\* as much if they have nothing in common.
LEMMA Together ==
    ASSUME NEW H, NEW A, NEW B, IsFiniteSet(A), IsFiniteSet(B)
    PROVE  /\ Cardinality(H \cap A) \in Nat /\ Cardinality(H \cap B) \in Nat
           /\ Cardinality(H \cap (A \cup B)) \in Nat
           /\ Cardinality(H \cap (A \cup B)) <= Cardinality(H \cap A) + Cardinality(H \cap B)
           /\ A \cap B = {} => Cardinality(H \cap (A \cup B))
                                 = Cardinality(H \cap A) + Cardinality(H \cap B)
<1>. DEFINE HA == H \cap A
            HB == H \cap B
<1>1. /\ IsFiniteSet(HA) /\ IsFiniteSet(HB)
      /\ Cardinality(HA) \in Nat /\ Cardinality(HB) \in Nat
  BY Fewer
<1>2. H \cap (A \cup B) = HA \cup HB
  OBVIOUS
<1>3. A \cap B = {} => HA \cap HB = {}
  OBVIOUS
<1>. HIDE DEF HA, HB
<1>4. /\ IsFiniteSet(HA \cup HB)
      /\ Cardinality(HA \cup HB) = Cardinality(HA) + Cardinality(HB) - Cardinality(HA \cap HB)
  BY <1>1, FS_Union
<1>5. Cardinality(HA \cap HB) \in Nat /\ Cardinality(HA \cup HB) \in Nat
  BY <1>1, <1>4, Fewer, FS_CardinalityType
<1>6. A \cap B = {} => Cardinality(HA \cap HB) = 0
  BY <1>3, FS_EmptySet
<1>7. /\ Cardinality(HA \cup HB) <= Cardinality(HA) + Cardinality(HB)
      /\ A \cap B = {} => Cardinality(HA \cup HB) = Cardinality(HA) + Cardinality(HB)
  BY <1>1, <1>4, <1>5, <1>6
<1>. QED BY <1>1, <1>2, <1>5, <1>7 DEF HA, HB

\* A history that grows has at least as much in a finite set as it had.
LEMMA Grown ==
    ASSUME NEW H, NEW G, NEW A, IsFiniteSet(A), H \subseteq G
    PROVE  /\ Cardinality(H \cap A) \in Nat /\ Cardinality(G \cap A) \in Nat
           /\ Cardinality(H \cap A) <= Cardinality(G \cap A)
<1>1. IsFiniteSet(G \cap A) /\ H \cap A \in SUBSET (G \cap A) /\ G \cap A \in SUBSET A
  BY Fewer
<1>. QED BY <1>1, Fewer

\* One connection counts for one while it is open.
LEMMA OneConnection ==
    ASSUME NEW c, kept \subseteq conns, conns \subseteq held
    PROVE  LET b == IF c \in conns THEN 1 ELSE 0
           IN  b <= Cardinality(held \cap {c}) /\ b >= Cardinality(kept \cap {c})
<1>1. Cardinality({c}) = 1 /\ Cardinality({}) = 0
  BY FS_Singleton, FS_EmptySet
<1>2. CASE c \in conns
  <2>1. held \cap {c} = {c} /\ (kept \cap {c} = {c} \/ kept \cap {c} = {})
    BY <1>2
  <2>. QED BY <1>1, <1>2, <2>1
<1>3. CASE c \notin conns
  <2>1. kept \cap {c} = {} /\ (held \cap {c} = {c} \/ held \cap {c} = {})
    BY <1>3
  <2>. QED BY <1>1, <1>3, <2>1
<1>. QED BY <1>2, <1>3

\* The count asks for the ClusterIP and, if it parses, for -apiserver.
LEMMA Endpoints ==
    /\ Len(apiEndpoints) \in {1, 2} /\ DOMAIN apiEndpoints = 1 .. Len(apiEndpoints)
    /\ apiEndpoints[1] = Service
    /\ Len(apiEndpoints) = 2 => apiEndpoints[2] = command.server
    /\ Len(apiEndpoints) = 1 => Range(apiEndpoints) = {Service}
    /\ Len(apiEndpoints) = 2 => Range(apiEndpoints) = {Service, command.server}
    /\ IsFiniteSet(Range(apiEndpoints))
<1>1. \A x : IsFiniteSet({x})
  BY FS_Singleton
<1>2. ASSUME NEW x, NEW y PROVE IsFiniteSet({x, y})
  <2>1. {x, y} = {x} \cup {y}
    OBVIOUS
  <2>2. IsFiniteSet({x} \cup {y})
    BY <1>1, FS_AddElement
  <2>. QED BY <2>1, <2>2
<1>3. CASE command.server \in Addrs
  <2>1. apiEndpoints = <<Service, command.server>>
    BY <1>3 DEF apiEndpoints
  <2>2. /\ Len(apiEndpoints) = 2 /\ DOMAIN apiEndpoints = 1 .. 2
        /\ apiEndpoints[1] = Service /\ apiEndpoints[2] = command.server
    BY <2>1
  <2>3. Range(apiEndpoints) = {Service, command.server}
    BY <2>2 DEF Range
  <2>. QED BY <1>2, <2>2, <2>3
<1>4. CASE command.server \notin Addrs
  <2>1. apiEndpoints = <<Service>>
    BY <1>4 DEF apiEndpoints
  <2>2. /\ Len(apiEndpoints) = 1 /\ DOMAIN apiEndpoints = 1 .. 1
        /\ apiEndpoints[1] = Service
    BY <2>1
  <2>3. Range(apiEndpoints) = {Service}
    BY <2>2 DEF Range
  <2>. QED BY <1>1, <2>2, <2>3
<1>. QED BY <1>3, <1>4

\* What is counted is finite.
LEMMA Countable ==
    ASSUME SamplingTypeOK
    PROVE  /\ IsFiniteSet(Tallied)
           /\ \A p \in DOMAIN samples : IsFiniteSet({p} \X Range(apiEndpoints))
<1>1. Counted \in SUBSET Pids /\ \A p : IsFiniteSet({p})
  BY FS_Singleton DEF SamplingTypeOK, Counted
<1>. QED BY <1>1, BenchConstants, Endpoints, Fewer, FS_Product DEF Tallied

\* A count that begins has counted nothing.
LEMMA CountStarts ==
    ASSUME SamplingTypeOK, stage = "sampled", CountConns, pc' = "conns", command' = command
    PROVE  SamplingTypeOK' /\ CountInv'
<1>1. /\ tally' = [left |-> DOMAIN samples, next |-> 1, n |-> 0, total |-> 0, complete |-> TRUE]
      /\ kept' = conns /\ held' = conns
      /\ stage' = stage /\ entries' = entries /\ samples' = samples /\ proc' = proc
      /\ conns' = conns /\ moves' = moves /\ always' = always /\ ever' = ever
      /\ sharers' = sharers
  BY DEF CountConns, NoTally, walk
<1>2. Workers' = Workers /\ Workers \subseteq Pids /\ apiEndpoints' = apiEndpoints
  BY <1>1 DEF Workers, apiEndpoints
<1>3. tally' \in [left: SUBSET DOMAIN samples', next: Nat \ {0}, n: Nat, total: Nat,
                  complete: BOOLEAN]
  BY <1>1
<1>4. conns \subseteq Pids \X Addrs
  BY <1>2 DEF SamplingTypeOK
<1>5. SamplingTypeOK'
  BY <1>1, <1>2, <1>3, <1>4 DEF SamplingTypeOK
<1>6. Counted' = {} /\ Asked' = {}
  BY <1>1 DEF Counted, Asked
<1>7. Tallied' = {} /\ InHand' = {}
  BY <1>6 DEF Tallied, InHand
<1>8. /\ Cardinality((held \cap Tallied)') = 0 /\ Cardinality((held \cap InHand)') = 0
      /\ Cardinality((kept \cap Tallied)') = 0 /\ Cardinality((kept \cap InHand)') = 0
  BY <1>7, FS_EmptySet
<1>9. CountInv'
  BY <1>1, <1>2, <1>8, Endpoints DEF CountInv
<1>. QED BY <1>5, <1>9

\* A table that is read, for one address, counts the connection to it once; one
\* that cannot be counts nothing of its process and marks the total.
LEMMA TableKeeps ==
    ASSUME SamplingTypeOK, CountInv, pc = "conns", UNCHANGED <<pc, command>>,
           ReadTable(apiEndpoints)
    PROVE  SamplingTypeOK' /\ CountInv'
<1>. DEFINE p == Min(tally.left)
            a == apiEndpoints[tally.next]
            b == IF <<p, a>> \in conns THEN 1 ELSE 0
            R == Range(apiEndpoints)
<1>1. /\ tally.left # {} /\ pc' = "conns" /\ command' = command
      /\ stage' = stage /\ entries' = entries /\ samples' = samples /\ proc' = proc
      /\ conns' = conns /\ moves' = moves /\ always' = always /\ ever' = ever
      /\ sharers' = sharers /\ kept' = kept /\ held' = held
  BY DEF ReadTable, walk, lives
<1>2. /\ Workers' = Workers /\ apiEndpoints' = apiEndpoints
  BY <1>1 DEF Workers, apiEndpoints
<1>3. /\ tally.left \subseteq DOMAIN samples /\ DOMAIN samples \subseteq Pids
      /\ tally.n \in Nat /\ tally.total \in Nat /\ tally.complete \in BOOLEAN
      /\ tally = [left |-> tally.left, next |-> tally.next, n |-> tally.n,
                  total |-> tally.total, complete |-> tally.complete]
  BY DEF SamplingTypeOK
<1>4. p \in tally.left /\ p \in DOMAIN samples /\ b \in Nat
  BY <1>1, <1>3, FirstPid
<1>5. /\ stage = "sampled" /\ tally.next \in 1 .. Len(apiEndpoints)
      /\ tally.next = 1 => tally.n = 0
      /\ kept \subseteq conns /\ conns \subseteq held
      /\ command.server # Service => /\ tally.total <= Cardinality(held \cap Tallied)
                                     /\ tally.n <= Cardinality(held \cap InHand)
      /\ tally.complete => /\ tally.total >= Cardinality(kept \cap Tallied)
                           /\ tally.n >= Cardinality(kept \cap InHand)
  BY <1>1 DEF CountInv
<1>6. InHand = {p} \X Asked /\ Tallied = Counted \X R /\ p \notin Counted
  BY <1>4 DEF InHand, Tallied, Counted
<1>7. IsFiniteSet(Tallied) /\ IsFiniteSet({p} \X R)
  BY <1>4, Countable
<1>8. b <= Cardinality(held \cap {<<p, a>>}) /\ b >= Cardinality(kept \cap {<<p, a>>})
  BY <1>5, OneConnection
<1>9. /\ tally.next \in Nat /\ Len(apiEndpoints) \in {1, 2}
      /\ Asked = {apiEndpoints[j] : j \in 1 .. tally.next - 1}
      /\ tally.next = Len(apiEndpoints) => R = Asked \cup {a}
      /\ (tally.next = Len(apiEndpoints) /\ command.server # Service) => a \notin Asked
      /\ tally.next < Len(apiEndpoints) => tally.next = 1
  <2>1. tally.next \in Nat /\ Len(apiEndpoints) \in {1, 2} /\ tally.next <= Len(apiEndpoints)
        /\ tally.next >= 1
    BY <1>5, Endpoints
  <2>2. Asked = {apiEndpoints[j] : j \in 1 .. tally.next - 1}
    BY DEF Asked
  <2>3. CASE tally.next = 1
    <3>1. Asked = {} /\ a = Service
      BY <2>2, <2>3, Endpoints
    <3>2. Len(apiEndpoints) = 1 => R = {Service}
      BY Endpoints
    <3>. QED BY <2>1, <2>2, <2>3, <3>1, <3>2
  <2>4. CASE tally.next = 2
    <3>1. Len(apiEndpoints) = 2
      <4>1. \A m \in {1, 2} : 2 <= m => m = 2
        OBVIOUS
      <4>. QED BY <2>1, <2>4, <4>1
    <3>2. R = {Service, command.server} /\ a = command.server /\ apiEndpoints[1] = Service
      BY <2>4, <3>1, Endpoints
    <3>3. Asked = {Service}
      <4>1. 1 .. tally.next - 1 = {1}
        BY <2>4
      <4>. QED BY <2>2, <3>2, <4>1
    <3>. HIDE DEF a, R
    <3>4. R = Asked \cup {a}
      BY <3>2, <3>3
    <3>5. command.server # Service => a \notin Asked
      BY <3>2, <3>3
    <3>. QED BY <2>1, <2>2, <2>4, <3>1, <3>4, <3>5
  <2>5. tally.next = 1 \/ tally.next = 2
    <3>1. \A k \in Nat, m \in {1, 2} : k <= m /\ k >= 1 => k = 1 \/ k = 2
      OBVIOUS
    <3>. QED BY <2>1, <3>1
  <2>. QED BY <2>3, <2>4, <2>5
<1>. HIDE DEF p, a, b, R
<1>10. CASE tally.next < Len(apiEndpoints) /\
            tally' = [tally EXCEPT !.next = @ + 1, !.n = tally.n + b]
  <2>1. tally.next = 1 /\ tally.n = 0 /\ Len(apiEndpoints) = 2
    BY <1>5, <1>9, <1>10
  <2>2. tally' = [left |-> tally.left, next |-> 2, n |-> b, total |-> tally.total,
                  complete |-> tally.complete]
    <3>1. tally' = [left |-> tally.left, next |-> tally.next + 1, n |-> tally.n + b,
                    total |-> tally.total, complete |-> tally.complete]
      BY <1>3, <1>10
    <3>2. tally.next + 1 = 2 /\ tally.n + b = b
      BY <1>4, <2>1
    <3>. QED BY <3>1, <3>2
  <2>3. Asked' = {a}
    <3>1. 1 .. 2 - 1 = {1}
      OBVIOUS
    <3>2. Asked' = {apiEndpoints[j] : j \in 1 .. 2 - 1}
      BY <1>2, <2>2 DEF Asked
    <3>3. Asked' = {apiEndpoints[1]}
      BY <3>1, <3>2
    <3>. QED BY <2>1, <3>3 DEF a
  <2>4. Tallied' = Tallied /\ Counted' = Counted
    BY <1>1, <1>2, <2>2 DEF Tallied, Counted
  <2>5. InHand' = {<<p, a>>}
    <3>1. {q \in tally'.left : q = Min(tally'.left)} = {p}
      BY <1>4, <2>2 DEF p
    <3>. QED BY <2>3, <3>1 DEF InHand
  <2>6. SamplingTypeOK'
    <3>1. tally' \in [left: SUBSET DOMAIN samples', next: Nat \ {0}, n: Nat, total: Nat,
                      complete: BOOLEAN]
      BY <1>1, <1>3, <1>4, <2>2
    <3>. QED BY <1>1, <1>2, <3>1 DEF SamplingTypeOK
  <2>7. CountInv'
    BY <1>1, <1>2, <1>5, <1>8, <2>1, <2>2, <2>4, <2>5 DEF CountInv
  <2>. QED BY <2>6, <2>7
<1>11. CASE tally.next = Len(apiEndpoints) /\
            tally' = [tally EXCEPT !.left = @ \ {p}, !.next = 1, !.n = 0,
                                   !.total = @ + (tally.n + b)]
  <2>1. tally' = [left |-> tally.left \ {p}, next |-> 1, n |-> 0,
                  total |-> tally.total + (tally.n + b), complete |-> tally.complete]
    BY <1>3, <1>11
  <2>2. Asked' = {} /\ InHand' = {}
    BY <2>1 DEF Asked, InHand
  <2>3. Counted' = Counted \cup {p}
    BY <1>1, <1>4, <2>1 DEF Counted
  <2>4. Tallied' = Tallied \cup ({p} \X R) /\ Tallied \cap ({p} \X R) = {}
    BY <1>2, <1>6, <2>3 DEF Tallied, R
  <2>5. {p} \X R = InHand \cup {<<p, a>>}
    BY <1>6, <1>9, <1>11
  <2>6. command.server # Service => InHand \cap {<<p, a>>} = {}
    BY <1>6, <1>9, <1>11
  <2>7. IsFiniteSet(InHand) /\ IsFiniteSet({<<p, a>>})
    <3>1. InHand \in SUBSET ({p} \X R)
      BY <2>5
    <3>. QED BY <1>7, <3>1, Fewer, FS_Singleton
  <2>8. /\ Cardinality(held \cap InHand) \in Nat /\ Cardinality(held \cap Tallied) \in Nat
        /\ Cardinality(held \cap {<<p, a>>}) \in Nat
        /\ Cardinality(held \cap ({p} \X R)) \in Nat
        /\ Cardinality(held \cap Tallied')
             = Cardinality(held \cap Tallied) + Cardinality(held \cap ({p} \X R))
        /\ command.server # Service =>
             Cardinality(held \cap ({p} \X R))
               = Cardinality(held \cap InHand) + Cardinality(held \cap {<<p, a>>})
    BY <1>7, <2>4, <2>5, <2>6, <2>7, Together
  <2>9. /\ Cardinality(kept \cap InHand) \in Nat /\ Cardinality(kept \cap Tallied) \in Nat
        /\ Cardinality(kept \cap {<<p, a>>}) \in Nat
        /\ Cardinality(kept \cap ({p} \X R)) \in Nat
        /\ Cardinality(kept \cap Tallied')
             = Cardinality(kept \cap Tallied) + Cardinality(kept \cap ({p} \X R))
        /\ Cardinality(kept \cap ({p} \X R))
             <= Cardinality(kept \cap InHand) + Cardinality(kept \cap {<<p, a>>})
    BY <1>7, <2>4, <2>5, <2>7, Together
  <2>10. SamplingTypeOK'
    <3>1. tally' \in [left: SUBSET DOMAIN samples', next: Nat \ {0}, n: Nat, total: Nat,
                      complete: BOOLEAN]
      BY <1>1, <1>3, <1>4, <2>1
    <3>. QED BY <1>1, <1>2, <3>1 DEF SamplingTypeOK
  <2>11. command.server # Service =>
           tally.total + (tally.n + b) <= Cardinality(held \cap Tallied')
    BY <1>3, <1>4, <1>5, <1>8, <2>8
  <2>12. tally.complete => tally.total + (tally.n + b) >= Cardinality(kept \cap Tallied')
    BY <1>3, <1>4, <1>5, <1>8, <2>9
  <2>13. Cardinality((held \cap InHand)') = 0 /\ Cardinality((kept \cap InHand)') = 0
    BY <2>2, FS_EmptySet
  <2>14. CountInv'
    BY <1>1, <1>2, <1>5, <1>9, <2>1, <2>11, <2>12, <2>13 DEF CountInv
  <2>. QED BY <2>10, <2>14
<1>12. CASE Unreadable(p)
  <2>1. tally' = [left |-> tally.left \ {p}, next |-> 1, n |-> 0,
                  total |-> tally.total, complete |-> FALSE]
    BY <1>3, <1>12 DEF Unreadable
  <2>2. Asked' = {} /\ InHand' = {}
    BY <2>1 DEF Asked, InHand
  <2>3. Counted' = Counted \cup {p}
    BY <1>1, <1>4, <2>1 DEF Counted
  <2>4. Tallied' = Tallied \cup ({p} \X R)
    BY <1>2, <1>6, <2>3 DEF Tallied, R
  <2>5. /\ Cardinality(held \cap Tallied) \in Nat /\ Cardinality(held \cap Tallied') \in Nat
        /\ Cardinality(held \cap Tallied) <= Cardinality(held \cap Tallied')
    <3>1. IsFiniteSet(Tallied')
      BY <1>7, <2>4, FS_Union
    <3>2. IsFiniteSet(held \cap Tallied') /\ held \cap Tallied \in SUBSET (held \cap Tallied')
      BY <2>4, <3>1, Fewer
    <3>. QED BY <3>1, <3>2, Fewer
  <2>6. SamplingTypeOK'
    <3>1. tally' \in [left: SUBSET DOMAIN samples', next: Nat \ {0}, n: Nat, total: Nat,
                      complete: BOOLEAN]
      BY <1>1, <1>3, <1>4, <2>1
    <3>. QED BY <1>1, <1>2, <3>1 DEF SamplingTypeOK
  <2>7. Cardinality((held \cap InHand)') = 0
    BY <2>2, FS_EmptySet
  <2>8. CountInv'
    BY <1>1, <1>2, <1>3, <1>5, <1>9, <2>1, <2>5, <2>7 DEF CountInv
  <2>. QED BY <2>6, <2>8
<1>13. \/ /\ tally.next < Len(apiEndpoints)
          /\ tally' = [tally EXCEPT !.next = @ + 1, !.n = tally.n + b]
       \/ /\ ~(tally.next < Len(apiEndpoints))
          /\ tally' = [tally EXCEPT !.left = @ \ {p}, !.next = 1, !.n = 0,
                                    !.total = @ + (tally.n + b)]
       \/ Unreadable(p)
  BY DEF ReadTable, p, a, b
<1>14. tally.next < Len(apiEndpoints) \/ tally.next = Len(apiEndpoints)
  BY <1>5, <1>9
<1>. QED BY <1>10, <1>11, <1>12, <1>13, <1>14

\* Connections that come and go widen the bracket of a count under way.
LEMMA MovesKeepCount ==
    ASSUME SamplingTypeOK, CountInv, UNCHANGED <<pc, command, stage, samples, tally>>,
           tally.left # {} => kept' = kept \cap conns' /\ held' = held \cup conns',
           tally.left = {} => kept' = kept /\ held' = held
    PROVE  CountInv'
<1>1. /\ apiEndpoints' = apiEndpoints /\ Counted' = Counted /\ Asked' = Asked
  BY DEF apiEndpoints, Counted, Asked
<1>2. Tallied' = Tallied /\ InHand' = InHand
  BY <1>1 DEF Tallied, InHand
<1>3. CASE tally.left = {} \/ pc # "conns"
  <2>1. pc = "conns" => kept' = kept /\ held' = held
    BY <1>3
  <2>. QED BY <1>1, <1>2, <1>3, <2>1 DEF CountInv
<1>4. CASE tally.left # {} /\ pc = "conns"
  <2>1. kept' \subseteq kept /\ held \subseteq held' /\ kept' \subseteq conns' /\ conns' \subseteq held'
    BY <1>4
  <2>2. IsFiniteSet(Tallied) /\ IsFiniteSet(InHand)
    <3>1. Min(tally.left) \in tally.left /\ tally.left \subseteq DOMAIN samples
      BY <1>4, FirstPid DEF SamplingTypeOK
    <3>2. \A j \in 1 .. tally.next - 1 : j \in DOMAIN apiEndpoints
      BY <1>4, Endpoints DEF CountInv
    <3>3. InHand \in SUBSET ({Min(tally.left)} \X Range(apiEndpoints))
      BY <3>2 DEF InHand, Asked, Range
    <3>. QED BY <3>1, <3>3, Countable, Fewer
  <2>3. /\ Cardinality(held \cap Tallied) \in Nat /\ Cardinality(held' \cap Tallied) \in Nat
        /\ Cardinality(held \cap InHand) \in Nat /\ Cardinality(held' \cap InHand) \in Nat
        /\ Cardinality(held \cap Tallied) <= Cardinality(held' \cap Tallied)
        /\ Cardinality(held \cap InHand) <= Cardinality(held' \cap InHand)
    BY <2>1, <2>2, Grown
  <2>4. /\ Cardinality(kept \cap Tallied) \in Nat /\ Cardinality(kept' \cap Tallied) \in Nat
        /\ Cardinality(kept \cap InHand) \in Nat /\ Cardinality(kept' \cap InHand) \in Nat
        /\ Cardinality(kept' \cap Tallied) <= Cardinality(kept \cap Tallied)
        /\ Cardinality(kept' \cap InHand) <= Cardinality(kept \cap InHand)
    BY <2>1, <2>2, Grown
  <2>5. tally.n \in Nat /\ tally.total \in Nat
    BY DEF SamplingTypeOK
  <2>. QED BY <1>1, <1>2, <1>4, <2>1, <2>3, <2>4, <2>5 DEF CountInv
<1>. QED BY <1>3, <1>4

-----------------------------------------------------------------------------
(***************************************************************************)
(* The steps of a command.                                                 *)
(***************************************************************************)

\* A step that leaves the processes, the walk and the count alone, outside a
\* count or in the same one.
LEMMA Untouched ==
    ASSUME SamplingTypeOK, WalkInv, CountInv, UNCHANGED samplingVars, UNCHANGED command,
           pc' = pc \/ (pc # "conns" /\ pc' # "conns")
    PROVE  SamplingTypeOK' /\ WalkInv' /\ CountInv'
<1>1. /\ stage' = stage /\ entries' = entries /\ samples' = samples /\ tally' = tally
      /\ proc' = proc /\ conns' = conns /\ moves' = moves /\ always' = always
      /\ ever' = ever /\ sharers' = sharers /\ kept' = kept /\ held' = held
  BY DEF samplingVars, walk, lives
<1>2. /\ Workers' = Workers /\ apiEndpoints' = apiEndpoints /\ Counted' = Counted
      /\ Asked' = Asked
  BY <1>1 DEF Workers, apiEndpoints, Counted, Asked
<1>3. Tallied' = Tallied /\ InHand' = InHand
  BY <1>1, <1>2 DEF Tallied, InHand
<1>4. SamplingTypeOK'
  BY <1>1, <1>2 DEF SamplingTypeOK
<1>5. CountInv'
  BY <1>1, <1>2, <1>3 DEF CountInv
<1>. QED BY <1>1, <1>4, <1>5, WalkKept

\* A walk that begins where nothing is counted.
LEMMA WalkBegins ==
    ASSUME SamplingTypeOK, CountInv, pc # "conns", pc' # "conns", Collect
    PROVE  SamplingTypeOK' /\ WalkInv' /\ CountInv'
<1>1. tally = NoTally /\ tally' = tally
  BY DEF CountInv, Collect
<1>2. CountInv'
  BY <1>1 DEF CountInv, NoTally
<1>. QED BY <1>1, <1>2, CollectKeeps

\* A walk and a count that are forgotten.
LEMMA WalkEnds ==
    ASSUME SamplingTypeOK, pc' # "conns", Forget
    PROVE  SamplingTypeOK' /\ WalkInv' /\ CountInv'
<1>1. SamplingTypeOK' /\ WalkInv' /\ tally' = NoTally
  BY ForgetKeeps
<1>2. CountInv'
  BY <1>1 DEF CountInv, NoTally
<1>. QED BY <1>1, <1>2

\* Every step keeps the bracket of the walk and of the count in progress.
LEMMA SamplingStep ==
    ASSUME SamplingTypeOK, WalkInv, CountInv, Next
    PROVE  SamplingTypeOK' /\ WalkInv' /\ CountInv'
<1>1. CASE StartRun
  BY <1>1, WalkBegins DEF StartRun, Goto
<1>2. CASE Judge
  BY <1>2, WalkEnds DEF Judge, Goto, Fails
<1>3. CASE Settle
  BY <1>3, Untouched DEF Settle, Goto, Fails
<1>4. CASE OpenWindow
  BY <1>4, WalkBegins DEF OpenWindow, Goto
<1>5. CASE ScrapeBefore
  BY <1>5, WalkEnds DEF ScrapeBefore, Goto
<1>6. CASE CloseWindow
  <2>1. CASE Collect /\ Goto("close")
    BY <1>6, <2>1, WalkBegins DEF CloseWindow, Goto
  <2>2. CASE Fails /\ UNCHANGED samplingVars
    BY <1>6, <2>2, Untouched DEF CloseWindow, Goto, Fails
  <2>. QED BY <1>6, <2>1, <2>2 DEF CloseWindow
<1>7. CASE ScrapeAfter
  <2>1. stage = "sampled" /\ CountConns /\ pc' = "conns" /\ command' = command
    BY <1>7 DEF ScrapeAfter, Goto
  <2>2. UNCHANGED <<stage, entries, samples, proc, always, ever, sharers>>
    BY <2>1 DEF CountConns, walk
  <2>. QED BY <2>1, <2>2, CountStarts, WalkKept
<1>8. CASE AppendWindow
  BY <1>8, WalkEnds DEF AppendWindow, Goto
<1>9. CASE Healthy
  <2>1. pc = "health" /\ pc' \in {"open", "record"}
    BY <1>9 DEF Healthy, Unless, Goto, Fails, Boundary
  <2>. QED BY <1>9, <2>1, Untouched DEF Healthy
<1>10. CASE Size
  <2>1. pc \in {"start", "sizes"} /\ pc' \in {"exit", "record", "sizes"}
    BY <1>10 DEF Size, Goto
  <2>. QED BY <1>10, <2>1, Untouched DEF Size
<1>11. CASE WriteRecord
  <2>1. pc = "record" /\ pc' \in {"exit", "print"}
    BY <1>11 DEF WriteRecord, Goto
  <2>. QED BY <1>11, <2>1, Untouched DEF WriteRecord
<1>12. CASE PrintRun
  BY <1>12, Untouched DEF PrintRun, Goto
<1>13. CASE Cancel
  BY <1>13, Untouched DEF Cancel
<1>14. CASE Sample
  <2>1. pc' = pc /\ command' = command
    BY <1>14 DEF Sample, benchVars
  <2>2. CASE ReadFile
    <3>1. stage # "sampled"
      BY <2>2 DEF ReadFile, ReadCmdline, ReadStatus, ReadStat, ReadRollup
    <3>2. pc # "conns" /\ tally = NoTally
      BY <3>1 DEF CountInv
    <3>3. SamplingTypeOK' /\ WalkInv' /\ tally' = tally
      BY <2>2, <3>2, ReadKeeps
    <3>4. CountInv'
      BY <2>1, <3>2, <3>3 DEF CountInv, NoTally
    <3>. QED BY <3>3, <3>4
  <2>3. CASE ReadTable(apiEndpoints)
    <3>1. tally.left # {} /\ UNCHANGED <<stage, entries, samples, proc, always, ever, sharers>>
      BY <2>3 DEF ReadTable, walk, lives
    <3>2. pc = "conns"
      BY <3>1 DEF CountInv, NoTally
    <3>. QED BY <2>1, <2>3, <3>1, <3>2, TableKeeps, WalkKept
  <2>. QED BY <1>14, <2>2, <2>3 DEF Sample
<1>15. CASE Processes
  <2>1. pc' = pc /\ command' = command /\ ProcessStep
    BY <1>15 DEF Processes, benchVars
  <2>. QED BY <2>1, ProcessKeeps, MovesKeepCount
<1>. QED BY <1>1, <1>2, <1>3, <1>4, <1>5, <1>6, <1>7, <1>8, <1>9, <1>10, <1>11, <1>12, <1>13,
            <1>14, <1>15 DEF Next, Run

\* Every step keeps what the line counter knows of the file.
LEMMA SizesStep ==
    ASSUME SizesTypeOK, LineInv, Next
    PROVE  SizesTypeOK' /\ LineInv'
<1>1. CASE MeasureSizes
  BY <1>1, SizesKeep
<1>2. CASE UNCHANGED sizeVars
  BY <1>2 DEF sizeVars, SizesTypeOK, LineInv
<1>. QED BY <1>1, <1>2 DEF Next, Run, StartRun, Judge, Settle, OpenWindow, ScrapeBefore,
       CloseWindow, ScrapeAfter, AppendWindow, Healthy, Size, WriteRecord, PrintRun, Sample,
       Processes, Cancel

\* What there is besides the walk, the count and the lines.
CommandTypeOK ==
    /\ command \in Commands
    /\ cancelled \in BOOLEAN
    /\ pc \in {"start", "count", "settle", "open", "before", "window", "close", "after",
               "conns", "health", "sizes", "record", "print", "exit"}
    /\ window \in WindowRecord
    /\ scraped \in BOOLEAN
    /\ windows \in Seq(WindowRecord) /\ Len(windows) <= 2
    /\ preErr \in BOOLEAN /\ runErr \in BOOLEAN /\ disk \in BOOLEAN /\ printed \in BOOLEAN

\* A window that is appended is the last, after those there were.
LEMMA AppendFacts ==
    ASSUME NEW S, NEW s \in Seq(S), NEW e \in S
    PROVE  /\ Len(s) \in Nat
           /\ Append(s, e) \in Seq(S) /\ Len(Append(s, e)) = Len(s) + 1
           /\ Append(s, e)[Len(s) + 1] = e
           /\ \A i \in 1 .. Len(s) : Append(s, e)[i] = s[i]
OBVIOUS

\* A window with fields changed, whatever they hold.
LEMMA WindowChanges ==
    ASSUME NEW w, w = [name |-> w.name, full |-> w.full, measured |-> w.measured, noted |-> w.noted],
           NEW x
    PROVE  /\ [w EXCEPT !.name = x]
                = [name |-> x, full |-> w.full, measured |-> w.measured, noted |-> w.noted]
           /\ [w EXCEPT !.full = x]
                = [name |-> w.name, full |-> x, measured |-> w.measured, noted |-> w.noted]
<1>1. [w EXCEPT !.name = x]
        = [name |-> x, full |-> w.full, measured |-> w.measured, noted |-> w.noted]
  OBVIOUS
<1>2. [w EXCEPT !.full = x]
        = [name |-> w.name, full |-> x, measured |-> w.measured, noted |-> w.noted]
  OBVIOUS
<1>. QED BY <1>1, <1>2, Zenon

\* A window whose scrapes are noted.
LEMMA WindowNoted ==
    ASSUME NEW w, w = [name |-> w.name, full |-> w.full, measured |-> w.measured, noted |-> w.noted],
           NEW m, NEW n
    PROVE  /\ [w EXCEPT !.measured = m, !.noted = n].name = w.name
           /\ [w EXCEPT !.measured = m, !.noted = n].full = w.full
           /\ [w EXCEPT !.measured = m, !.noted = n].measured = m
           /\ [w EXCEPT !.measured = m, !.noted = n].noted = n
OBVIOUS

\* ... is still one, whatever its fields range over.
LEMMA WindowTyped ==
    ASSUME NEW A, NEW B, NEW C, NEW D, NEW w \in [name : A, full : B, measured : C, noted : D],
           NEW m \in C, NEW n \in D
    PROVE  [w EXCEPT !.measured = m, !.noted = n] \in [name : A, full : B, measured : C, noted : D]
OBVIOUS

\* A window that ends records whether it ran to its end.
LEMMA WindowClosed ==
    ASSUME NEW w \in WindowRecord, NEW f \in BOOLEAN
    PROVE  /\ [w EXCEPT !.full = f] \in WindowRecord
           /\ [w EXCEPT !.full = f].name = w.name /\ [w EXCEPT !.full = f].full = f
<1>1. w = [name |-> w.name, full |-> w.full, measured |-> w.measured, noted |-> w.noted]
  BY DEF WindowRecord
<1>2. [w EXCEPT !.full = f]
        = [name |-> w.name, full |-> f, measured |-> w.measured, noted |-> w.noted]
  BY <1>1, WindowChanges, Zenon
<1>3. [w EXCEPT !.full = f].name = w.name /\ [w EXCEPT !.full = f].full = f
  BY <1>2
<1>4. [w EXCEPT !.full = f] \in WindowRecord
  BY DEF WindowRecord
<1>. QED BY <1>3, <1>4, Zenon

\* A window that was scraped records whether that measured anything.
LEMMA WindowScraped ==
    ASSUME NEW w \in WindowRecord, NEW m \in BOOLEAN, NEW n \in BOOLEAN
    PROVE  /\ [w EXCEPT !.measured = m, !.noted = n] \in WindowRecord
           /\ [w EXCEPT !.measured = m, !.noted = n].name = w.name
           /\ [w EXCEPT !.measured = m, !.noted = n].full = w.full
           /\ [w EXCEPT !.measured = m, !.noted = n].measured = m
           /\ [w EXCEPT !.measured = m, !.noted = n].noted = n
<1>1. w = [name |-> w.name, full |-> w.full, measured |-> w.measured, noted |-> w.noted]
  BY DEF WindowRecord
<1>2. [w EXCEPT !.measured = m, !.noted = n] \in WindowRecord
  BY WindowTyped, Zenon DEF WindowRecord
<1>3. /\ [w EXCEPT !.measured = m, !.noted = n].name = w.name
      /\ [w EXCEPT !.measured = m, !.noted = n].full = w.full
      /\ [w EXCEPT !.measured = m, !.noted = n].measured = m
      /\ [w EXCEPT !.measured = m, !.noted = n].noted = n
  BY <1>1, WindowNoted, Zenon
<1>. QED BY <1>2, <1>3, Zenon

\* A window that has not begun has nothing to claim.
LEMMA FreshWindow ==
    ASSUME NEW k \in {"idle", "change"}
    PROVE  [NoWindow EXCEPT !.name = k] \in WindowRecord /\ [NoWindow EXCEPT !.name = k].name = k
<1>1. NoWindow = [name |-> NoWindow.name, full |-> NoWindow.full,
                  measured |-> NoWindow.measured, noted |-> NoWindow.noted]
  BY DEF NoWindow
<1>2. NoWindow.full = FALSE /\ NoWindow.measured = FALSE /\ NoWindow.noted = FALSE
  BY DEF NoWindow
<1>3. [NoWindow EXCEPT !.name = k]
        = [name |-> k, full |-> NoWindow.full, measured |-> NoWindow.measured,
           noted |-> NoWindow.noted]
  BY <1>1, WindowChanges, Zenon
<1>4. [NoWindow EXCEPT !.name = k]
        = [name |-> k, full |-> FALSE, measured |-> FALSE, noted |-> FALSE]
  BY <1>2, <1>3, Zenon
<1>. QED BY <1>4 DEF WindowRecord

\* A command that fails has printed nothing, and goes no further than its record.
LEMMA FailureKeeps ==
    ASSUME CommandTypeOK, RunInv, command.name = "run", pc \notin {"print", "exit"}, Fails,
           UNCHANGED <<command, cancelled, windows, disk, printed>>,
           scraped' \in BOOLEAN, window' \in WindowRecord, preErr' \in BOOLEAN
    PROVE  CommandTypeOK' /\ RunInv'
<1>1. runErr' = TRUE /\ pc' = "record" /\ ~printed
  BY DEF Fails, Goto, RunInv
<1>2. CommandTypeOK'
  BY <1>1 DEF CommandTypeOK
<1>3. RunInv'
  BY <1>1 DEF RunInv
<1>. QED BY <1>2, <1>3

\* Up to the first window.
LEMMA StartKeepsRun ==
    ASSUME CommandTypeOK, RunInv, StartRun \/ Judge \/ Settle \/ OpenWindow \/ ScrapeBefore
    PROVE  CommandTypeOK' /\ RunInv'
<1>0. command.name \in {"run", "size"}
  BY BenchAssumption DEF CommandTypeOK
<1>1. CASE StartRun
  <2>1. /\ pc = "start" /\ pc' = "count" /\ command.name = "run"
        /\ UNCHANGED <<command, cancelled, window, scraped, windows, preErr, runErr, disk, printed>>
    BY <1>1 DEF StartRun, Goto
  <2>2. CommandTypeOK'
    BY <2>1 DEF CommandTypeOK
  <2>3. RunInv'
    BY <2>1 DEF RunInv, InWindow
  <2>. QED BY <2>2, <2>3
<1>2. CASE Judge
  <2>1. pc = "count" /\ UNCHANGED <<command, cancelled, window, scraped, windows, disk, printed>>
    BY <1>2 DEF Judge
  <2>2. command.name = "run"
    BY <1>0, <2>1 DEF RunInv
  <2>3. CASE pc' = "settle" /\ preErr' = preErr /\ runErr' = runErr
    <3>1. CommandTypeOK'
      BY <2>1, <2>3 DEF CommandTypeOK
    <3>2. RunInv'
      BY <2>1, <2>2, <2>3 DEF RunInv, InWindow
    <3>. QED BY <3>1, <3>2
  <2>4. CASE preErr' = TRUE /\ Fails
    <3>1. scraped' \in BOOLEAN /\ window' \in WindowRecord /\ preErr' \in BOOLEAN
      BY <2>1, <2>4 DEF CommandTypeOK
    <3>. QED BY <2>1, <2>2, <2>4, <3>1, FailureKeeps
  <2>. QED BY <1>2, <2>3, <2>4 DEF Judge, Goto
<1>3. CASE Settle
  <2>1. /\ pc = "settle" /\ window' \in WindowRecord /\ window'.name = "idle"
        /\ UNCHANGED <<command, cancelled, scraped, windows, preErr, disk, printed>>
    BY <1>3, FreshWindow DEF Settle
  <2>2. command.name = "run"
    BY <1>0, <2>1 DEF RunInv
  <2>3. CASE pc' = "open" /\ runErr' = runErr
    <3>1. CommandTypeOK'
      BY <2>1, <2>3 DEF CommandTypeOK
    <3>2. RunInv'
      BY <2>1, <2>2, <2>3 DEF RunInv, InWindow
    <3>. QED BY <3>1, <3>2
  <2>4. CASE Fails
    <3>1. scraped' \in BOOLEAN /\ preErr' \in BOOLEAN
      BY <2>1 DEF CommandTypeOK
    <3>. QED BY <2>1, <2>2, <2>4, <3>1, FailureKeeps
  <2>. QED BY <1>3, <2>3, <2>4 DEF Settle, Goto
<1>4. CASE OpenWindow
  <2>1. /\ pc = "open" /\ pc' = "before"
        /\ UNCHANGED <<command, cancelled, window, scraped, windows, preErr, runErr, disk, printed>>
    BY <1>4 DEF OpenWindow, Goto
  <2>2. CommandTypeOK'
    BY <2>1 DEF CommandTypeOK
  <2>3. RunInv'
    BY <1>0, <2>1 DEF RunInv, InWindow, Good, Marked
  <2>. QED BY <2>2, <2>3
<1>5. CASE ScrapeBefore
  <2>1. /\ pc = "before" /\ pc' = "window" /\ scraped' \in BOOLEAN
        /\ UNCHANGED <<command, cancelled, window, windows, preErr, runErr, disk, printed>>
    BY <1>5 DEF ScrapeBefore, Goto
  <2>2. CommandTypeOK'
    BY <2>1 DEF CommandTypeOK
  <2>3. RunInv'
    BY <1>0, <2>1 DEF RunInv, InWindow, Good, Marked
  <2>. QED BY <2>2, <2>3
<1>. QED BY <1>1, <1>2, <1>3, <1>4, <1>5

\* The end of a window, and the boundary after it.
LEMMA WindowKeepsRun ==
    ASSUME CommandTypeOK, RunInv, CloseWindow \/ ScrapeAfter \/ AppendWindow \/ Healthy
    PROVE  CommandTypeOK' /\ RunInv'
<1>0. command.name \in {"run", "size"} /\ window \in WindowRecord /\ windows \in Seq(WindowRecord)
  BY BenchAssumption DEF CommandTypeOK
<1>. DEFINE Measuring == command.name = "run" /\ ~runErr /\ window.name \in {"idle", "change"}
<1>1. CASE CloseWindow
  <2>1. /\ pc = "window"
        /\ UNCHANGED <<command, cancelled, scraped, windows, preErr, disk, printed>>
    BY <1>1 DEF CloseWindow
  <2>2. Measuring
    BY <1>0, <2>1 DEF RunInv, InWindow
  <2>3. CASE window' = [window EXCEPT !.full = ~cancelled] /\ pc' = "close" /\ runErr' = runErr
    <3>1. PICK f \in BOOLEAN : f = ~cancelled
      BY Zenon
    <3>a. window' = [window EXCEPT !.full = f]
      BY <2>3, <3>1, Zenon
    <3>b. window' \in WindowRecord /\ window'.name = window.name /\ window'.full = f
      BY <1>0, <3>a, WindowClosed, Zenon
    <3>2. window' \in WindowRecord /\ window'.name = window.name /\ (window'.full \/ cancelled)
      BY <3>1, <3>b, Zenon
    <3>3. CommandTypeOK'
      BY <2>1, <2>3, <3>2 DEF CommandTypeOK
    <3>4. RunInv'
      BY <2>1, <2>2, <2>3, <3>2 DEF RunInv, InWindow, Good, Marked
    <3>. QED BY <3>3, <3>4
  <2>4. CASE Fails /\ window' = window
    <3>1. scraped' \in BOOLEAN /\ window' \in WindowRecord /\ preErr' \in BOOLEAN
      BY <2>1, <2>4 DEF CommandTypeOK
    <3>. QED BY <2>1, <2>2, <2>4, <3>1, FailureKeeps
  <2>. QED BY <1>1, <2>3, <2>4 DEF CloseWindow, Goto
<1>2. CASE ScrapeAfter
  <2>1. /\ pc = "close" /\ pc' = "conns"
        /\ UNCHANGED <<command, cancelled, scraped, windows, preErr, runErr, disk, printed>>
    BY <1>2 DEF ScrapeAfter, Goto
  <2>2. Measuring /\ (window.full \/ cancelled)
    BY <1>0, <2>1 DEF RunInv, InWindow
  <2>3. PICK measured \in IF scraped /\ ~cancelled THEN BOOLEAN ELSE {FALSE} :
          window' = [window EXCEPT !.measured = measured, !.noted = ~measured]
    BY <1>2 DEF ScrapeAfter
  <2>4. measured \in BOOLEAN /\ (cancelled => ~measured)
    BY <2>3
  <2>a. PICK noted \in BOOLEAN : noted = ~measured
    BY Zenon
  <2>b. window' = [window EXCEPT !.measured = measured, !.noted = noted]
    BY <2>3, <2>a, Zenon
  <2>5. /\ window' \in WindowRecord /\ window'.name = window.name /\ window'.full = window.full
        /\ window'.measured = measured /\ window'.noted = noted
    BY <1>0, <2>4, <2>b, WindowScraped, Zenon
  <2>6. Marked(window')
    BY <2>2, <2>4, <2>5, <2>a, Zenon DEF Marked
  <2>7. CommandTypeOK'
    BY <2>1, <2>5 DEF CommandTypeOK
  <2>8. RunInv'
    BY <2>1, <2>2, <2>5, <2>6 DEF RunInv, InWindow, Good, Marked
  <2>. QED BY <2>7, <2>8
<1>3. CASE AppendWindow
  <2>1. /\ pc = "conns" /\ pc' = "health" /\ windows' = Append(windows, window)
        /\ UNCHANGED <<command, cancelled, window, scraped, preErr, runErr, disk, printed>>
    BY <1>3 DEF AppendWindow, Goto
  <2>2. Measuring /\ Marked(window) /\ (window.full \/ cancelled)
    BY <1>0, <2>1 DEF RunInv, InWindow
  <2>3. /\ windows' \in Seq(WindowRecord) /\ Len(windows') = Len(windows) + 1
        /\ windows'[Len(windows')] = window /\ Len(windows) \in Nat
        /\ \A i \in 1 .. Len(windows) : windows'[i] = windows[i]
    BY <1>0, <2>1, AppendFacts
  <2>4. CASE window.name = "idle"
    <3>1. windows = << >>
      BY <2>1, <2>2, <2>4 DEF RunInv, InWindow
    <3>2. Len(windows') = 1 /\ windows'[1] = window
      <4>1. Len(windows) = 0
        BY <3>1
      <4>. QED BY <2>3, <4>1
    <3>3. CommandTypeOK'
      BY <2>1, <2>3, <3>2 DEF CommandTypeOK
    <3>4. RunInv'
      BY <2>1, <2>2, <2>4, <3>2 DEF RunInv, InWindow, Good, Marked
    <3>. QED BY <3>3, <3>4
  <2>5. CASE window.name = "change"
    <3>1. Len(windows) = 1 /\ windows[1].name = "idle" /\ Good(windows[1])
      BY <2>1, <2>2, <2>5 DEF RunInv, InWindow
    <3>2. Len(windows') = 2 /\ windows'[2] = window /\ windows'[1] = windows[1]
      BY <2>3, <3>1
    <3>3. CommandTypeOK'
      BY <2>1, <2>3, <3>2 DEF CommandTypeOK
    <3>4. RunInv'
      BY <2>1, <2>2, <2>5, <3>1, <3>2 DEF RunInv, InWindow, Good, Marked
    <3>. QED BY <3>3, <3>4
  <2>. QED BY <2>2, <2>4, <2>5
<1>4. CASE Healthy
  <2>1. /\ pc = "health" /\ NextWindow
        /\ UNCHANGED <<command, cancelled, scraped, windows, preErr, disk, printed>>
    BY <1>4 DEF Healthy
  <2>2. Measuring
    BY <1>0, <2>1 DEF RunInv, InWindow
  <2>3. /\ window' \in WindowRecord
        /\ window.name = "idle" => window'.name = "change"
        /\ window.name = "change" => window' = window
    BY <1>0, <2>1, FreshWindow DEF NextWindow
  <2>4. CASE Fails
    <3>1. scraped' \in BOOLEAN /\ preErr' \in BOOLEAN
      BY <2>1 DEF CommandTypeOK
    <3>. QED BY <2>1, <2>2, <2>3, <2>4, <3>1, FailureKeeps
  <2>5. CASE /\ pc' = Boundary /\ runErr' = runErr
             /\ command.arm = "perseid" => ~cancelled
    <3>1. command.arm \in {"cr", "perseid"}
      BY BenchAssumption DEF CommandTypeOK
    <3>2. Len(windows) = IF window.name = "idle" THEN 1 ELSE 2
      BY <2>1, <2>2 DEF RunInv, InWindow
    <3>3. Good(windows[Len(windows)])
      BY <2>1, <2>2, <2>5, <3>1 DEF RunInv, InWindow, Good, Marked
    <3>4. CommandTypeOK'
      BY <2>1, <2>3, <2>5 DEF CommandTypeOK, Boundary
    <3>5. CASE window.name = "idle"
      <4>1. /\ pc' = "open" /\ window'.name = "change" /\ Len(windows) = 1
            /\ windows[1].name = "idle" /\ Good(windows[1])
        BY <2>1, <2>2, <2>3, <2>5, <3>2, <3>3, <3>5 DEF Boundary, RunInv
      <4>2. RunInv'
        BY <2>1, <2>2, <2>5, <4>1 DEF RunInv, InWindow, Good, Marked
      <4>. QED BY <3>4, <4>2
    <3>6. CASE window.name = "change"
      <4>1. /\ pc' = "record" /\ Len(windows) = 2 /\ Good(windows[2])
            /\ windows[1].name = "idle" /\ windows[2].name = "change" /\ Good(windows[1])
        BY <2>1, <2>2, <2>5, <3>2, <3>3, <3>6 DEF Boundary, RunInv
      <4>2. RunInv'
        BY <2>1, <2>2, <2>5, <4>1 DEF RunInv, InWindow, Good, Marked
      <4>. QED BY <3>4, <4>2
    <3>. QED BY <2>2, <3>5, <3>6
  <2>. QED BY <1>4, <2>4, <2>5 DEF Healthy, Unless, Goto
<1>. QED BY <1>1, <1>2, <1>3, <1>4

\* size, the record and the table.
LEMMA EndKeepsRun ==
    ASSUME CommandTypeOK, RunInv, Size \/ WriteRecord \/ PrintRun
    PROVE  CommandTypeOK' /\ RunInv'
<1>0. command.name \in {"run", "size"}
  BY BenchAssumption DEF CommandTypeOK
<1>1. CASE Size
  <2>1. /\ pc \in {"start", "sizes"} /\ command.name = "size"
        /\ UNCHANGED <<command, cancelled, window, scraped, windows, preErr, disk, printed>>
    BY <1>1 DEF Size
  <2>2. windows = << >> /\ ~printed /\ ~runErr /\ ~preErr
    BY <2>1 DEF RunInv
  <2>3. CASE runErr' = TRUE /\ pc' = "exit"
    <3>1. CommandTypeOK'
      BY <2>1, <2>3 DEF CommandTypeOK
    <3>2. RunInv'
      BY <2>1, <2>2, <2>3 DEF RunInv
    <3>. QED BY <3>1, <3>2
  <2>4. CASE runErr' = runErr /\ pc' = IF file' = "counted" THEN "record" ELSE "sizes"
    <3>1. CommandTypeOK'
      BY <2>1, <2>4 DEF CommandTypeOK
    <3>2. RunInv'
      BY <2>1, <2>2, <2>4 DEF RunInv
    <3>. QED BY <3>1, <3>2
  <2>. QED BY <1>1, <2>3, <2>4 DEF Size, Goto
<1>2. CASE WriteRecord
  <2>1. /\ pc = "record" /\ file' = file
        /\ UNCHANGED <<command, cancelled, window, scraped, windows, preErr, runErr, printed>>
        /\ \/ disk' = TRUE /\ pc' = IF runErr THEN "exit" ELSE "print"
           \/ pc' = "exit" /\ disk' = disk
    BY <1>2 DEF WriteRecord, Goto, sizeVars
  <2>2. CommandTypeOK'
    BY <2>1 DEF CommandTypeOK
  <2>3. ~printed
    BY <2>1 DEF RunInv
  <2>4. RunInv'
    BY <1>0, <2>1, <2>3 DEF RunInv, InWindow, Good, Marked
  <2>. QED BY <2>2, <2>4
<1>3. CASE PrintRun
  <2>1. /\ pc = "print" /\ pc' = "exit" /\ printed' = TRUE /\ file' = file
        /\ UNCHANGED <<command, cancelled, window, scraped, windows, preErr, runErr, disk>>
    BY <1>3 DEF PrintRun, Goto, sizeVars
  <2>2. CommandTypeOK'
    BY <2>1 DEF CommandTypeOK
  <2>3. RunInv'
    BY <1>0, <2>1 DEF RunInv, InWindow, Good, Marked
  <2>. QED BY <2>2, <2>3
<1>. QED BY <1>1, <1>2, <1>3

\* What goes on around a command: nothing of it but that it may be cancelled.
LEMMA AroundKeepsRun ==
    ASSUME CommandTypeOK, RunInv, file' = file, cancelled' \in BOOLEAN, cancelled => cancelled',
           UNCHANGED <<command, pc, window, scraped, windows, preErr, runErr, disk, printed>>
    PROVE  CommandTypeOK' /\ RunInv'
<1>1. CommandTypeOK'
  BY DEF CommandTypeOK
<1>2. RunInv'
  BY DEF RunInv, InWindow, Good, Marked
<1>. QED BY <1>1, <1>2

\* Every step keeps what a command has done by its pc.
LEMMA CommandStep ==
    ASSUME CommandTypeOK, RunInv, Next
    PROVE  CommandTypeOK' /\ RunInv'
<1>1. CASE Sample \/ Processes
  <2>1. cancelled' = cancelled /\ cancelled \in BOOLEAN
    BY <1>1 DEF Sample, Processes, benchVars, CommandTypeOK
  <2>. QED BY <1>1, <2>1, AroundKeepsRun DEF Sample, Processes, benchVars, sizeVars
<1>2. CASE Cancel
  BY <1>2, AroundKeepsRun DEF Cancel, sizeVars
<1>. QED BY <1>1, <1>2, StartKeepsRun, WindowKeepsRun, EndKeepsRun DEF Next, Run

-----------------------------------------------------------------------------
(***************************************************************************)
(* The theorems.                                                           *)
(***************************************************************************)

\* The type invariant is that of the walk, of the lines and of the command.
LEMMA TypeParts == TypeOK <=> SamplingTypeOK /\ SizesTypeOK /\ CommandTypeOK
BY DEF TypeOK, CommandTypeOK

\* A command that has not begun claims nothing.
LEMMA InitHolds == Init => IInv
<1>. SUFFICES ASSUME Init PROVE IInv
  OBVIOUS
<1>1. SamplingTypeOK
  <2>1. /\ proc \in [Pids -> {"none", "supervisor", "worker", "foreign", "zombie", "gone"}]
        /\ moves = 0 /\ stage = "idle" /\ entries = {} /\ samples = << >> /\ tally = NoTally
        /\ always = {} /\ ever = {} /\ sharers = {} /\ kept = {} /\ held = {}
    BY DEF Init, SamplingInit
  <2>2. conns \subseteq Workers \X Addrs
    BY DEF Init, SamplingInit
  <2>3. DOMAIN samples = {} /\ moves \in 0 .. MaxMoves
    BY <2>1, BenchConstants
  <2>4. tally \in [left: SUBSET DOMAIN samples, next: Nat \ {0}, n: Nat, total: Nat,
                   complete: BOOLEAN]
    BY <2>1 DEF NoTally
  <2>. QED BY <2>1, <2>2, <2>3, <2>4 DEF SamplingTypeOK
<1>2. SizesTypeOK /\ LineInv
  <2>1. /\ file = "none" /\ read = 0 /\ cloc = 0 /\ inBlock = FALSE /\ tangled = FALSE
        /\ comment = FALSE /\ count = [code |-> 0, comment |-> 0, blank |-> 0]
        /\ images = [cr |-> 0, perseid |-> 0] /\ crossover = 0
    BY DEF Init, SizesInit
  <2>2. /\ read \in 0 .. MaxLines /\ cloc \in 0 .. read /\ images \in [cr: Nat, perseid: Nat]
        /\ count \in [code: 0 .. read, comment: 0 .. read, blank: 0 .. read]
        /\ count.code + count.comment + count.blank = read
    BY <2>1, SizesAssumption
  <2>. QED BY <2>1, <2>2 DEF SizesTypeOK, LineInv
<1>3. CommandTypeOK
  <2>1. NoWindow \in WindowRecord
    BY DEF NoWindow, WindowRecord
  <2>2. << >> \in Seq(WindowRecord) /\ Len(<< >>) <= 2
    OBVIOUS
  <2>3. /\ command \in Commands /\ cancelled = FALSE /\ pc = "start" /\ window = NoWindow
        /\ scraped = FALSE /\ windows = << >> /\ preErr = FALSE /\ runErr = FALSE
        /\ disk = FALSE /\ printed = FALSE
    BY DEF Init
  <2>. QED BY <2>1, <2>2, <2>3 DEF CommandTypeOK
<1>4. WalkInv
  BY DEF Init, SamplingInit, WalkInv, Walking, PssInv, PopulationBracket
<1>5. CountInv /\ RunInv
  BY DEF Init, SamplingInit, CountInv, RunInv, InWindow
<1>. QED BY <1>1, <1>2, <1>3, <1>4, <1>5, TypeParts DEF IInv

\* Every step, and every stutter, keeps the inductive invariant.
LEMMA StepKeeps == IInv /\ [Next]_vars => IInv'
<1>. SUFFICES ASSUME IInv, [Next]_vars PROVE IInv'
  OBVIOUS
<1>0. SamplingTypeOK /\ SizesTypeOK /\ CommandTypeOK /\ WalkInv /\ CountInv /\ LineInv /\ RunInv
  BY TypeParts DEF IInv
<1>1. CASE Next
  BY <1>0, <1>1, SamplingStep, SizesStep, CommandStep, TypeParts DEF IInv, TypeOK, CommandTypeOK
<1>2. CASE UNCHANGED vars
  <2>1. UNCHANGED benchVars /\ UNCHANGED samplingVars /\ UNCHANGED sizeVars
    BY <1>2 DEF vars
  <2>2. SamplingTypeOK' /\ WalkInv' /\ CountInv'
    BY <1>0, <2>1, Untouched DEF benchVars
  <2>3. SizesTypeOK' /\ LineInv'
    BY <1>0, <2>1 DEF sizeVars, SizesTypeOK, LineInv
  <2>4. cancelled' = cancelled /\ cancelled \in BOOLEAN
    BY <1>0, <2>1 DEF benchVars, CommandTypeOK
  <2>5. CommandTypeOK' /\ RunInv'
    BY <1>0, <2>1, <2>4, AroundKeepsRun DEF benchVars, sizeVars
  <2>. QED BY <2>2, <2>3, <2>5 DEF IInv, TypeOK, CommandTypeOK
<1>. QED BY <1>1, <1>2

\* A walk, a count, a file and the command around them are always as far as
\* the four parts of the invariant say.
THEOREM InductiveInvariant == Spec => []IInv
<1>. QED BY InitHolds, StepKeeps, PTL DEF Spec

\* Every variable of the two commands keeps its type.
THEOREM TypeCorrect == Spec => []TypeOK
<1>1. IInv => TypeOK
  BY DEF IInv
<1>. QED BY <1>1, InductiveInvariant, PTL

\* A finished walk of /proc has whoever was a worker throughout it and nobody
\* that never was one, for any number of processes that come and go in it.
THEOREM WalkKeepsTheWorkers == Spec => []PopulationBracket
<1>1. IInv => PopulationBracket
  BY DEF IInv, WalkInv
<1>. QED BY <1>1, InductiveInvariant, PTL

\* A complete PSS total has the text that only the workers share once, less the
\* division the kernel does for each of them, and no total is above the RSS.
THEOREM TextIsCountedOnce == Spec => []TextCountedOnce
<1>1. IInv => TextCountedOnce
  <2>. SUFFICES ASSUME IInv, stage = "sampled" PROVE TextCountedOnce
    BY DEF TextCountedOnce
  <2>. DEFINE n == Cardinality(DOMAIN samples)
              pss == Total(samples, DOMAIN samples)
  <2>1. SamplingTypeOK /\ WalkInv
    BY TypeParts DEF IInv
  <2>2. IsFiniteSet(DOMAIN samples) /\ n \in Nat
    <3>1. DOMAIN samples \in SUBSET Pids
      BY <2>1 DEF SamplingTypeOK
    <3>. QED BY <3>1, BenchConstants, Fewer
  <2>3. \A p \in DOMAIN samples : samples[p] \in Int /\ samples[p] <= Private + Shared
    BY <2>1, BenchConstants DEF SamplingTypeOK
  <2>4. Private + Shared \in Int
    BY BenchConstants
  <2>5. pss <= (Private + Shared) * n
    BY <2>2, <2>3, <2>4, TotalBound
  <2>6. ASSUME \A p \in DOMAIN samples : samples[p] # Unknown, sharers = always, n > 0
        PROVE  pss - Private * n \in Shared - (n - 1) .. Shared
    <3>. DEFINE share == Shared \div n
    <3>1. always = DOMAIN samples
      BY <2>1, <2>6 DEF WalkInv, PopulationBracket, SamplingTypeOK
    <3>2. \A p \in DOMAIN samples : samples[p] = Private + share
      BY <2>1, <2>6, <3>1 DEF WalkInv, PssInv
    <3>3. share \in Int /\ n * share <= Shared /\ Shared < n * share + n
      BY <2>2, <2>6, BenchConstants
    <3>4. pss = (Private + share) * n
      <4>1. Private + share \in Int
        BY <3>3, BenchConstants
      <4>. HIDE DEF share
      <4>. QED BY <2>2, <3>2, <4>1, TotalConstant
    <3>5. (Private + share) * n = Private * n + n * share
      <4>1. \A a, b, c \in Int : (a + b) * c = a * c + c * b
        OBVIOUS
      <4>. HIDE DEF share, n
      <4>. QED BY <2>2, <3>3, <4>1, BenchConstants
    <3>6. n * share \in Int /\ Private * n \in Int
      BY <2>2, <3>3, BenchConstants
    <3>. HIDE DEF share, n, pss
    <3>. QED BY <2>2, <3>3, <3>4, <3>5, <3>6, BenchConstants
  <2>. QED BY <2>5, <2>6 DEF TextCountedOnce, Totals
<1>. QED BY <1>1, InductiveInvariant, PTL

\* A total of connections is between those open throughout the count, if no
\* table was missed, and those open at some moment of it, if no address is
\* asked for twice.
THEOREM ConnectionsAreBracketed == Spec => []ConnsBracket
<1>1. IInv => ConnsBracket
  <2>1. SUFFICES ASSUME IInv, pc = "conns", tally.left = {}
                 PROVE  LET mine == (DOMAIN samples) \X Range(apiEndpoints) IN
                        /\ command.server # Service => tally.total <= Cardinality(held \cap mine)
                        /\ tally.complete => tally.total >= Cardinality(kept \cap mine)
    BY DEF ConnsBracket
  <2>2. Tallied = (DOMAIN samples) \X Range(apiEndpoints)
    BY <2>1 DEF Tallied, Counted
  <2>3. CountInv
    BY <2>1 DEF IInv
  <2>. QED BY <2>1, <2>2, <2>3 DEF CountInv
<1>. QED BY <1>1, InductiveInvariant, PTL

\* In a file of any length without a tangled line, one that has code and begins or
\* ends in a block comment or begins with one, or that has none and a "*/" and yet
\* ends in a comment, the lines counted as code are those that have some.
THEOREM CodeLinesAreCode == Spec => []CodeAgreesWithCloc
<1>1. IInv => CodeAgreesWithCloc
  BY DEF IInv, LineInv, CodeAgreesWithCloc
<1>. QED BY <1>1, InductiveInvariant, PTL

\* What is printed is on disk, of a command that failed nowhere; a window that
\* was cut short is printed for a manager only, and is marked.
THEOREM PrintedIsMeasured == Spec => []PrintedRunsPassed
<1>1. IInv => PrintedRunsPassed
  <2>1. SUFFICES ASSUME IInv, printed
                 PROVE  /\ disk /\ ~runErr /\ ~preErr
                        /\ command.name = "size" => file = "counted"
                        /\ command.name = "run" =>
                             /\ [i \in DOMAIN windows |-> windows[i].name] = <<"idle", "change">>
                             /\ \A i \in DOMAIN windows :
                                  windows[i].full \/ (command.arm = "cr" /\ ~windows[i].measured
                                                        /\ windows[i].noted)
    BY DEF PrintedRunsPassed
  <2>2. RunInv /\ windows \in Seq(WindowRecord)
    BY <2>1 DEF IInv, TypeOK
  <2>3. disk /\ ~runErr /\ ~preErr /\ pc = "exit"
    BY <2>1, <2>2 DEF RunInv
  <2>4. command.name = "size" => file = "counted"
    BY <2>2, <2>3 DEF RunInv
  <2>5. ASSUME command.name = "run"
        PROVE  /\ [i \in DOMAIN windows |-> windows[i].name] = <<"idle", "change">>
               /\ \A i \in DOMAIN windows :
                    windows[i].full \/ (command.arm = "cr" /\ ~windows[i].measured
                                          /\ windows[i].noted)
    <3>1. /\ Len(windows) = 2 /\ windows[1].name = "idle" /\ windows[2].name = "change"
          /\ Good(windows[1]) /\ Good(windows[2])
      BY <2>2, <2>3, <2>5 DEF RunInv
    <3>2. DOMAIN windows = 1 .. 2
      BY <2>2, <3>1
    <3>3. \A i \in DOMAIN windows : i = 1 \/ i = 2
      BY <3>2
    <3>4. [i \in DOMAIN windows |-> windows[i].name] = <<"idle", "change">>
      BY <3>1, <3>2
    <3>. QED BY <3>1, <3>3, <3>4 DEF Good, Marked
  <2>. QED BY <2>3, <2>4, <2>5
<1>. QED BY <1>1, InductiveInvariant, PTL

-----------------------------------------------------------------------------
(***************************************************************************)
(* Controls: what fixtures and converged may answer, for any number of     *)
(* pairs and any sequence of commands.  A proof of convergence is never    *)
(* lent by an earlier one, and a Fixtures that succeeds leaves exactly its *)
(* pairs, whatever the commands that failed before left behind.            *)
(*                                                                         *)
(* Neither is inductive.  The first rests on sentinels being fresh: no     *)
(* fixture holds a value past the last one made (FreshInv), so what a      *)
(* destination says of this proof it was told during it.  The second says  *)
(* what each phase of Fixtures has achieved so far (ExactInv).             *)
(***************************************************************************)

\* No sentinel was made that no command paid for, no fixture holds one from the
\* future, and a destination that holds the last one was relayed to it.
FreshInv ==
    /\ want =< issued
    /\ cmd.pc \in {"write", "poll"} => want > 0
    /\ \A k \in Keys : data[k] =< want
    /\ \A i \in Pairs : want > 0 /\ data[<<i, "dst">>] = want => i \in relayed

\* While creating, what was asked for exists so far; while deleting, what is
\* wanted exists, what is not is still on the list, and the list is of nothing
\* else.
ExactInv ==
    /\ cmd.pc = "create" => \A p \in 0 .. cmd.at - 1 : Fixture(Position(p))
    /\ cmd.pc = "delete" =>
         /\ \A k \in Keys : k[1] < cmd.n => Fixture(k)
         /\ \A k \in Keys : k[1] >= cmd.n /\ Fixture(k) => k \in stale
         /\ \A k \in stale : k[1] >= cmd.n

ControlsInv == ControlsTypeOK /\ FreshInv /\ ExactInv /\ ProvedByThisArm /\ FixturesAreExact

-----------------------------------------------------------------------------
(***************************************************************************)
(* The constants, the keys and what a command's phases are.                *)
(***************************************************************************)

\* The assumptions on the constants, as the proofs use them.
LEMMA ControlsConstants ==
    MaxN \in Nat /\ MaxN > 0 /\ MaxCommands \in Nat /\ MaxHiccups \in Nat
BY ControlsAssumption

\* What a fixture can hold.
FixtureData == {Absent, Empty} \cup 1 .. MaxCommands

\* The two keys of a pair.
LEMMA PairKeys ==
    ASSUME NEW i \in Pairs
    PROVE  <<i, "src">> \in Keys /\ <<i, "dst">> \in Keys /\ <<i, "src">> # <<i, "dst">>
BY DEF Keys

\* A command over n pairs reaches no others.
LEMMA PairsOfCommand ==
    ASSUME ControlsTypeOK, NEW i \in 0 .. cmd.n - 1
    PROVE  i \in Pairs
BY ControlsConstants DEF ControlsTypeOK, Pairs

\* The positions below 2 * n are the keys of the pairs below n.
LEMMA Positions ==
    ASSUME NEW n \in 0 .. MaxN
    PROVE  /\ \A p \in 0 .. 2 * n - 1 : Position(p) \in Keys
           /\ \A k \in Keys : k[1] < n => \E p \in 0 .. 2 * n - 1 : Position(p) = k
<1>1. n \in Nat /\ n =< MaxN
  BY ControlsConstants
<1>2. ASSUME NEW p \in 0 .. 2 * n - 1 PROVE Position(p) \in Keys
  <2>1. p \div 2 \in 0 .. MaxN - 1
    BY <1>1, <1>2, ControlsConstants
  <2>. QED BY <2>1 DEF Position, Keys, Pairs
<1>3. ASSUME NEW k \in Keys, k[1] < n PROVE \E p \in 0 .. 2 * n - 1 : Position(p) = k
  <2>1. k[1] \in 0 .. n - 1 /\ k[2] \in {"src", "dst"} /\ k = <<k[1], k[2]>>
    BY <1>1, <1>3, ControlsConstants DEF Keys, Pairs
  <2>2. CASE k[2] = "src"
    <3>1. 2 * k[1] \in 0 .. 2 * n - 1 /\ (2 * k[1]) \div 2 = k[1] /\ (2 * k[1]) % 2 = 0
      BY <1>1, <2>1
    <3>. QED BY <2>1, <2>2, <3>1 DEF Position
  <2>3. CASE k[2] = "dst"
    <3>1. /\ 2 * k[1] + 1 \in 0 .. 2 * n - 1
          /\ (2 * k[1] + 1) \div 2 = k[1] /\ (2 * k[1] + 1) % 2 # 0
      BY <1>1, <2>1
    <3>. QED BY <2>1, <2>3, <3>1 DEF Position
  <2>. QED BY <2>1, <2>2, <2>3
<1>. QED BY <1>2, <1>3

CommandRecord ==
    [pc: {"idle", "create", "delete", "write", "poll"}, n: 0 .. MaxN, at: 0 .. 2 * MaxN]

\* Reporting ends the command and leaves its n.
LEMMA ReportFacts ==
    ASSUME cmd \in CommandRecord, NEW r, Report(r)
    PROVE  cmd' \in CommandRecord /\ cmd'.pc = "idle" /\ cmd'.n = cmd.n /\ outcome' = r
BY DEF Report, CommandRecord

\* The next request of a command.
LEMMA NextRequest ==
    ASSUME cmd \in CommandRecord, cmd.at < 2 * MaxN, cmd' = [cmd EXCEPT !.at = @ + 1]
    PROVE  /\ cmd' \in CommandRecord
           /\ cmd'.pc = cmd.pc /\ cmd'.n = cmd.n /\ cmd'.at = cmd.at + 1
<1>1. cmd.at + 1 \in 0 .. 2 * MaxN
  BY ControlsConstants DEF CommandRecord
<1>. QED BY <1>1 DEF CommandRecord

\* The next phase of a command.
LEMMA NextPhase ==
    ASSUME cmd \in CommandRecord, NEW p \in {"delete", "poll"}, cmd' = [cmd EXCEPT !.pc = p]
    PROVE  /\ cmd' \in CommandRecord
           /\ cmd'.pc = p /\ cmd'.n = cmd.n /\ cmd'.at = cmd.at
BY DEF CommandRecord

-----------------------------------------------------------------------------
(***************************************************************************)
(* The actions, each with all of ControlsInv.                              *)
(***************************************************************************)

\* What ControlsInv says before a step, with the types spelled out.
LEMMA ControlsBefore ==
    ASSUME ControlsInv
    PROVE  /\ data \in [Keys -> FixtureData] /\ cmd \in CommandRecord
           /\ want \in Nat /\ want =< MaxCommands /\ want =< issued
           /\ issued \in Nat /\ issued =< MaxCommands
           /\ hiccups \in 0 .. MaxHiccups
           /\ outcome \in {"none", "exact", "proved", "error"}
           /\ stale \in SUBSET Keys /\ up \in SUBSET Pairs /\ relayed \in SUBSET Pairs
BY ControlsConstants DEF ControlsInv, ControlsTypeOK, FreshInv, FixtureData, CommandRecord

\* A new command touches nothing yet; a Fixtures has created nothing so far.
LEMMA StartFixturesStep ==
    ASSUME ControlsInv, NEW n \in 0 .. MaxN, StartFixtures(n)
    PROVE  ControlsInv'
<1>. USE DEF ControlsInv, StartFixtures, Issue
<1>1. /\ cmd'.pc = "create" /\ cmd'.n = n /\ cmd'.at = 0 /\ cmd' \in CommandRecord
      /\ issued' \in 0 .. MaxCommands /\ issued =< issued'
  BY ControlsBefore, ControlsConstants DEF CommandRecord
<1>2. ControlsTypeOK'
  BY <1>1, ControlsConstants DEF ControlsTypeOK, CommandRecord
<1>3. FreshInv'
  BY <1>1, ControlsBefore DEF FreshInv
<1>4. ExactInv'
  BY <1>1 DEF ExactInv
<1>. QED BY <1>1, <1>2, <1>3, <1>4 DEF ProvedByThisArm, FixturesAreExact

\* A new proof makes a sentinel nothing holds yet.
LEMMA StartProofStep ==
    ASSUME ControlsInv, NEW n \in 0 .. MaxN, NEW served \in SUBSET Pairs, StartProof(n, served)
    PROVE  ControlsInv'
<1>. USE DEF ControlsInv, StartProof, Issue
<1>1. /\ cmd'.pc = "write" /\ cmd'.n = n /\ cmd'.at = 0 /\ cmd' \in CommandRecord
      /\ issued' \in 0 .. MaxCommands /\ want' \in 0 .. MaxCommands /\ want' =< issued'
      /\ want < want' /\ want' > 0
  BY ControlsBefore, ControlsConstants DEF CommandRecord
<1>2. ControlsTypeOK'
  BY <1>1, ControlsConstants DEF ControlsTypeOK, CommandRecord
<1>3. \A k \in Keys : data[k] < want'
  <2>1. \A k \in Keys : data[k] =< want /\ data[k] \in Int
    BY ControlsBefore DEF FreshInv, FixtureData, Absent, Empty
  <2>. QED BY <1>1, <2>1, ControlsBefore
<1>4. FreshInv'
  <2>1. \A k \in Keys : data[k] =< want' /\ data[k] # want'
    <3>1. \A k \in Keys : data[k] \in Int
      BY ControlsBefore DEF FixtureData, Absent, Empty
    <3>. QED BY <1>1, <1>3, <3>1, ControlsBefore
  <2>. QED BY <1>1, <2>1, PairKeys DEF FreshInv
<1>5. ExactInv'
  BY <1>1 DEF ExactInv
<1>. QED BY <1>1, <1>2, <1>4, <1>5 DEF ProvedByThisArm, FixturesAreExact

\* A created fixture is empty, and one that was there is left alone.
LEMMA CreateFixtureStep ==
    ASSUME ControlsInv, CreateFixture
    PROVE  ControlsInv'
<1>. USE DEF ControlsInv
<1>1. /\ cmd.pc = "create" /\ cmd.at \in 0 .. 2 * cmd.n - 1 /\ cmd.n \in 0 .. MaxN
      /\ cmd.at < 2 * MaxN
  BY ControlsBefore, ControlsConstants DEF CreateFixture, CommandRecord
<1>2. PICK k \in Keys : k = Position(cmd.at)
  BY <1>1, Positions
<1>3. /\ cmd' \in CommandRecord /\ cmd'.pc = "create" /\ cmd'.n = cmd.n
      /\ cmd'.at = cmd.at + 1
  BY <1>1, ControlsBefore, NextRequest DEF CreateFixture
<1>4. /\ data' \in [Keys -> FixtureData]
      /\ data'[k] # Absent
      /\ \A j \in Keys : data'[j] = data[j] \/ (data[j] = Absent /\ data'[j] = Empty)
  <2>1. CASE Fixture(k)
    BY <1>2, <2>1, ControlsBefore DEF CreateFixture, Fixture
  <2>2. CASE ~Fixture(k)
    <3>1. data' = [data EXCEPT ![k] = Empty] /\ data[k] = Absent
      BY <1>2, <2>2 DEF CreateFixture, Fixture
    <3>. QED BY <3>1, ControlsBefore DEF FixtureData, Fixture, Empty, Absent
  <2>. QED BY <2>1, <2>2
<1>5. UNCHANGED <<want, stale, up, relayed, outcome, issued, hiccups>>
  BY DEF CreateFixture
<1>6. ControlsTypeOK'
  BY <1>1, <1>3, <1>4, <1>5, ControlsConstants DEF ControlsTypeOK, CommandRecord, FixtureData
<1>7. FreshInv'
  <2>1. \A j \in Keys : data'[j] =< want
    BY <1>4, ControlsBefore DEF FreshInv, Empty
  <2>2. ASSUME NEW i \in Pairs, want > 0, data'[<<i, "dst">>] = want PROVE i \in relayed
    <3>1. <<i, "dst">> \in Keys
      BY PairKeys
    <3>. QED BY <1>4, <2>2, <3>1 DEF FreshInv, Empty
  <2>. QED BY <1>3, <1>5, <2>1, <2>2, ControlsBefore DEF FreshInv
<1>8. ExactInv'
  <2>. SUFFICES ASSUME NEW p \in 0 .. cmd.at PROVE Fixture(Position(p))'
    BY <1>1, <1>3 DEF ExactInv
  <2>1. CASE p = cmd.at
    <3>1. Position(p) = k
      BY <1>2, <2>1
    <3>. QED BY <1>4, <3>1 DEF Position, Fixture
  <2>2. CASE p # cmd.at
    <3>1. p \in 0 .. cmd.at - 1 /\ p \in 0 .. 2 * cmd.n - 1
      BY <1>1, <2>2
    <3>2. Position(p) \in Keys /\ Fixture(Position(p))
      BY <1>1, <3>1, Positions DEF ExactInv
    <3>3. data'[Position(p)] # Absent
      BY <1>4, <3>2 DEF Fixture, Empty, Absent
    <3>. QED BY <3>3 DEF Fixture, Position
  <2>. QED BY <2>1, <2>2
<1>. QED BY <1>3, <1>6, <1>7, <1>8 DEF ProvedByThisArm, FixturesAreExact

\* Once every wanted fixture was created, what is not wanted is listed.
LEMMA ListStaleStep ==
    ASSUME ControlsInv, ListStale
    PROVE  ControlsInv'
<1>. USE DEF ControlsInv
<1>1. cmd.pc = "create" /\ cmd.at = 2 * cmd.n /\ cmd.n \in 0 .. MaxN
  BY ControlsBefore DEF ListStale, CommandRecord
<1>2. /\ cmd' \in CommandRecord /\ cmd'.pc = "delete" /\ cmd'.n = cmd.n
      /\ cmd'.at = cmd.at
  BY ControlsBefore, NextPhase DEF ListStale
<1>3. /\ stale' = {k \in Keys : Fixture(k) /\ k[1] >= cmd.n}
      /\ UNCHANGED <<data, want, up, relayed, outcome, issued, hiccups>>
  BY DEF ListStale
<1>4. ControlsTypeOK'
  BY <1>2, <1>3 DEF ControlsTypeOK, CommandRecord
<1>5. FreshInv'
  BY <1>1, <1>2, <1>3 DEF FreshInv
<1>6. ExactInv'
  <2>1. \A k \in Keys : k[1] < cmd.n => Fixture(k)
    BY <1>1, Positions DEF ExactInv
  <2>2. \A k \in Keys : Fixture(k)' = Fixture(k)
    BY <1>3 DEF Fixture
  <2>. QED BY <1>2, <1>3, <2>1, <2>2 DEF ExactInv
<1>. QED BY <1>2, <1>4, <1>5, <1>6 DEF ProvedByThisArm, FixturesAreExact

\* One unwanted fixture goes, or none is left and the answer is "exact".
LEMMA DeleteStaleStep ==
    ASSUME ControlsInv, DeleteStale
    PROVE  ControlsInv'
<1>. USE DEF ControlsInv
<1>0. cmd.pc = "delete" /\ UNCHANGED <<want, up, relayed, issued, hiccups>>
  BY DEF DeleteStale
<1>1. CASE stale # {}
  <2>1. PICK k \in stale : stale' = stale \ {k} /\ data' = [data EXCEPT ![k] = Absent]
    BY <1>1 DEF DeleteStale
  <2>2. UNCHANGED <<cmd, outcome>>
    BY <1>1 DEF DeleteStale
  <2>3. /\ k \in Keys /\ k[1] >= cmd.n /\ data' \in [Keys -> FixtureData] /\ data'[k] = Absent
        /\ \A j \in Keys : j # k => data'[j] = data[j]
    BY <1>0, <2>1, ControlsBefore DEF ExactInv, FixtureData
  <2>4. ControlsTypeOK'
    BY <1>0, <2>1, <2>2, <2>3 DEF ControlsTypeOK, FixtureData
  <2>5. FreshInv'
    <3>1. \A j \in Keys : data'[j] =< want
      BY <2>3, ControlsBefore DEF FreshInv, Absent
    <3>2. ASSUME NEW i \in Pairs, want > 0, data'[<<i, "dst">>] = want PROVE i \in relayed
      <4>1. <<i, "dst">> \in Keys
        BY PairKeys
      <4>. QED BY <2>3, <3>2, <4>1 DEF FreshInv, Absent
    <3>. QED BY <1>0, <2>2, <3>1, <3>2, ControlsBefore DEF FreshInv
  <2>6. ExactInv'
    <3>1. \A j \in Keys : j[1] < cmd.n => j # k
      <4>1. cmd.n \in Int /\ \A j \in Keys : j[1] \in Int
        BY ControlsBefore DEF CommandRecord, Keys, Pairs
      <4>. QED BY <2>3, <4>1
    <3>. QED BY <1>0, <2>1, <2>2, <2>3, <3>1 DEF ExactInv, Fixture
  <2>. QED BY <1>0, <2>2, <2>4, <2>5, <2>6 DEF ProvedByThisArm, FixturesAreExact
<1>2. CASE stale = {}
  <2>1. Report("exact") /\ UNCHANGED <<data, stale>>
    BY <1>2 DEF DeleteStale
  <2>2. cmd' \in CommandRecord /\ cmd'.pc = "idle" /\ cmd'.n = cmd.n /\ outcome' = "exact"
    BY <2>1, ControlsBefore, ReportFacts
  <2>3. ControlsTypeOK' /\ FreshInv' /\ ExactInv'
    BY <1>0, <2>1, <2>2 DEF ControlsTypeOK, FreshInv, ExactInv, CommandRecord
  <2>4. FixturesAreExact'
    <3>1. \A k \in Keys : Fixture(k)' <=> k[1] < cmd.n
      <4>1. cmd.n \in Int /\ \A j \in Keys : j[1] \in Int
        BY ControlsBefore DEF CommandRecord, Keys, Pairs
      <4>. QED BY <1>0, <1>2, <2>1, <4>1 DEF ExactInv, Fixture
    <3>. QED BY <2>2, <3>1 DEF FixturesAreExact
  <2>. QED BY <2>2, <2>3, <2>4 DEF ProvedByThisArm
<1>. QED BY <1>1, <1>2

\* A sentinel is written into a source, where it is of no use to a proof.
LEMMA WriteSentinelStep ==
    ASSUME ControlsInv, WriteSentinel
    PROVE  ControlsInv'
<1>. USE DEF ControlsInv
<1> DEFINE s == <<cmd.at, "src">>
<1>0. cmd.pc = "write" /\ UNCHANGED <<want, stale, up, relayed, issued, hiccups>>
  BY DEF WriteSentinel
<1>1. CASE cmd.at < cmd.n /\ Fixture(s)
  <2>1. data' = [data EXCEPT ![s] = want] /\ cmd' = [cmd EXCEPT !.at = @ + 1]
        /\ outcome' = outcome
    BY <1>1, ControlsBefore DEF WriteSentinel, CommandRecord
  <2>2. /\ cmd.at \in Pairs /\ cmd.at < 2 * MaxN /\ want \in 1 .. MaxCommands
        /\ cmd.at + 1 =< cmd.n
    BY <1>0, <1>1, ControlsBefore, ControlsConstants DEF CommandRecord, Pairs, FreshInv
  <2>3. /\ data' \in [Keys -> FixtureData] /\ data'[s] = want
        /\ \A j \in Keys : j # s => data'[j] = data[j]
        /\ \A i \in Pairs : data'[<<i, "dst">>] = data[<<i, "dst">>]
    BY <2>1, <2>2, ControlsBefore, PairKeys DEF FixtureData
  <2>4. cmd' \in CommandRecord /\ cmd'.pc = "write" /\ cmd'.n = cmd.n
        /\ cmd'.at = cmd.at + 1
    BY <1>0, <2>1, <2>2, ControlsBefore, NextRequest
  <2>. HIDE DEF s
  <2>5. ControlsTypeOK'
    BY <1>0, <2>1, <2>2, <2>3, <2>4 DEF ControlsTypeOK, CommandRecord, FixtureData
  <2>6. FreshInv'
    BY <1>0, <2>3, <2>4, ControlsBefore DEF FreshInv
  <2>. QED BY <2>4, <2>5, <2>6 DEF ExactInv, ProvedByThisArm, FixturesAreExact
<1>2. CASE cmd.at < cmd.n /\ ~Fixture(s)
  <2>1. Report("error") /\ data' = data
    BY <1>2, ControlsBefore DEF WriteSentinel, CommandRecord
  <2>2. cmd' \in CommandRecord /\ cmd'.pc = "idle" /\ cmd'.n = cmd.n /\ outcome' = "error"
    BY <2>1, ControlsBefore, ReportFacts
  <2>. QED BY <1>0, <2>1, <2>2 DEF ControlsTypeOK, FreshInv, ExactInv, CommandRecord,
                                   ProvedByThisArm, FixturesAreExact
<1>3. CASE cmd.at = cmd.n
  <2>1. cmd' = [cmd EXCEPT !.pc = "poll"] /\ UNCHANGED <<data, outcome>>
    BY <1>3, ControlsBefore DEF WriteSentinel, CommandRecord
  <2>2. cmd' \in CommandRecord /\ cmd'.pc = "poll" /\ cmd'.n = cmd.n
    BY <2>1, ControlsBefore, NextPhase
  <2>. QED BY <1>0, <2>1, <2>2 DEF ControlsTypeOK, FreshInv, ExactInv, CommandRecord,
                                   ProvedByThisArm, FixturesAreExact
<1>. QED BY <1>1, <1>2, <1>3 DEF WriteSentinel

\* A proof succeeds when every destination there is holds its own sentinel.
LEMMA PollStep ==
    ASSUME ControlsInv, Poll
    PROVE  ControlsInv'
<1>. USE DEF ControlsInv
<1>1. /\ cmd.pc = "poll" /\ Report(IF Behind = {} THEN "proved" ELSE "error")
      /\ UNCHANGED <<data, want, stale, up, relayed, issued, hiccups>>
  BY DEF Poll
<1>2. /\ cmd' \in CommandRecord /\ cmd'.pc = "idle" /\ cmd'.n = cmd.n
      /\ outcome' = IF Behind = {} THEN "proved" ELSE "error"
  BY <1>1, ControlsBefore, ReportFacts
<1>3. ControlsTypeOK' /\ FreshInv' /\ ExactInv'
  BY <1>1, <1>2 DEF ControlsTypeOK, FreshInv, ExactInv, CommandRecord
<1>4. ProvedByThisArm'
  <2>. SUFFICES ASSUME Behind = {}, NEW i \in 0 .. cmd.n - 1, data[<<i, "dst">>] # Absent
                PROVE  i \in relayed
    BY <1>1, <1>2 DEF ProvedByThisArm, Fixture
  <2>1. data[<<i, "dst">>] = want
    BY DEF Behind, Fixture
  <2>. QED BY <1>1, <2>1, PairsOfCommand DEF FreshInv
<1>. QED BY <1>2, <1>3, <1>4 DEF FixturesAreExact

\* A request that fails ends its command with an error.
LEMMA RequestFailsStep ==
    ASSUME ControlsInv, RequestFails
    PROVE  ControlsInv'
<1>. USE DEF ControlsInv
<1>1. /\ Report("error") /\ stale' = {} /\ hiccups' \in 0 .. MaxHiccups
      /\ UNCHANGED <<data, want, up, relayed, issued>>
  BY ControlsBefore, ControlsConstants DEF RequestFails
<1>2. cmd' \in CommandRecord /\ cmd'.pc = "idle" /\ cmd'.n = cmd.n /\ outcome' = "error"
  BY <1>1, ControlsBefore, ReportFacts
<1>. QED BY <1>1, <1>2 DEF ControlsTypeOK, FreshInv, ExactInv, CommandRecord,
                           ProvedByThisArm, FixturesAreExact

\* An arm copies a source to a destination that is there, and is remembered for
\* it if what it copied was the last sentinel.
LEMMA RelayStep ==
    ASSUME ControlsInv, NEW i \in Pairs, Relay(i)
    PROVE  ControlsInv'
<1>. USE DEF ControlsInv
<1> DEFINE s == <<i, "src">>
           d == <<i, "dst">>
<1>1. /\ s \in Keys /\ d \in Keys /\ data[s] # Absent /\ data[d] # Absent
      /\ data' = [data EXCEPT ![d] = data[s]]
      /\ relayed' = IF data[s] = want THEN relayed \cup {i} ELSE relayed
      /\ UNCHANGED <<cmd, want, stale, up, outcome, issued, hiccups>>
  BY PairKeys DEF Relay, Fixture
<1>2. /\ data' \in [Keys -> FixtureData] /\ data'[d] = data[s]
      /\ \A k \in Keys : k # d => data'[k] = data[k]
      /\ relayed \subseteq relayed' /\ relayed' \in SUBSET Pairs
  BY <1>1, ControlsBefore
<1>3. \A k \in Keys : data'[k] # Absent <=> data[k] # Absent
  BY <1>1, <1>2
<1>4. ControlsTypeOK'
  BY <1>1, <1>2 DEF ControlsTypeOK, FixtureData
<1>5. FreshInv'
  <2>1. \A k \in Keys : data'[k] =< want
    BY <1>1, <1>2 DEF FreshInv
  <2>2. ASSUME NEW j \in Pairs, want > 0, data'[<<j, "dst">>] = want PROVE j \in relayed'
    BY <1>1, <1>2, <2>2, PairKeys DEF FreshInv
  <2>. QED BY <1>1, <2>1, <2>2 DEF FreshInv
<1>6. ExactInv'
  <2>1. ASSUME cmd.pc = "create", NEW p \in 0 .. cmd.at - 1
        PROVE  data'[Position(p)] # Absent
    <3>1. cmd.n \in 0 .. MaxN /\ p \in 0 .. 2 * cmd.n - 1
      BY <2>1, ControlsBefore DEF ControlsTypeOK, CommandRecord
    <3>2. Position(p) \in Keys
      BY <3>1, Positions
    <3>. QED BY <1>3, <2>1, <3>2 DEF ExactInv, Fixture
  <2>2. \A k \in Keys : Fixture(k)' <=> Fixture(k)
    BY <1>3 DEF Fixture
  <2>. QED BY <1>1, <2>1, <2>2 DEF ExactInv, Fixture, Position
<1>7. ProvedByThisArm'
  BY <1>1, <1>2, <1>3, PairsOfCommand, PairKeys DEF ProvedByThisArm, Fixture
<1>8. FixturesAreExact'
  BY <1>1, <1>3 DEF FixturesAreExact, Fixture
<1>. QED BY <1>4, <1>5, <1>6, <1>7, <1>8

-----------------------------------------------------------------------------
(***************************************************************************)
(* The theorems.                                                           *)
(***************************************************************************)

\* ControlsInv holds in every reachable state.
THEOREM ControlsInductive == ControlsSpec => []ControlsInv
<1>1. ControlsInit => ControlsInv
  <2>. SUFFICES ASSUME ControlsInit PROVE ControlsInv
    OBVIOUS
  <2>1. ControlsTypeOK
    BY ControlsConstants DEF ControlsInit, ControlsTypeOK
  <2>2. FreshInv
    BY ControlsConstants DEF ControlsInit, FreshInv, Absent
  <2>. QED BY <2>1, <2>2 DEF ControlsInit, ExactInv, ProvedByThisArm, FixturesAreExact, ControlsInv
<1>2. ControlsInv /\ [ControlsNext]_controlsVars => ControlsInv'
  <2>. SUFFICES ASSUME ControlsInv, [ControlsNext]_controlsVars PROVE ControlsInv'
    OBVIOUS
  <2>1. CASE UNCHANGED controlsVars
    BY <2>1 DEF controlsVars, ControlsInv, ControlsTypeOK, FreshInv, ExactInv, ProvedByThisArm, FixturesAreExact,
                Fixture, Position
  <2>2. CASE Command
    BY <2>2, CreateFixtureStep, ListStaleStep, DeleteStaleStep, WriteSentinelStep, PollStep
       DEF Command
  <2>. QED BY <2>1, <2>2, StartFixturesStep, StartProofStep, RequestFailsStep, RelayStep
           DEF ControlsNext
<1>. QED BY <1>1, <1>2, PTL DEF ControlsSpec

\* Every state of the two commands is well typed: they never reach a pair or a
\* sentinel they were not given.
THEOREM ControlsTypeCorrect == ControlsSpec => []ControlsTypeOK
<1>1. ControlsInv => ControlsTypeOK
  BY DEF ControlsInv
<1>. QED BY <1>1, ControlsInductive, PTL

\* A proof of convergence is never lent by an earlier one: every destination
\* that stood for it was relayed to this proof's own sentinel.
THEOREM ProofsAreEarned == ControlsSpec => []ProvedByThisArm
<1>1. ControlsInv => ProvedByThisArm
  BY DEF ControlsInv
<1>. QED BY <1>1, ControlsInductive, PTL

\* A Fixtures that succeeds leaves exactly the pairs below its n, whatever was
\* there and whatever failed before.
THEOREM NamespaceIsExact == ControlsSpec => []FixturesAreExact
<1>1. ControlsInv => FixturesAreExact
  BY DEF ControlsInv
<1>. QED BY <1>1, ControlsInductive, PTL
=============================================================================
