---------------------------- MODULE Window_proofs ----------------------------
(***************************************************************************)
(* What a change window records, for every number of pairs and any run of  *)
(* the load, the watcher, the deadline and an arm that may tear value and  *)
(* stamp apart: typing, ObservedOnce, ReactionIsSane, TicksAreWholeRounds. *)
(*                                                                         *)
(* LoadInv says how far the round in progress has come.  WatchInv adds to  *)
(* ObservedOnce that nothing was observed before the list.  LogInv dates   *)
(* every stamp: not yet to come, and, if the arm reads its clock after its *)
(* sources, less than a millisecond before the value it names: a reaction  *)
(* sample is only as good as the stamps the arm is able to write.          *)
(* Balanced is the accounting between what was seen and what is printed.   *)
(*                                                                         *)
(* SummaryInv says what record the summary of a window is of; the part     *)
(* about Quantiles what a column of it is: a member of its sample, the     *)
(* nearest rank, whatever order sorting leaves equal members in.           *)
(*                                                                         *)
(* The second half is about Counters, the two-ended instruments of the     *)
(* same window: typing, NeverOverstated, ExactWhenNobodyExits.  No         *)
(* invariant over the present state says enough, for what a report is      *)
(* compared with was true when its readings were taken.  So each reading   *)
(* keeps that truth with it, Since and Exact relate an earlier to a later  *)
(* one, and CountersInv says that every reading taken relates so to the    *)
(* next one and to what it would be if it were taken now (Now, CPUNow,     *)
(* BucketNow).  Processes only move that along (Moves); the report is      *)
(* arithmetic over readings that relate.                                   *)
(***************************************************************************)
EXTENDS Window, Counters, Sums_proofs

\* Every complete round reached every source; the one in progress reached those
\* before `next`; a stopped load is at most one round short.
LoadInv ==
    /\ \A i \in Pairs : 1 .. ticks \subseteq held[i] /\ held[i] \subseteq 1 .. clock
    /\ clock =< ticks + 1
    /\ load = "tick" => ticks = clock
    /\ load = "write" =>
         /\ clock = ticks + 1
         /\ \A i \in Pairs : i < next => clock \in held[i]

\* The watcher starts at the list, having observed nothing.
WatchInv ==
    /\ watcher = "list" => rv = 0 /\ from = 0
    /\ ObservedOnce

\* A destination carries a past value or none, and a stamp of a past value or
\* none, taken at any time so far.  An arm that reads its clock after its sources
\* took it no earlier than the value was made but for the milliseconds.
Plausible(d, now) ==
    /\ d.v = Sentinel \/ d.v \in 1 .. now
    /\ d.t = NoStamp \/ /\ d.t.val \in 1 .. now /\ d.t.at \in 0 .. now
                        /\ clockFirst \/ d.t.at > d.t.val - Milli
LogInv ==
    /\ \A i \in Pairs : Plausible(dst[i], clock)
    /\ \A n \in 1 .. Len(log) : Plausible(log[n], clock)

\* Every version observed was dropped or dated, and every one dated has a
\* reaction, a stale stamp or none.
Balanced ==
    /\ Len(seen) = lat.dropped + Len(lat.samples)
    /\ Len(lat.samples) = Len(lat.reaction) + lat.stale + lat.unstamped

\* The summary of a window that closed is of the record it closed with.
SummaryInv == result = "closed" => summary = Summarize(lat)

IInv ==
    /\ TypeOK
    /\ LoadInv
    /\ WatchInv
    /\ LogInv
    /\ Balanced
    /\ SummaryInv
    /\ ReactionIsSane

-----------------------------------------------------------------------------
(***************************************************************************)
(* The constants, and sequences that grow.                                 *)
(***************************************************************************)

\* The assumptions on the constants, as the proofs use them.
LEMMA WindowConstants ==
    /\ N \in Nat /\ N > 0 /\ Milli \in Nat /\ Milli > 0
    /\ MaxRounds \in Nat /\ MaxWrites \in Nat /\ MaxHiccups \in Nat
BY WindowAssumption

\* One more element.
LEMMA Appended ==
    ASSUME NEW S, NEW s \in Seq(S), NEW e \in S
    PROVE  /\ Append(s, e) \in Seq(S) /\ Len(s) \in Nat
           /\ Len(Append(s, e)) = Len(s) + 1 /\ Append(s, e)[Len(s) + 1] = e
           /\ \A n \in 1 .. Len(s) : Append(s, e)[n] = s[n] /\ s[n] \in S
           /\ DOMAIN s = 1 .. Len(s) /\ DOMAIN Append(s, e) = 1 .. Len(s) + 1
OBVIOUS

\* A run of consecutive numbers, one longer.
LEMMA RunGrows ==
    ASSUME NEW a \in Nat, NEW b \in Nat, NEW s \in Seq(Int), s = [j \in 1 .. a |-> b + j]
    PROVE  Append(s, b + a + 1) = [j \in 1 .. a + 1 |-> b + j]
<1>1. Len(s) = a
  OBVIOUS
<1>2. Append(s, b + a + 1) \in Seq(Int) /\ Len(Append(s, b + a + 1)) = a + 1
  BY <1>1
<1>3. ASSUME NEW j \in 1 .. a + 1 PROVE Append(s, b + a + 1)[j] = b + j
  <2>1. CASE j = a + 1
    BY <1>1, <2>1
  <2>2. CASE j # a + 1
    <3>1. j \in 1 .. a
      BY <2>2
    <3>2. Append(s, b + a + 1)[j] = s[j]
      BY <1>1, <3>1
    <3>. QED BY <3>1, <3>2
  <2>. QED BY <2>1, <2>2
<1>. QED BY <1>2, <1>3

\* A run of consecutive numbers is a sequence of numbers up to its end.
LEMMA RunType ==
    ASSUME NEW s, NEW m \in Nat, NEW n \in Nat, s \in Seq(1 .. m), m =< n
    PROVE  s \in Seq(1 .. n)
OBVIOUS

\* A sample of naturals is one of integers.
LEMMA SampleType ==
    ASSUME NEW m \in Nat, NEW s \in Seq(0 .. m)
    PROVE  s \in Seq(Int)
OBVIOUS

-----------------------------------------------------------------------------
(***************************************************************************)
(* Observe.                                                                *)
(***************************************************************************)

\* A reaction r is within the bounds that a sample s gives it.
Within(r, s) == r =< s /\ (~clockFirst => r > -Milli)

\* R pairs off, in order, with some of S, each within its bounds.
Paired(R, S) ==
    \E pair \in [DOMAIN R -> DOMAIN S] :
        /\ \A j, k \in DOMAIN R : j < k => pair[j] < pair[k]
        /\ \A j \in DOMAIN R : Within(R[j], S[pair[j]])

\* A sample with no reaction leaves the pairs as they are.
LEMMA PairedSample ==
    ASSUME NEW R \in Seq(Int), NEW S \in Seq(Int), NEW x \in Int, Paired(R, S)
    PROVE  Paired(R, Append(S, x))
<1>1. PICK pair \in [DOMAIN R -> DOMAIN S] :
        /\ \A j, k \in DOMAIN R : j < k => pair[j] < pair[k]
        /\ \A j \in DOMAIN R : Within(R[j], S[pair[j]])
  BY DEF Paired
<1> DEFINE T == Append(S, x)
<1>2. DOMAIN S \subseteq DOMAIN T /\ \A n \in DOMAIN S : T[n] = S[n]
  BY Appended
<1>. HIDE DEF T
<1>3. pair \in [DOMAIN R -> DOMAIN T]
  BY <1>2
<1>4. \A j \in DOMAIN R : Within(R[j], T[pair[j]])
  BY <1>1, <1>2
<1>5. Paired(R, T)
  BY <1>1, <1>3, <1>4 DEF Paired
<1>. QED BY <1>5 DEF T

\* A sample with its reaction makes one more pair.
LEMMA PairedBoth ==
    ASSUME NEW R \in Seq(Int), NEW S \in Seq(Int), NEW x \in Int, NEW r \in Int,
           Within(r, x), Paired(R, S)
    PROVE  Paired(Append(R, r), Append(S, x))
<1>1. PICK pair \in [DOMAIN R -> DOMAIN S] :
        /\ \A j, k \in DOMAIN R : j < k => pair[j] < pair[k]
        /\ \A j \in DOMAIN R : Within(R[j], S[pair[j]])
  BY DEF Paired
<1> DEFINE m == Len(R)  n == Len(S)  Q == Append(R, r)  T == Append(S, x)
           more == [j \in 1 .. m + 1 |-> IF j = m + 1 THEN n + 1 ELSE pair[j]]
<1>2. /\ m \in Nat /\ n \in Nat /\ DOMAIN R = 1 .. m /\ DOMAIN S = 1 .. n
      /\ DOMAIN Q = 1 .. m + 1 /\ DOMAIN T = 1 .. n + 1
      /\ Q[m + 1] = r /\ T[n + 1] = x
      /\ \A j \in 1 .. m : Q[j] = R[j]
      /\ \A j \in 1 .. n : T[j] = S[j]
  BY Appended
<1>. HIDE DEF m, n, Q, T
<1>3. \A j \in 1 .. m : pair[j] \in 1 .. n
  BY <1>2
<1>4. more \in [DOMAIN Q -> DOMAIN T]
  BY <1>2, <1>3
<1>5. \A j, k \in DOMAIN Q : j < k => more[j] < more[k]
  BY <1>1, <1>2, <1>3
<1>6. \A j \in DOMAIN Q : Within(Q[j], T[more[j]])
  <2>. SUFFICES ASSUME NEW j \in 1 .. m + 1 PROVE Within(Q[j], T[more[j]])
    BY <1>2
  <2>1. CASE j = m + 1
    BY <1>2, <2>1
  <2>2. CASE j # m + 1
    <3>1. j \in 1 .. m
      BY <1>2, <2>2
    <3>2. more[j] = pair[j] /\ pair[j] \in 1 .. n
      BY <1>3, <2>2, <3>1
    <3>. QED BY <1>1, <1>2, <3>1, <3>2
  <2>. QED BY <2>1, <2>2
<1>7. Paired(Q, T)
  BY <1>4, <1>5, <1>6 DEF Paired
<1>. QED BY <1>7 DEF Q, T

LatOf(S, R) == [samples: S, reaction: R, dropped: Nat, stale: Nat, unstamped: Nat]
LatRecord == LatOf(Seq(0 .. MaxRounds), Seq(Int))

\* The record with one field updated, of the three kinds of field it has.
LEMMA SampleAdded ==
    ASSUME NEW S, NEW R, NEW l \in LatOf(S, R), NEW s \in S,
           NEW o, o = [l EXCEPT !.samples = s]
    PROVE  /\ o \in LatOf(S, R) /\ o.samples = s /\ o.reaction = l.reaction
           /\ o.dropped = l.dropped /\ o.stale = l.stale /\ o.unstamped = l.unstamped
BY DEF LatOf

\* Recording a reaction changes nothing else of it.
LEMMA ReactionAdded ==
    ASSUME NEW S, NEW R, NEW l \in LatOf(S, R), NEW r \in R,
           NEW o, o = [l EXCEPT !.reaction = r]
    PROVE  /\ o \in LatOf(S, R) /\ o.samples = l.samples /\ o.reaction = r
           /\ o.dropped = l.dropped /\ o.stale = l.stale /\ o.unstamped = l.unstamped
BY DEF LatOf

\* Counting a round that gave no sample changes that counter alone.
LEMMA Counted ==
    ASSUME NEW S, NEW R, NEW l \in LatOf(S, R), NEW f \in {"dropped", "stale", "unstamped"},
           NEW o, o = [l EXCEPT ![f] = @ + 1]
    PROVE  /\ o \in LatOf(S, R) /\ o.samples = l.samples /\ o.reaction = l.reaction
           /\ o.dropped = IF f = "dropped" THEN l.dropped + 1 ELSE l.dropped
           /\ o.stale = IF f = "stale" THEN l.stale + 1 ELSE l.stale
           /\ o.unstamped = IF f = "unstamped" THEN l.unstamped + 1 ELSE l.unstamped
<1>. USE DEF LatOf
<1>1. CASE f = "dropped"
  BY <1>1
<1>2. CASE f = "stale"
  BY <1>2
<1>3. CASE f = "unstamped"
  BY <1>3
<1>. QED BY <1>1, <1>2, <1>3

\* What one version does to the record: it is dropped; or it is one sample,
\* and a reaction within its bounds, a stale stamp or none.
LEMMA ObserveStep ==
    ASSUME NEW l \in LatRecord, NEW d \in Destination, clock \in 0 .. MaxRounds,
           Plausible(d, clock), Paired(l.reaction, l.samples)
    PROVE  LET o == Observe(l, d) IN
           /\ o \in LatRecord
           /\ Paired(o.reaction, o.samples)
           /\ o.dropped + Len(o.samples) = l.dropped + Len(l.samples) + 1
           /\ Len(l.samples) = Len(l.reaction) + l.stale + l.unstamped
                => Len(o.samples) = Len(o.reaction) + o.stale + o.unstamped
<1> DEFINE x == clock - d.v
           r == d.t.at - d.v
           s == [l EXCEPT !.samples = Append(@, x)]
           o == Observe(l, d)
<1>. HIDE DEF o
<1>0. /\ l.samples \in Seq(0 .. MaxRounds) /\ l.reaction \in Seq(Int)
      /\ l.samples \in Seq(Int) /\ clock \in Nat
  BY WindowConstants DEF LatRecord, LatOf
<1>n. /\ l.dropped \in Nat /\ l.stale \in Nat /\ l.unstamped \in Nat
      /\ Len(l.samples) \in Nat /\ Len(l.reaction) \in Nat
  BY <1>0 DEF LatRecord, LatOf
<1>t. LET n == Len(l.samples)  m == Len(l.reaction) IN
      /\ l.dropped + (n + 1) = l.dropped + n + 1
      /\ n = m + l.stale + l.unstamped =>
           /\ n + 1 = (m + 1) + l.stale + l.unstamped
           /\ n + 1 = m + (l.stale + 1) + l.unstamped
           /\ n + 1 = m + l.stale + (l.unstamped + 1)
  <2> DEFINE n == Len(l.samples)  m == Len(l.reaction)
             c == l.dropped  a == l.stale  b == l.unstamped
  <2>1. n \in Nat /\ m \in Nat /\ c \in Nat /\ a \in Nat /\ b \in Nat
    BY <1>n
  <2>. HIDE DEF n, m, c, a, b
  <2>2. c + (n + 1) = c + n + 1
    BY <2>1
  <2>3. n = m + a + b => n + 1 = (m + 1) + a + b /\ n + 1 = m + (a + 1) + b
                         /\ n + 1 = m + a + (b + 1)
    BY <2>1
  <2>. QED BY <2>2, <2>3 DEF n, m, c, a, b
<1>1. CASE d.v = Sentinel
  <2>1. o = [l EXCEPT !.dropped = @ + 1]
    BY <1>1 DEF Observe, o
  <2>2. o \in LatRecord /\ o.reaction = l.reaction /\ o.samples = l.samples
        /\ o.dropped = l.dropped + 1 /\ o.stale = l.stale /\ o.unstamped = l.unstamped
    BY <2>1, Counted DEF LatRecord
  <2>. QED BY <1>n, <2>2 DEF o
<1>2. CASE d.v # Sentinel
  <2>1. d.v \in 1 .. clock /\ x \in 0 .. MaxRounds /\ x \in Int
    BY <1>0, <1>2, WindowConstants DEF Plausible
  <2> DEFINE S == Append(l.samples, x)
  <2>2. /\ S \in Seq(0 .. MaxRounds) /\ Len(S) = Len(l.samples) + 1
        /\ Paired(l.reaction, S)
    BY <1>0, <2>1, Appended, PairedSample
  <2>3. /\ s \in LatRecord /\ s.samples = S /\ s.reaction = l.reaction
        /\ s.dropped = l.dropped /\ s.stale = l.stale /\ s.unstamped = l.unstamped
    <3>1. s = [l EXCEPT !.samples = S]
      OBVIOUS
    <3>. HIDE DEF S, s
    <3>. QED BY <2>2, <3>1, SampleAdded DEF LatRecord
  <2>. HIDE DEF S, s
  <2>4. CASE d.t = NoStamp
    <3>1. o = [s EXCEPT !.unstamped = @ + 1]
      BY <1>2, <2>4 DEF Observe, o, s
    <3>2. /\ o \in LatRecord /\ o.reaction = l.reaction /\ o.samples = S
          /\ o.dropped = l.dropped /\ o.stale = l.stale /\ o.unstamped = l.unstamped + 1
      BY <2>3, <3>1, Counted DEF LatRecord
    <3>3. o.dropped + Len(o.samples) = l.dropped + Len(l.samples) + 1
      BY <2>2, <3>2, <1>t
    <3>4. Len(l.samples) = Len(l.reaction) + l.stale + l.unstamped
            => Len(o.samples) = Len(o.reaction) + o.stale + o.unstamped
      BY <2>2, <3>2, <1>t
    <3>. QED BY <2>2, <3>2, <3>3, <3>4 DEF o
  <2>5. CASE d.t # NoStamp /\ d.t.val # d.v
    <3>1. o = [s EXCEPT !.stale = @ + 1]
      BY <1>2, <2>5 DEF Observe, o, s
    <3>2. /\ o \in LatRecord /\ o.reaction = l.reaction /\ o.samples = S
          /\ o.dropped = l.dropped /\ o.stale = l.stale + 1 /\ o.unstamped = l.unstamped
      BY <2>3, <3>1, Counted DEF LatRecord
    <3>3. o.dropped + Len(o.samples) = l.dropped + Len(l.samples) + 1
      BY <2>2, <3>2, <1>t
    <3>4. Len(l.samples) = Len(l.reaction) + l.stale + l.unstamped
            => Len(o.samples) = Len(o.reaction) + o.stale + o.unstamped
      BY <2>2, <3>2, <1>t
    <3>. QED BY <2>2, <3>2, <3>3, <3>4 DEF o
  <2>6. CASE d.t # NoStamp /\ d.t.val = d.v
    <3>0. r \in Int /\ Within(r, x)
      <4>1. d.t.at \in 0 .. clock /\ (clockFirst \/ d.t.at > d.v - Milli)
        BY <2>6 DEF Plausible
      <4>2. \A at, v \in Int : at =< clock => /\ at - v \in Int /\ at - v =< clock - v
                                               /\ at > v - Milli => at - v > -Milli
        BY <1>0, WindowConstants
      <4>3. d.t.at \in Int /\ d.v \in Int /\ d.t.at =< clock
        BY <1>0, <2>1, <4>1
      <4>4. r \in Int /\ r =< x /\ (d.t.at > d.v - Milli => r > -Milli)
        BY <4>2, <4>3
      <4>. QED BY <4>1, <4>4 DEF Within
    <3> DEFINE Q == Append(l.reaction, r)
    <3>1. o = [s EXCEPT !.reaction = Append(@, r)]
      BY <1>2, <2>6 DEF Observe, o, s
    <3>2. Q \in Seq(Int) /\ Len(Q) = Len(l.reaction) + 1 /\ Paired(Q, S)
      BY <1>0, <2>1, <3>0, Appended, PairedBoth DEF S
    <3>3. /\ o \in LatRecord /\ o.reaction = Q /\ o.samples = S
          /\ o.dropped = l.dropped /\ o.stale = l.stale /\ o.unstamped = l.unstamped
      <4>1. o = [s EXCEPT !.reaction = Q]
        BY <2>3, <3>1
      <4>. HIDE DEF Q
      <4>. QED BY <2>3, <3>2, <4>1, ReactionAdded DEF LatRecord
    <3>. HIDE DEF Q
    <3>4. o.dropped + Len(o.samples) = l.dropped + Len(l.samples) + 1
      BY <2>2, <3>2, <3>3, <1>t
    <3>5. Len(l.samples) = Len(l.reaction) + l.stale + l.unstamped
            => Len(o.samples) = Len(o.reaction) + o.stale + o.unstamped
      BY <2>2, <3>2, <3>3, <1>t
    <3>. QED BY <3>2, <3>3, <3>4, <3>5 DEF o
  <2>. QED BY <2>4, <2>5, <2>6
<1>. QED BY <1>1, <1>2
-----------------------------------------------------------------------------
(***************************************************************************)
(* Load.                                                                   *)
(***************************************************************************)

\* What the types say, with the fields the steps below need spelled out.
LEMMA Types ==
    ASSUME TypeOK
    PROVE  /\ clock \in Nat /\ clock =< MaxRounds /\ ticks \in Nat /\ ticks =< clock
           /\ next \in Pairs /\ next \in Nat /\ hiccups \in 0 .. MaxHiccups
           /\ held \in [Pairs -> SUBSET Values]
           /\ log \in Seq(Destination) /\ Len(log) \in Nat
           /\ rv \in Nat /\ rv =< Len(log) /\ from \in Nat /\ from =< rv
           /\ lat \in LatRecord
BY WindowConstants DEF TypeOK, Pairs, LatRecord, LatOf

loadTypes ==
    /\ clockFirst \in BOOLEAN
    /\ open \in BOOLEAN
    /\ result \in {"running", "closed", "failed"}
    /\ load \in {"tick", "write", "stopped"}
    /\ next \in 0 .. N - 1
    /\ clock \in 0 .. MaxRounds
    /\ ticks \in 0 .. clock
    /\ held \in [Pairs -> SUBSET Values]
    /\ hiccups \in 0 .. MaxHiccups

watchVars == <<clockFirst, dst, log, watcher, rv, lat, from, seen>>

\* A step of Load keeps its types and LoadInv; it never turns the clock back.
LEMMA LoadStep ==
    ASSUME TypeOK, LoadInv, StartRound \/ WriteSource \/ WriteFails \/ StopLoad
    PROVE  loadTypes' /\ LoadInv' /\ clock =< clock' /\ UNCHANGED watchVars
<1>. USE DEF LoadInv
<1>0. UNCHANGED watchVars /\ clockFirst' = clockFirst
  BY DEF StartRound, WriteSource, WriteFails, StopLoad, watchVars
<1>1. CASE StartRound
  <2>1. clock' = clock + 1 /\ ticks' = ticks /\ held' = held /\ ticks = clock
        /\ load' = "write" /\ next' = 0 /\ clock < MaxRounds
        /\ UNCHANGED <<open, result, hiccups>>
    BY <1>1 DEF StartRound
  <2>2. loadTypes'
    BY <1>0, <2>1, Types, WindowConstants DEF TypeOK, loadTypes
  <2>3. \A i \in Pairs : 1 .. ticks \subseteq held[i] /\ held[i] \subseteq 1 .. clock'
    BY <2>1, Types
  <2>4. LoadInv'
    BY <2>1, <2>3, Types DEF Pairs
  <2>. QED BY <1>0, <2>1, <2>2, <2>4, Types
<1>2. CASE WriteSource
  <2>0. load = "write" /\ UNCHANGED <<open, result, clock, hiccups>>
        /\ clock = ticks + 1 /\ clock \in Values /\ next \in Pairs
    BY <1>2, Types DEF WriteSource, Values
  <2>1. Written => /\ held' \in [Pairs -> SUBSET Values]
                   /\ held'[next] = held[next] \cup {clock}
                   /\ \A i \in Pairs : i # next => held'[i] = held[i]
    BY <2>0, Types DEF Written
  <2>2. Written => \A i \in Pairs : /\ 1 .. ticks \subseteq held'[i]
                                     /\ held'[i] \subseteq 1 .. clock
    <3>. SUFFICES ASSUME Written, NEW i \in Pairs
                  PROVE  1 .. ticks \subseteq held'[i] /\ held'[i] \subseteq 1 .. clock
      OBVIOUS
    <3>1. clock \in 1 .. clock
      BY <2>0, Types
    <3>. QED BY <2>1, <3>1
  <2>3. CASE open /\ Written /\ next < N - 1 /\ next' = next + 1 /\ UNCHANGED <<load, ticks>>
    <3>1. \A i \in Pairs : i < next + 1 => clock \in held'[i]
      BY <2>0, <2>1, <2>3 DEF Pairs
    <3>2. next' \in 0 .. N - 1
      BY <2>0, <2>3, WindowConstants DEF Pairs
    <3>. QED BY <1>0, <2>0, <2>1, <2>2, <2>3, <3>1, <3>2, Types DEF TypeOK, loadTypes
  <2>4. CASE open /\ Written /\ next = N - 1 /\ load' = "tick" /\ ticks' = ticks + 1
             /\ UNCHANGED next
    <3>1. \A i \in Pairs : clock \in held'[i]
      BY <2>0, <2>1, <2>4, WindowConstants DEF Pairs
    <3>2. \A i \in Pairs : 1 .. ticks' \subseteq held'[i]
      <4>1. ASSUME NEW i \in Pairs, NEW x \in 1 .. ticks' PROVE x \in held'[i]
        <5>1. x \in 1 .. ticks \/ x = clock
          BY <2>0, <2>4, <4>1, Types
        <5>. QED BY <2>2, <2>4, <3>1, <5>1
      <4>. QED BY <4>1
    <3>3. ticks' = clock' /\ ticks' \in 0 .. clock'
      BY <2>0, <2>4, Types
    <3>. QED BY <1>0, <2>0, <2>1, <2>2, <2>4, <3>2, <3>3, Types DEF TypeOK, loadTypes
  <2>5. CASE ~open /\ (Written \/ UNCHANGED held) /\ load' = "stopped"
             /\ UNCHANGED <<next, ticks>>
    <3>1. held' \in [Pairs -> SUBSET Values]
          /\ \A i \in Pairs : 1 .. ticks \subseteq held'[i] /\ held'[i] \subseteq 1 .. clock
      BY <2>1, <2>2, <2>5, Types
    <3>. QED BY <1>0, <2>0, <2>5, <3>1, Types DEF TypeOK, loadTypes
  <2>. QED BY <1>2, <2>3, <2>4, <2>5 DEF WriteSource
<1>3. CASE WriteFails
  BY <1>0, <1>3, Types, WindowConstants DEF WriteFails, Hiccup, loadVars, TypeOK, loadTypes
<1>4. CASE StopLoad
  BY <1>0, <1>4, Types DEF StopLoad, TypeOK, loadTypes
<1>. QED BY <1>1, <1>2, <1>3, <1>4

-----------------------------------------------------------------------------
(***************************************************************************)
(* The arm.                                                                *)
(***************************************************************************)

\* A stamp of a past value is not yet to come; taken with a clock read after the
\* value was, it is less than a millisecond early.
LEMMA StampFacts ==
    ASSUME clock \in 0 .. MaxRounds, NEW x \in 1 .. clock, NEW c \in ClockRead(x)
    PROVE  /\ StampOf(x, c) \in Stamp
           /\ StampOf(x, c).val = x /\ StampOf(x, c).at \in 0 .. clock
           /\ clockFirst \/ StampOf(x, c).at > x - Milli
<1>1. /\ c \in Nat /\ x \in Nat /\ c =< clock /\ clock =< MaxRounds /\ clock \in Nat
      /\ clockFirst \/ x =< c
  BY WindowConstants DEF ClockRead
<1>2. c % Milli \in 0 .. Milli - 1
  BY <1>1, WindowConstants
<1>3. c % Milli =< c
  BY <1>1, WindowConstants
<1>4. /\ c - (c % Milli) \in 0 .. MaxRounds /\ c - (c % Milli) \in 0 .. clock
      /\ clockFirst \/ c - (c % Milli) > x - Milli
  BY <1>1, <1>2, <1>3, WindowConstants
<1>. QED BY <1>1, <1>4, WindowConstants DEF StampOf, Stamp, Values

\* Whatever the arm writes is a new version of one destination, plausible
\* whether value and stamp were written together or not.
LEMMA ArmStep ==
    ASSUME TypeOK, LoadInv, LogInv, NEW i \in Pairs, ArmWrites(i) \/ ArmTears(i)
    PROVE  /\ dst' \in [Pairs -> Destination] /\ log' \in Seq(Destination)
           /\ Len(log') = Len(log) + 1 /\ LogInv'
           /\ UNCHANGED <<clockFirst, open, result, loadVars, watcher, rv, lat,
                          summary, from, seen, hiccups>>
<1>0. /\ clock \in 0 .. MaxRounds /\ dst \in [Pairs -> Destination]
      /\ held[i] \subseteq 1 .. clock /\ 1 .. clock \subseteq Values
      /\ log \in Seq(Destination) /\ Len(log) \in Nat
  BY Types DEF TypeOK, LoadInv, Values
<1>1. /\ UNCHANGED <<clockFirst, open, result, loadVars, watcher, rv, lat, summary,
                     from, seen, hiccups>>
      /\ log' = Append(log, dst'[i]) /\ clock' = clock
  BY DEF ArmWrites, ArmTears, loadVars
<1>2. PICK d \in Destination : dst' = [dst EXCEPT ![i] = d] /\ Plausible(d, clock)
  <2>1. PICK x \in held[i] : \E c \in ClockRead(x) :
          \/ dst' = [dst EXCEPT ![i] = [v |-> x, t |-> StampOf(x, c)]]
          \/ dst' = [dst EXCEPT ![i].v = x]
          \/ dst' = [dst EXCEPT ![i].t = StampOf(x, c)]
    BY DEF ArmWrites, ArmTears
  <2>2. PICK c \in ClockRead(x) :
          \/ dst' = [dst EXCEPT ![i] = [v |-> x, t |-> StampOf(x, c)]]
          \/ dst' = [dst EXCEPT ![i].v = x]
          \/ dst' = [dst EXCEPT ![i].t = StampOf(x, c)]
    BY <2>1
  <2> DEFINE t == StampOf(x, c)
  <2>3. /\ x \in 1 .. clock /\ x \in Values
        /\ t \in Stamp /\ t.val = x /\ t.at \in 0 .. clock
        /\ clockFirst \/ t.at > t.val - Milli
    BY <1>0, StampFacts
  <2>. HIDE DEF t
  <2>4. dst[i] \in Destination /\ Plausible(dst[i], clock)
    BY <1>0 DEF LogInv
  <2>5. CASE dst' = [dst EXCEPT ![i] = [v |-> x, t |-> t]]
    <3>1. [v |-> x, t |-> t] \in Destination /\ Plausible([v |-> x, t |-> t], clock)
      BY <2>3 DEF Destination, Plausible
    <3>. QED BY <2>5, <3>1
  <2>6. CASE dst' = [dst EXCEPT ![i].v = x]
    <3> DEFINE d == [dst[i] EXCEPT !.v = x]
    <3>1. d \in Destination /\ d.v = x /\ d.t = dst[i].t
      BY <2>3, <2>4 DEF Destination
    <3>2. dst' = [dst EXCEPT ![i] = d]
      BY <2>6
    <3>. HIDE DEF d
    <3>3. Plausible(d, clock)
      BY <2>3, <2>4, <3>1 DEF Plausible
    <3>. QED BY <3>1, <3>2, <3>3
  <2>7. CASE dst' = [dst EXCEPT ![i].t = t]
    <3> DEFINE d == [dst[i] EXCEPT !.t = t]
    <3>1. d \in Destination /\ d.v = dst[i].v /\ d.t = t
      BY <2>3, <2>4 DEF Destination
    <3>2. dst' = [dst EXCEPT ![i] = d]
      BY <2>7
    <3>. HIDE DEF d
    <3>3. Plausible(d, clock)
      BY <2>3, <2>4, <3>1 DEF Plausible
    <3>. QED BY <3>1, <3>2, <3>3
  <2>. QED BY <2>2, <2>5, <2>6, <2>7 DEF t
<1>3. dst' \in [Pairs -> Destination] /\ dst'[i] = d
      /\ \A j \in Pairs : j # i => dst'[j] = dst[j]
  BY <1>0, <1>2
<1>4. /\ log' \in Seq(Destination) /\ Len(log') = Len(log) + 1 /\ log'[Len(log) + 1] = d
      /\ \A n \in 1 .. Len(log) : log'[n] = log[n]
  BY <1>0, <1>1, <1>3, Appended
<1>5. \A n \in 1 .. Len(log') : n \in 1 .. Len(log) \/ n = Len(log) + 1
  BY <1>0, <1>4
<1>6. LogInv'
  <2>1. \A e : Plausible(e, clock) => Plausible(e, clock)'
    BY <1>1 DEF Plausible
  <2>. QED BY <1>1, <1>2, <1>3, <1>4, <1>5, <2>1 DEF LogInv
<1>. QED BY <1>1, <1>3, <1>4, <1>6
-----------------------------------------------------------------------------
(***************************************************************************)
(* The watcher.                                                            *)
(***************************************************************************)

watchTypes ==
    /\ watcher \in {"list", "watch", "drain", "stopped", "failed"}
    /\ rv \in 0 .. Len(log) /\ from \in 0 .. rv
    /\ seen \in Seq(1 .. rv)
    /\ hiccups \in 0 .. MaxHiccups

\* Listing, opening a watch and ending one observe nothing, and only listing
\* moves the version to resume from.
LEMMA WatchStep ==
    ASSUME TypeOK, WatchInv, List \/ Watch \/ DrainEnds
    PROVE  /\ watchTypes' /\ WatchInv'
           /\ UNCHANGED <<clockFirst, open, result, loadVars, dst, log, lat, summary, seen>>
<1>0. /\ seen \in Seq(1 .. rv) /\ rv \in Nat /\ from \in Nat /\ Len(log) \in Nat
      /\ rv =< Len(log) /\ from =< rv /\ hiccups \in 0 .. MaxHiccups
      /\ seen = [j \in 1 .. rv - from |-> from + j]
  BY Types DEF TypeOK, WatchInv, ObservedOnce
<1>1. UNCHANGED <<clockFirst, open, result, loadVars, dst, log, lat, summary, seen>>
  BY DEF List, Watch, DrainEnds
<1>2. hiccups' \in 0 .. MaxHiccups
  BY <1>0, WindowConstants DEF List, Watch, DrainEnds, Hiccup
<1>3. CASE List /\ watcher' = "watch"
  <2>1. rv' = Len(log) /\ from' = Len(log) /\ rv = 0 /\ from = 0 /\ log' = log
    BY <1>1, <1>3 DEF List, WatchInv
  <2>2. 1 .. rv - from = {} /\ 1 .. rv' - from' = {}
    BY <1>0, <2>1
  <2>3. seen' = [j \in 1 .. rv' - from' |-> from' + j]
    BY <1>0, <1>1, <2>2
  <2>4. seen' \in Seq(1 .. rv')
    BY <1>0, <1>1, <2>1, RunType
  <2>. QED BY <1>0, <1>1, <1>2, <1>3, <2>1, <2>3, <2>4 DEF watchTypes, WatchInv, ObservedOnce
<1>4. CASE watcher' # "list" /\ UNCHANGED <<rv, from>>
  <2>1. watcher' \in {"watch", "drain", "stopped", "failed"}
    BY <1>4 DEF List, Watch, DrainEnds, TypeOK
  <2>. QED BY <1>0, <1>1, <1>2, <1>4, <2>1 DEF watchTypes, WatchInv, ObservedOnce
<1>. QED BY <1>1, <1>3, <1>4 DEF List, Watch, DrainEnds

\* Draining observes the next version, once.
LEMMA DrainStep ==
    ASSUME IInv, Drain
    PROVE  /\ watchTypes' /\ WatchInv' /\ lat' \in LatRecord
           /\ Balanced' /\ ReactionIsSane'
           /\ UNCHANGED <<clockFirst, open, result, loadVars, dst, log, watcher,
                          summary, from, hiccups>>
<1>0. /\ seen \in Seq(1 .. rv) /\ rv \in Nat /\ from \in Nat /\ Len(log) \in Nat
      /\ from =< rv /\ rv < Len(log) /\ hiccups \in 0 .. MaxHiccups
      /\ seen = [j \in 1 .. rv - from |-> from + j]
      /\ lat \in LatRecord /\ clock \in 0 .. MaxRounds /\ log \in Seq(Destination)
      /\ watcher = "drain"
  BY Types DEF IInv, TypeOK, WatchInv, ObservedOnce, Drain
<1>1. /\ rv' = rv + 1 /\ lat' = Observe(lat, log[rv + 1]) /\ seen' = Append(seen, rv + 1)
      /\ UNCHANGED <<clockFirst, open, result, loadVars, dst, log, watcher, summary,
                     from, hiccups>>
  BY DEF Drain
<1>2. rv + 1 \in 1 .. Len(log)
  BY <1>0
<1>3. log[rv + 1] \in Destination /\ Plausible(log[rv + 1], clock)
  BY <1>0, <1>2 DEF IInv, LogInv
<1>4. Paired(lat.reaction, lat.samples)
  BY DEF IInv, ReactionIsSane, Paired, Within
<1>5. /\ lat' \in LatRecord /\ Paired(lat'.reaction, lat'.samples)
      /\ lat'.dropped + Len(lat'.samples) = lat.dropped + Len(lat.samples) + 1
      /\ Len(lat.samples) = Len(lat.reaction) + lat.stale + lat.unstamped
           => Len(lat'.samples) = Len(lat'.reaction) + lat'.stale + lat'.unstamped
  BY <1>0, <1>1, <1>3, <1>4, ObserveStep
<1>6. seen \in Seq(1 .. rv + 1) /\ seen \in Seq(Int)
  BY <1>0, RunType
<1>7. seen' \in Seq(1 .. rv + 1) /\ Len(seen') = Len(seen) + 1
  BY <1>0, <1>1, <1>6
<1>8. seen' = [j \in 1 .. rv' - from' |-> from' + j]
  <2> DEFINE a == rv - from
  <2>1. a \in Nat /\ from + a + 1 = rv + 1 /\ a + 1 = rv' - from' /\ from' = from
    BY <1>0, <1>1
  <2>2. Append(seen, from + a + 1) = [j \in 1 .. a + 1 |-> from + j]
    BY <1>0, <1>6, <2>1, RunGrows
  <2>. QED BY <1>1, <2>1, <2>2
<1>9. watchTypes' /\ WatchInv'
  BY <1>0, <1>1, <1>2, <1>7, <1>8 DEF watchTypes, WatchInv, ObservedOnce
<1>10. Balanced'
  BY <1>5, <1>7 DEF IInv, Balanced
<1>11. ReactionIsSane'
  BY <1>1, <1>5 DEF ReactionIsSane, Paired, Within
<1>. QED BY <1>1, <1>5, <1>9, <1>10, <1>11

-----------------------------------------------------------------------------
(***************************************************************************)
(* The theorems.                                                           *)
(***************************************************************************)

\* What was plausible stays so as the clock runs.
LEMMA PlausibleLater ==
    ASSUME clock \in Nat, clock' \in Nat, clock =< clock', UNCHANGED <<clockFirst, dst,
                                                                       log>>,
           LogInv
    PROVE  LogInv'
<1>1. ASSUME NEW d, Plausible(d, clock) PROVE Plausible(d, clock')
  BY <1>1 DEF Plausible
<1>2. ASSUME NEW d, Plausible(d, clock') PROVE Plausible(d, clock)'
  BY <1>2 DEF Plausible
<1>. QED BY <1>1, <1>2 DEF LogInv

\* Only Close closes a window, and nothing is recorded after it.
LEMMA SummaryStep ==
    ASSUME SummaryInv, [Next]_vars
    PROVE  SummaryInv'
<1>1. CASE Close
  BY <1>1 DEF Close, SummaryInv
<1>2. CASE ~Close
  <2>1. result' = "closed" => UNCHANGED <<result, lat, summary>>
    BY <1>2 DEF Next, StartRound, WriteSource, WriteFails, StopLoad, ArmWrites, ArmTears, List,
                Watch, Drain, DrainEnds, Deadline, vars
  <2>. QED BY <2>1 DEF SummaryInv
<1>. QED BY <1>1, <1>2

\* Every step keeps IInv.
LEMMA IInvStep ==
    ASSUME IInv, [Next]_vars
    PROVE  IInv'
<1>. USE DEF IInv
<1>0. SummaryInv'
  BY SummaryStep
<1>1. CASE StartRound \/ WriteSource \/ WriteFails \/ StopLoad
  <2>1. loadTypes' /\ LoadInv' /\ clock =< clock' /\ UNCHANGED watchVars
    BY <1>1, LoadStep
  <2>2. TypeOK'
    BY <2>1 DEF TypeOK, loadTypes, watchVars
  <2>3. LogInv'
    BY <2>1, <2>2, Types, PlausibleLater, WindowConstants DEF TypeOK, watchVars
  <2>. QED BY <1>0, <2>1, <2>2, <2>3
           DEF watchVars, WatchInv, ObservedOnce, Balanced, ReactionIsSane
<1>2. ASSUME NEW i \in Pairs, ArmWrites(i) \/ ArmTears(i) PROVE IInv'
  <2>1. /\ dst' \in [Pairs -> Destination] /\ log' \in Seq(Destination)
        /\ Len(log') = Len(log) + 1 /\ LogInv'
        /\ UNCHANGED <<clockFirst, open, result, loadVars, watcher, rv, lat, summary,
                       from, seen, hiccups>>
    BY <1>2, ArmStep
  <2>2. TypeOK'
    BY <2>1, Types DEF TypeOK, loadVars
  <2>. QED BY <1>0, <2>1, <2>2
           DEF loadVars, LoadInv, WatchInv, ObservedOnce, Balanced, ReactionIsSane
<1>3. CASE List \/ Watch \/ DrainEnds
  <2>1. /\ watchTypes' /\ WatchInv'
        /\ UNCHANGED <<clockFirst, open, result, loadVars, dst, log, lat, summary, seen>>
    BY <1>3, WatchStep
  <2>2. LogInv'
    BY <2>1, Types, PlausibleLater DEF loadVars
  <2>. QED BY <1>0, <2>1, <2>2
           DEF loadVars, watchTypes, TypeOK, LoadInv, Balanced, ReactionIsSane
<1>4. CASE Drain
  <2>1. /\ watchTypes' /\ WatchInv' /\ lat' \in LatRecord /\ Balanced' /\ ReactionIsSane'
        /\ UNCHANGED <<clockFirst, open, result, loadVars, dst, log, watcher, summary,
                       from, hiccups>>
    BY <1>4, DrainStep
  <2>2. LogInv'
    BY <2>1, Types, PlausibleLater DEF loadVars
  <2>. QED BY <1>0, <2>1, <2>2 DEF loadVars, watchTypes, LatRecord, LatOf, TypeOK, LoadInv
<1>5. CASE Deadline \/ Close \/ UNCHANGED vars
  <2>1. /\ open' \in BOOLEAN /\ result' \in {"running", "closed", "failed"}
        /\ UNCHANGED <<clockFirst, loadVars, dst, log, watcher, rv, lat, from, seen,
                       hiccups>>
    BY <1>5 DEF Deadline, Close, vars, loadVars, TypeOK
  <2>2. TypeOK'
    BY <2>1 DEF loadVars, TypeOK
  <2>3. LoadInv' /\ LogInv'
    BY <2>1, Types, PlausibleLater DEF loadVars, LoadInv
  <2>. QED BY <1>0, <2>1, <2>2, <2>3 DEF WatchInv, ObservedOnce, Balanced, ReactionIsSane
<1>. QED BY <1>1, <1>2, <1>3, <1>4, <1>5 DEF Next

\* IInv holds in every reachable state.
THEOREM InductiveInvariant == Spec => []IInv
<1>1. Init => IInv
  <2>. SUFFICES ASSUME Init PROVE IInv
    OBVIOUS
  <2>0. << >> \in Seq(Destination) /\ << >> \in Seq(1 .. 0) /\ Len(<< >>) = 0
        /\ << >> \in Seq(0 .. MaxRounds) /\ << >> \in Seq(Int)
    OBVIOUS
  <2>1. [v |-> Sentinel, t |-> NoStamp] \in Destination
    BY DEF Destination, Stamp
  <2>2. lat \in LatRecord
    BY <2>0 DEF Init, LatRecord, LatOf
  <2>3. TypeOK
    BY <2>0, <2>1, <2>2, WindowConstants DEF Init, TypeOK, LatRecord, LatOf
  <2>4. LoadInv
    BY DEF Init, LoadInv
  <2>5. WatchInv
    <3>1. 1 .. rv - from = {}
      BY DEF Init
    <3>2. seen = [j \in {} |-> from + j]
      BY DEF Init
    <3>. QED BY <3>1, <3>2 DEF Init, WatchInv, ObservedOnce
  <2>6. LogInv /\ Balanced
    BY <2>0 DEF Init, LogInv, Plausible, Balanced
  <2>7. ReactionIsSane
    <3>1. DOMAIN lat.reaction = {} /\ DOMAIN lat.samples = {}
      BY DEF Init
    <3>2. [j \in {} |-> 0] \in [{} -> {}]
      OBVIOUS
    <3>. QED BY <3>1, <3>2 DEF ReactionIsSane
  <2>8. SummaryInv
    BY DEF Init, SummaryInv
  <2>. QED BY <2>3, <2>4, <2>5, <2>6, <2>7, <2>8 DEF IInv
<1>2. IInv /\ [Next]_vars => IInv'
  BY IInvStep
<1>. QED BY <1>1, <1>2, PTL DEF Spec

\* Every state of the window is well typed.
THEOREM TypeCorrect == Spec => []TypeOK
<1>1. IInv => TypeOK
  BY DEF IInv
<1>. QED BY <1>1, InductiveInvariant, PTL

\* Across every watch that expired, each version after the list is observed at
\* most once, in order and with none skipped.
THEOREM EachVersionOnce == Spec => []ObservedOnce
<1>1. IInv => ObservedOnce
  BY DEF IInv, WatchInv
<1>. QED BY <1>1, InductiveInvariant, PTL

\* Every reaction sample pairs off with a convergence sample it is at most,
\* although the arm may tear value and stamp apart.  One that reads its clock
\* after its sources has none a whole millisecond below zero; for one that reads
\* it before them nothing is claimed but the other bound.
THEOREM ReactionsAreSane == Spec => []ReactionIsSane
<1>1. IInv => ReactionIsSane
  BY DEF IInv
<1>. QED BY <1>1, InductiveInvariant, PTL

\* The ticks Load reports are rounds that reached every source, and at most one
\* such round is missing.
THEOREM TicksAreRounds == Spec => []TicksAreWholeRounds
<1>1. IInv => TicksAreWholeRounds
  <2>. SUFFICES ASSUME IInv PROVE TicksAreWholeRounds
    OBVIOUS
  <2>1. 0 \in Pairs /\ ticks \in Nat /\ clock \in Nat /\ clock =< ticks + 1
        /\ ticks =< MaxRounds
    BY Types, WindowConstants DEF IInv, LoadInv, Pairs
  <2>2. \A i \in Pairs : 1 .. ticks \subseteq held[i] /\ held[i] \subseteq 1 .. clock
    BY DEF IInv, LoadInv
  <2>3. 1 .. ticks \subseteq Values /\ 1 .. clock \subseteq 1 .. ticks + 1
    BY <2>1, WindowConstants DEF Values
  <2>. QED BY <2>1, <2>2, <2>3 DEF TicksAreWholeRounds
<1>. QED BY <1>1, InductiveInvariant, PTL

\* Nothing a window saw is lost from its denominators: a version observed was
\* dropped or dated, and one dated has a reaction, a stale stamp or none.
THEOREM DenominatorsAddUp == Spec => []Balanced
<1>1. IInv => Balanced
  BY DEF IInv
<1>. QED BY <1>1, InductiveInvariant, PTL

-----------------------------------------------------------------------------
(***************************************************************************)
(* The quantiles of the record when the window closes, for a sample of any *)
(* size: nothing here depends on how the sample came about.                *)
(***************************************************************************)

\* The rank lies in the sample, at least q percent of the positions are at or
\* before it and less than q percent are before it: the clamp of quantile
\* (measure.go) never changes the rank of a sample that is not empty.
THEOREM RankIsNearest ==
    ASSUME NEW n \in Nat \ {0}, NEW q \in 1 .. 100
    PROVE  /\ Rank(q, n) \in 0 .. n - 1
           /\ 100 * (Rank(q, n) + 1) >= q * n
           /\ 100 * Rank(q, n) < q * n
<1> DEFINE m == q * n
<1>1. m \in Nat /\ m >= 1 /\ m <= 100 * n
  <2>1. m \in Nat
    OBVIOUS
  <2>2. m >= n /\ m <= 100 * n
    BY <2>1, SMT
  <2> QED
    BY <2>1, <2>2
<1> HIDE DEF m
<1>2. Clamp((m + 99) \div 100 - 1, n) = (m + 99) \div 100 - 1
  BY <1>1 DEF Clamp
<1>3. /\ (m + 99) \div 100 - 1 \in 0 .. n - 1
      /\ 100 * ((m + 99) \div 100) >= m
      /\ 100 * ((m + 99) \div 100 - 1) < m
  BY <1>1
<1> QED
  BY <1>2, <1>3 DEF Rank, m

\* The columns of a summary are ordered: p50 <= p90 <= p99, because a larger
\* quantile never has a smaller rank.
THEOREM RankIsMonotone ==
    ASSUME NEW n \in Nat \ {0}, NEW q \in 1 .. 100, NEW r \in q .. 100
    PROVE  Rank(q, n) <= Rank(r, n)
<1>1. q * n <= r * n /\ q * n \in Nat /\ r * n \in Nat
  <2>1. q * n \in Nat /\ r * n \in Nat /\ (r - q) * n \in Nat
    OBVIOUS
  <2>2. r * n = q * n + (r - q) * n
    OBVIOUS
  <2> QED
    BY <2>1, <2>2
<1>2. ASSUME NEW a \in Nat, NEW b \in Nat, a <= b
      PROVE  Clamp((a + 99) \div 100 - 1, n) <= Clamp((b + 99) \div 100 - 1, n)
  BY <1>2 DEF Clamp
<1> QED
  BY <1>1, <1>2 DEF Rank

\* In a sorted sample the value at position j has the first j positions at or
\* below it, and nothing from position j on below it.
LEMMA SortedPositions ==
    ASSUME NEW n \in Nat, NEW s \in [1 .. n -> Int], NEW j \in 1 .. n,
           \A a, b \in 1 .. n : a <= b => s[a] <= s[b]
    PROVE  /\ Cardinality({i \in 1 .. n : s[i] <= s[j]}) >= j
           /\ Cardinality({i \in 1 .. n : s[i] < s[j]}) <= j - 1
           /\ Cardinality({i \in 1 .. n : s[i] <= s[j]}) \in Nat
           /\ Cardinality({i \in 1 .. n : s[i] < s[j]}) \in Nat
<1> DEFINE upto == {i \in 1 .. n : s[i] <= s[j]}
           below == {i \in 1 .. n : s[i] < s[j]}
<1>1. j \in Nat /\ j <= n /\ j >= 1
  OBVIOUS
<1>2. 1 .. j \subseteq upto /\ upto \subseteq 1 .. n
  BY <1>1
<1>3. below \subseteq 1 .. j - 1
  <2> SUFFICES ASSUME NEW i \in below PROVE i <= j - 1
    BY <1>1
  <2>1. i \in 1 .. n /\ s[i] < s[j] /\ s[i] \in Int /\ s[j] \in Int
    OBVIOUS
  <2>2. ~ (j <= i)
    BY <2>1
  <2> QED
    BY <2>1, <2>2
<1>4. IsFiniteSet(1 .. n)
  BY FS_Interval
<1>5. IsFiniteSet(1 .. j) /\ Cardinality(1 .. j) = j
  BY <1>1, FS_Interval
<1>6. IsFiniteSet(1 .. j - 1) /\ Cardinality(1 .. j - 1) = j - 1
  <2>1. /\ IsFiniteSet(1 .. j - 1)
        /\ Cardinality(1 .. j - 1) = IF 1 > j - 1 THEN 0 ELSE (j - 1) - 1 + 1
    BY FS_Interval
  <2> QED
    BY <1>1, <2>1
<1> HIDE DEF upto, below
<1>7. IsFiniteSet(upto) /\ Cardinality(upto) >= Cardinality(1 .. j)
  BY <1>2, <1>4, FS_Subset
<1>8. IsFiniteSet(below) /\ Cardinality(below) <= Cardinality(1 .. j - 1)
  BY <1>3, <1>6, FS_Subset
<1>9. Cardinality(upto) \in Nat /\ Cardinality(below) \in Nat
  BY <1>7, <1>8, FS_CardinalityType
<1> QED
  BY <1>5, <1>6, <1>7, <1>8, <1>9 DEF upto, below

\* What Summarize prints for a quantile is the nearest rank of the sorted
\* sample: a latency that was measured, never one between two that were.
THEOREM QuantileIsNearestRank ==
    ASSUME NEW s \in Seq(Int), s # << >>, NEW q \in 1 .. 100,
           \A i, j \in 1 .. Len(s) : i <= j => s[i] <= s[j]
    PROVE  NearestRank(s, quantile(s, q), q)
<1>1. Len(s) \in Nat \ {0} /\ s \in [1 .. Len(s) -> Int]
  OBVIOUS
<1>2. PICK j \in 1 .. Len(s) :
        /\ j = Rank(q, Len(s)) + 1
        /\ 100 * j >= q * Len(s)
        /\ 100 * (j - 1) < q * Len(s)
  <2>1. /\ Rank(q, Len(s)) \in 0 .. Len(s) - 1
        /\ 100 * (Rank(q, Len(s)) + 1) >= q * Len(s)
        /\ 100 * Rank(q, Len(s)) < q * Len(s)
    BY <1>1, RankIsNearest
  <2> DEFINE r == Rank(q, Len(s))
  <2>2. r \in Nat /\ r + 1 \in 1 .. Len(s) /\ (r + 1) - 1 = r
    BY <1>1, <2>1
  <2> QED
    BY <2>1, <2>2
<1>3. quantile(s, q) = s[j]
  BY <1>2 DEF quantile
<1> DEFINE upto == {i \in 1 .. Len(s) : s[i] <= s[j]}
           below == {i \in 1 .. Len(s) : s[i] < s[j]}
<1>4. /\ Cardinality(upto) \in Nat /\ Cardinality(upto) >= j
      /\ Cardinality(below) \in Nat /\ Cardinality(below) <= j - 1
  BY <1>1, SortedPositions
<1>5. 100 * Cardinality(upto) >= q * Len(s) /\ 100 * Cardinality(below) < q * Len(s)
  <2>1. q * Len(s) \in Int /\ j \in Int
    BY <1>1
  <2> HIDE DEF upto, below
  <2> QED
    BY <1>2, <1>4, <2>1
<1> QED
  BY <1>3, <1>5 DEF NearestRank

\* slices.Sorted.

\* Some sample is the largest of a set of them.
LEMMA LargestSample ==
    ASSUME NEW n \in Nat, NEW s \in [1 .. n -> Int], NEW T \in SUBSET (1 .. n), T # {}
    PROVE  \E j \in T : \A i \in T : s[i] =< s[j]
<1>. DEFINE Has(U) == \E j \in U : \A i \in U : s[i] =< s[j]
            P == {U \in SUBSET (1 .. n) : U # {} => Has(U)}
<1>1. ASSUME NEW U \in SUBSET (1 .. n), \A V \in SUBSET U : V # U => V \in P
      PROVE  U \in P
  <2>. SUFFICES ASSUME U # {} PROVE Has(U)
    OBVIOUS
  <2>1. PICK x \in U : TRUE
    OBVIOUS
  <2>2. CASE U = {x}
    <3>1. s[x] =< s[x]
      OBVIOUS
    <3>. QED BY <2>2, <3>1
  <2>3. CASE U # {x}
    <3>1. U \ {x} \in SUBSET U /\ U \ {x} # U /\ U \ {x} # {}
      BY <2>1, <2>3
    <3>2. PICK y \in U \ {x} : \A i \in U \ {x} : s[i] =< s[y]
      BY <1>1, <3>1
    <3>3. s[x] \in Int /\ s[y] \in Int /\ \A i \in U : s[i] \in Int
      OBVIOUS
    <3>4. CASE s[x] =< s[y]
      BY <3>2, <3>4
    <3>5. CASE ~(s[x] =< s[y])
      <4>1. \A i \in U : s[i] =< s[x]
        BY <3>2, <3>3, <3>5
      <4>. QED BY <4>1
    <3>. QED BY <3>4, <3>5
  <2>. QED BY <2>2, <2>3
<1>2. \A U \in SUBSET (1 .. n) : U \in P
  <2>1. IsFiniteSet(1 .. n)
    BY FS_Interval
  <2>. HIDE DEF P
  <2>. QED BY <1>1, <2>1, SetInduction
<1>. QED BY <1>2

InOrder(p, s, m) == \A i, j \in 1 .. m : i < j => s[p[i]] =< s[p[j]]

\* Any set of samples can be put in order: the largest last, and the rest
\* before it.
LEMMA OrderExists ==
    ASSUME NEW n \in Nat, NEW s \in [1 .. n -> Int]
    PROVE  \E p \in Bijection(1 .. n, 1 .. n) : InOrder(p, s, n)
<1>. DEFINE Size(T) == Cardinality(T)
            Has(T) == \E p \in Bijection(1 .. Size(T), T) : InOrder(p, s, Size(T))
            P == {T \in SUBSET (1 .. n) : Has(T)}
<1>0. IsFiniteSet(1 .. n) /\ Cardinality(1 .. n) = n
  <2>1. IsFiniteSet(1 .. n) /\ Cardinality(1 .. n) = IF 1 > n THEN 0 ELSE n - 1 + 1
    BY FS_Interval
  <2>. QED BY <2>1
<1>1. ASSUME NEW T \in SUBSET (1 .. n), \A U \in SUBSET T : U # T => U \in P
      PROVE  Has(T)
  <2>0. IsFiniteSet(T) /\ Size(T) \in Nat
    BY <1>0, FS_Subset, FS_CardinalityType
  <2>1. CASE T = {}
    <3>1. Size(T) = 0 /\ 1 .. 0 = {}
      BY <2>1, FS_EmptySet
    <3>. DEFINE p == [i \in {} |-> i]
    <3>2. p \in Bijection({}, {})
      BY DEF Bijection, Injection, Surjection, IsInjective
    <3>3. InOrder(p, s, 0)
      BY <3>1 DEF InOrder
    <3>. QED BY <2>1, <3>1, <3>2, <3>3
  <2>2. CASE T # {}
    <3>1. PICK j \in T : \A i \in T : s[i] =< s[j]
      BY <2>2, LargestSample
    <3>. DEFINE U == T \ {j}
                m == Size(U)
    <3>2. U \in P /\ m \in Nat /\ Size(T) = m + 1
      <4>1. U \in SUBSET T /\ U # T
        OBVIOUS
      <4>2. IsFiniteSet(U) /\ Cardinality(U) = Cardinality(T) - 1
        BY <2>0, FS_RemoveElement
      <4>3. U \in P
        BY <1>1, <4>1
      <4>. HIDE DEF U, P
      <4>. QED BY <2>0, <4>2, <4>3, FS_CardinalityType
    <3>3. PICK p \in Bijection(1 .. m, U) : InOrder(p, s, m)
      BY <3>2
    <3>. DEFINE q == [i \in 1 .. m + 1 |-> IF i = m + 1 THEN j ELSE p[i]]
    <3>4. /\ p \in [1 .. m -> U]
          /\ \A a, b \in 1 .. m : p[a] = p[b] => a = b
          /\ \A t \in U : \E a \in 1 .. m : p[a] = t
      BY <3>3 DEF Bijection, Injection, Surjection, IsInjective
    <3>5. /\ \A i \in 1 .. m : i \in 1 .. m + 1 /\ i # m + 1 /\ q[i] = p[i] /\ p[i] \in U
          /\ m + 1 \in 1 .. m + 1 /\ q[m + 1] = j
          /\ \A i \in 1 .. m + 1 : i = m + 1 \/ i \in 1 .. m
      <4>. HIDE DEF m, U
      <4>. QED BY <3>2, <3>4
    <3>6. q \in [1 .. m + 1 -> T]
      <4>1. \A i \in 1 .. m + 1 : q[i] \in T
        BY <3>5
      <4>2. q = [i \in 1 .. m + 1 |-> q[i]]
        OBVIOUS
      <4>. HIDE DEF q, m
      <4>. QED BY <4>1, <4>2
    <3>. HIDE DEF q, m
    <3>7. \A a, b \in 1 .. m + 1 : q[a] = q[b] => a = b
      BY <3>4, <3>5
    <3>8. \A t \in T : \E a \in 1 .. m + 1 : q[a] = t
      <4>. SUFFICES ASSUME NEW t \in T PROVE \E a \in 1 .. m + 1 : q[a] = t
        OBVIOUS
      <4>1. CASE t = j
        BY <3>5, <4>1
      <4>2. CASE t # j
        BY <3>4, <3>5, <4>2
      <4>. QED BY <4>1, <4>2
    <3>9. q \in Bijection(1 .. m + 1, T)
      BY <3>6, <3>7, <3>8 DEF Bijection, Injection, Surjection, IsInjective
    <3>10. InOrder(q, s, m + 1)
      <4>. SUFFICES ASSUME NEW a \in 1 .. m + 1, NEW b \in 1 .. m + 1, a < b
                    PROVE  s[q[a]] =< s[q[b]]
        BY DEF InOrder
      <4>1. CASE b = m + 1
        BY <3>1, <3>5, <3>6, <4>1
      <4>2. CASE b # m + 1
        <5>1. a \in 1 .. m /\ b \in 1 .. m
          BY <3>2, <4>2
        <5>. QED BY <3>3, <3>5, <5>1 DEF InOrder
      <4>. QED BY <4>1, <4>2
    <3>. QED BY <3>2, <3>9, <3>10
  <2>. QED BY <2>1, <2>2
<1>2. \A T \in SUBSET (1 .. n) : T \in P
  <2>1. \A T \in SUBSET (1 .. n) : (\A U \in SUBSET T : U # T => U \in P) => T \in P
    BY <1>1
  <2>. HIDE DEF P
  <2>. QED BY <1>0, <2>1, SetInduction
<1>3. 1 .. n \in P
  <2>. HIDE DEF P
  <2>. QED BY <1>2
<1>. QED BY <1>0, <1>3

\* What slices.Sorted returns has the samples, each as often, in order.
LEMMA SortedSample ==
    ASSUME NEW ds \in Seq(Int)
    PROVE  /\ Sorted(ds) \in [1 .. Len(ds) -> Int]
           /\ \A i, j \in 1 .. Len(ds) : i <= j => Sorted(ds)[i] <= Sorted(ds)[j]
           /\ \E p \in Bijection(1 .. Len(ds), 1 .. Len(ds)) :
                \A i \in 1 .. Len(ds) : Sorted(ds)[i] = ds[p[i]]
<1>. DEFINE n == Len(ds)
            I == 1 .. n
            order == CHOOSE p \in Bijection(I, I) : \A i, j \in I : i < j => ds[p[i]] =< ds[p[j]]
<1>1. n \in Nat /\ ds \in [1 .. n -> Int]
  OBVIOUS
<1>2. \E p \in Bijection(I, I) : \A i, j \in I : i < j => ds[p[i]] =< ds[p[j]]
  BY <1>1, OrderExists DEF InOrder
<1>3. order \in Bijection(I, I) /\ \A i, j \in I : i < j => ds[order[i]] =< ds[order[j]]
  <2>. HIDE DEF I
  <2>. QED BY <1>2
<1>4. order \in [I -> I]
  BY <1>3 DEF Bijection, Injection
<1>5. Sorted(ds) = [i \in I |-> ds[order[i]]]
  BY DEF Sorted
<1>. HIDE DEF order, I
<1>6. \A i \in I : Sorted(ds)[i] = ds[order[i]] /\ ds[order[i]] \in Int
  <2>1. \A i \in I : ds[i] \in Int
    BY <1>1 DEF I
  <2>. QED BY <1>4, <1>5, <2>1
<1>7. Sorted(ds) \in [I -> Int]
  BY <1>5, <1>6
<1>8. ASSUME NEW i \in I, NEW j \in I, i <= j PROVE Sorted(ds)[i] <= Sorted(ds)[j]
  <2>1. i \in Int /\ j \in Int
    BY <1>1 DEF I
  <2>2. CASE i = j
    BY <1>6, <2>2
  <2>3. CASE i < j
    BY <1>3, <1>6, <2>3
  <2>. QED BY <1>8, <2>1, <2>2, <2>3
<1>. QED BY <1>3, <1>6, <1>7, <1>8 DEF I

\* A nearest rank of a sample in order is one of it in any other.
LEMMA RankOfAnyOrder ==
    ASSUME NEW n \in Nat, NEW s, NEW ds, Len(s) = n, Len(ds) = n,
           s \in [1 .. n -> Int], ds \in [1 .. n -> Int],
           NEW p \in Bijection(1 .. n, 1 .. n), \A i \in 1 .. n : s[i] = ds[p[i]],
           NEW v \in Int, NEW q \in Int, NearestRank(s, v, q)
    PROVE  NearestRank(ds, v, q)
<1>. DEFINE I == 1 .. n
<1>1. IsFiniteSet(I)
  BY FS_Interval
<1>2. /\ p \in [I -> I] /\ \A a, b \in I : p[a] = p[b] => a = b
      /\ \A i \in I : \E a \in I : p[a] = i
  BY DEF Bijection, Injection, Surjection, IsInjective
<1>3. ASSUME NEW V \in SUBSET Int
      PROVE  Cardinality({i \in I : s[i] \in V}) = Cardinality({i \in I : ds[i] \in V})
  <2>. DEFINE A == {i \in I : s[i] \in V}
              B == {i \in I : ds[i] \in V}
              r == [a \in A |-> p[a]]
  <2>1. IsFiniteSet(A)
    BY <1>1, FS_Subset
  <2>2. r \in Bijection(A, B)
    <3>1. r \in [A -> B]
      BY <1>2
    <3>2. \A a, b \in A : r[a] = r[b] => a = b
      BY <1>2
    <3>3. \A b \in B : \E a \in A : r[a] = b
      BY <1>2
    <3>. HIDE DEF r, A, B
    <3>. QED BY <3>1, <3>2, <3>3 DEF Bijection, Injection, Surjection, IsInjective
  <2>. HIDE DEF r, A, B
  <2>3. ExistsBijection(A, B)
    BY <2>2 DEF ExistsBijection
  <2>4. Cardinality(A) = Cardinality(B)
    BY <2>1, <2>3, FS_Bijection
  <2>. QED BY <2>4 DEF A, B
<1>. DEFINE upto == {x \in Int : x <= v}
            below == {x \in Int : x < v}
<1>4. /\ {i \in I : s[i] \in upto} = {i \in I : s[i] <= v}
      /\ {i \in I : ds[i] \in upto} = {i \in I : ds[i] <= v}
      /\ {i \in I : s[i] \in below} = {i \in I : s[i] < v}
      /\ {i \in I : ds[i] \in below} = {i \in I : ds[i] < v}
  OBVIOUS
<1>5. upto \in SUBSET Int /\ below \in SUBSET Int
  OBVIOUS
<1>6. /\ Cardinality({i \in I : s[i] <= v}) = Cardinality({i \in I : ds[i] <= v})
      /\ Cardinality({i \in I : s[i] < v}) = Cardinality({i \in I : ds[i] < v})
  <2>. HIDE DEF upto, below
  <2>. QED BY <1>3, <1>4, <1>5
<1>7. v \in {ds[i] : i \in I}
  BY <1>2 DEF NearestRank
<1>. QED BY <1>6, <1>7 DEF NearestRank

\* The columns of any sample, in the order it was taken in.
LEMMA ColumnsAreObserved ==
    ASSUME NEW ds \in Seq(Int)
    PROVE  /\ quantilesOf(ds).count = Len(ds)
           /\ ds # << >> => /\ NearestRank(ds, quantilesOf(ds).p50, 50)
                            /\ NearestRank(ds, quantilesOf(ds).p90, 90)
                            /\ NearestRank(ds, quantilesOf(ds).p99, 99)
                            /\ \A j \in DOMAIN ds :
                                 ds[j] \in quantilesOf(ds).min .. quantilesOf(ds).max
<1>. DEFINE n == Len(ds)
            s == Sorted(ds)
<1>1. n \in Nat /\ ds \in [1 .. n -> Int] /\ DOMAIN ds = 1 .. n
  OBVIOUS
<1>2. /\ s \in [1 .. n -> Int] /\ \A i, j \in 1 .. n : i <= j => s[i] <= s[j]
      /\ \E p \in Bijection(1 .. n, 1 .. n) : \A i \in 1 .. n : s[i] = ds[p[i]]
  BY SortedSample
<1>3. PICK p \in Bijection(1 .. n, 1 .. n) : \A i \in 1 .. n : s[i] = ds[p[i]]
  BY <1>2
<1>4. /\ quantilesOf(ds).count = n
      /\ quantilesOf(ds).p50 = quantile(s, 50) /\ quantilesOf(ds).p90 = quantile(s, 90)
      /\ quantilesOf(ds).p99 = quantile(s, 99)
      /\ n # 0 => quantilesOf(ds).max = s[n] /\ quantilesOf(ds).min = s[1]
  BY DEF quantilesOf
<1>5. ds # << >> => n # 0
  OBVIOUS
<1>. HIDE DEF s
<1>6. s \in Seq(Int) /\ Len(s) = n
  BY <1>1, <1>2
<1>7. ASSUME ds # << >>, NEW q \in 1 .. 100
      PROVE  NearestRank(ds, quantile(s, q), q)
  <2>1. s # << >>
    BY <1>1, <1>5, <1>6, <1>7
  <2>2. NearestRank(s, quantile(s, q), q)
    BY <1>2, <1>6, <2>1, QuantileIsNearestRank
  <2>3. quantile(s, q) \in Int
    BY <1>2, <1>6, <2>2 DEF NearestRank
  <2>. HIDE DEF n
  <2>. QED BY <1>1, <1>2, <1>3, <1>6, <2>2, <2>3, RankOfAnyOrder DEF n
<1>8. ASSUME ds # << >>, NEW j \in DOMAIN ds
      PROVE  ds[j] \in s[1] .. s[n]
  <2>1. PICK i \in 1 .. n : p[i] = j
    BY <1>1, <1>3 DEF Bijection, Surjection
  <2>2. 1 \in 1 .. n /\ n \in 1 .. n /\ 1 <= i /\ i <= n
    BY <1>1
  <2>3. s[1] <= s[i] /\ s[i] <= s[n] /\ s[i] = ds[j]
    BY <1>2, <1>3, <2>1, <2>2
  <2>4. s[1] \in Int /\ s[i] \in Int /\ s[n] \in Int
    BY <1>2, <2>2
  <2>. QED BY <2>3, <2>4
<1>9. 50 \in 1 .. 100 /\ 90 \in 1 .. 100 /\ 99 \in 1 .. 100
  OBVIOUS
<1>. HIDE DEF n
<1>. QED BY <1>4, <1>5, <1>7, <1>8, <1>9 DEF n

\* Every column of a closed window is a nearest rank of what the window
\* recorded, between its least and its largest sample, and the denominators add
\* up, for any number of samples.
THEOREM SummariesAreObserved == Spec => []SummaryIsObserved
<1>1. IInv => SummaryIsObserved
  <2>. SUFFICES ASSUME IInv, result = "closed" PROVE SummaryIsObserved
    BY DEF SummaryIsObserved
  <2>1. lat.samples \in Seq(Int) /\ lat.reaction \in Seq(Int)
    <3>1. lat.samples \in Seq(0 .. MaxRounds) /\ lat.reaction \in Seq(Int)
      BY DEF IInv, TypeOK
    <3>. QED BY <3>1, SampleType, WindowConstants
  <2>2. /\ summary.convergence = quantilesOf(lat.samples)
        /\ summary.reaction = quantilesOf(lat.reaction)
        /\ summary.dropped = lat.dropped /\ summary.stale = lat.stale
        /\ summary.unstamped = lat.unstamped
    BY DEF IInv, SummaryInv, Summarize
  <2>3. Balanced
    BY DEF IInv
  <2>. QED BY <2>1, <2>2, <2>3, ColumnsAreObserved DEF SummaryIsObserved, Balanced
<1>. QED BY <1>1, InductiveInvariant, PTL

-----------------------------------------------------------------------------
\* The readings.  What was true when one was taken is in it, so how two of them
\* compare is a relation between the two.  This is it for the count of a series
\* or a bucket: made, exits only grow, and the count gained no more than was made.
Reading == [count: Nat, made: Nat, exits: Nat]
Since(r, n) ==
    /\ r.made <= n.made /\ r.exits <= n.exits
    /\ n.count + r.made <= n.made + r.count
Exact(r, n, there) ==
    r.exits = n.exits => there /\ n.count + r.made = n.made + r.count

\* The same for the CPU readings of all processes.
CPUReading == [size: Nat, ticks: Nat, spent: [Procs -> 0 .. MaxCPU],
               exits: [Procs -> 0 .. MaxRestarts]]
CPUSince(r, n) ==
    /\ \A p \in Procs : r.spent[p] <= n.spent[p] /\ r.exits[p] <= n.exits[p]
    /\ n.ticks + Total(r.spent, Procs) <= Total(n.spent, Procs) + r.ticks
    /\ (r.size = Cardinality(Procs) /\ r.exits = n.exits) =>
         /\ n.size = Cardinality(Procs)
         /\ n.ticks + Total(r.spent, Procs) = Total(n.spent, Procs) + r.ticks

\* What each reading would be if it were taken now.
CPUNow == [size |-> Cardinality(up), ticks |-> Total(cpu, up), spent |-> spent, exits |-> exits]
BucketNow == [count |-> IF Radiant \in up THEN Bucket(count[Radiant]) ELSE 0,
              made |-> Bucket(made[Radiant]), exits |-> exits[Radiant]]
Now(p, s) == [count |-> IF Labelled /\ p \in up THEN count[p][s] ELSE 0,
              made |-> made[p][s], exits |-> exits[p]]
Scraped(r, s) == [count |-> r.count[s], made |-> r.made[s], exits |-> r.exits]

\* The place of each reading in Steps.
Place ==
    IF PerProgram THEN [before |-> [bucket |-> 1, scrape |-> 2, collect |-> 3],
                        after |-> [bucket |-> 5, collect |-> 6, scrape |-> 7]]
    ELSE [before |-> [collect |-> 1, scrape |-> 2], after |-> [collect |-> 4, scrape |-> 5]]
Taken(s, e) == step > Place[e][s]

ProcessInv ==
    /\ \A p \in Procs : cpu[p] <= spent[p] /\ \A s \in Series : count[p][s] <= made[p][s]
    /\ Requested <= MaxCalls

CPUInv ==
    /\ collected \in [Ends -> CPUReading]
    /\ CPUSince(collected["before"], CPUNow)
    /\ Taken("collect", "after") => CPUSince(collected["before"], collected["after"])

BucketInv ==
    LET b == bucket["before"]  a == bucket["after"] IN
    /\ ~PerProgram => \A e \in Ends : bucket[e].count = 0 /\ bucket[e].made = 0
    /\ PerProgram =>
         /\ Since(b, BucketNow)
         /\ b.count > 0 => Exact(b, BucketNow, Radiant \in up)
         /\ Taken("bucket", "after") => Since(b, a) /\ (b.count > 0 => Exact(b, a, TRUE))

ScrapeReading == [count: [Own -> Nat], made: [Series -> Nat], exits: Nat]
ScrapeInv ==
    /\ DOMAIN scraped = Ends
    /\ \A e \in Ends : \A p \in DOMAIN scraped[e] :
         /\ p \in Procs /\ scraped[e][p] \in ScrapeReading
         /\ \A s \in Own :
              /\ Since(Scraped(scraped[e][p], s), Now(p, s))
              /\ Labelled => Exact(Scraped(scraped[e][p], s), Now(p, s), p \in up)
    /\ \A p \in DOMAIN scraped["before"] \cap DOMAIN scraped["after"] : \A s \in Own :
         /\ Since(Scraped(scraped["before"][p], s), Scraped(scraped["after"][p], s))
         /\ Labelled =>
              Exact(Scraped(scraped["before"][p], s), Scraped(scraped["after"][p], s), TRUE)
    /\ End = "before" => DOMAIN scraped["after"] = {}
    /\ \A e \in Ends : Taken("scrape", e) => e \in failed \/ DOMAIN scraped[e] = Procs

CountersInv ==
    /\ CountersTypeOK /\ ProcessInv
    /\ CPUInv /\ BucketInv /\ ScrapeInv
    /\ NeverOverstated /\ ExactWhenNobodyExits

-----------------------------------------------------------------------------
(***************************************************************************)
(* The constants, the order of a measurement, and relations of readings.   *)
(***************************************************************************)

\* The assumptions on the constants, as the proofs use them.
LEMMA CountersConstants ==
    /\ IsFiniteSet(Workers) /\ Workers # {}
    /\ MaxCPU \in Nat /\ MaxCalls \in Nat /\ MaxRestarts \in Nat
BY CountersAssumption

\* Totals are over finite sets.
LEMMA Finite ==
    /\ IsFiniteSet(Procs) /\ Cardinality(Procs) \in Nat /\ Cardinality(Procs) > 0
    /\ IsFiniteSet(Own) /\ IsFiniteSet(Series) /\ Own \subseteq Series /\ Own # {}
<1>1. IsFiniteSet({Radiant}) /\ Cardinality({Radiant}) = 1
  BY FS_Singleton
<1>2. IsFiniteSet(Procs) /\ Procs # {}
  BY <1>1, CountersConstants DEF Procs
<1>3. Cardinality(Procs) \in Nat /\ Cardinality(Procs) # 0
  BY <1>2, FS_CardinalityType, FS_EmptySet
<1>4. IsFiniteSet({"applied", "runs"}) /\ IsFiniteSet({"GET", "PATCH"})
      /\ IsFiniteSet({"neighbour"})
  <2>1. IsFiniteSet({"neighbour"}) /\ IsFiniteSet({"runs"}) /\ IsFiniteSet({"PATCH"})
    BY FS_Singleton
  <2>2. IsFiniteSet({"runs"} \cup {"applied"}) /\ IsFiniteSet({"PATCH"} \cup {"GET"})
    BY <2>1, FS_AddElement
  <2>3. {"runs"} \cup {"applied"} = {"applied", "runs"} /\ {"PATCH"} \cup {"GET"} = {"GET", "PATCH"}
    OBVIOUS
  <2>. QED BY <2>1, <2>2, <2>3
<1>5. IsFiniteSet(Own) /\ Own # {}
  BY <1>4 DEF Own
<1>6. IsFiniteSet(Series)
  BY <1>4, <1>5, FS_Union DEF Series
<1>. QED BY <1>2, <1>3, <1>5, <1>6 DEF Series

\* An arm does not become another kind of arm.
LEMMA SameArm ==
    ASSUME kind' = kind
    PROVE  /\ PerProgram' = PerProgram /\ Labelled' = Labelled /\ Procs' = Procs
           /\ Own' = Own /\ Series' = Series /\ Steps' = Steps /\ Place' = Place
           /\ NoReport' = NoReport
BY DEF PerProgram, Labelled, Procs, Own, Series, Steps, Place, NoReport

\* Where measure is at a step.
Scheduled ==
    /\ step \in Nat
    /\ PerProgram =>
         /\ step \in 1 .. 9 /\ DOMAIN Steps = 1 .. 9
         /\ At("bucket") <=> step \in {1, 5}
         /\ At("scrape") <=> step \in {2, 7}
         /\ At("collect") <=> step \in {3, 6}
         /\ At("window") <=> step = 4
         /\ At("report") <=> step = 8
         /\ At("done") <=> step = 9
         /\ End = IF step <= 4 THEN "before" ELSE "after"
    /\ ~PerProgram =>
         /\ step \in 1 .. 7 /\ DOMAIN Steps = 1 .. 7
         /\ ~At("bucket")
         /\ At("collect") <=> step \in {1, 4}
         /\ At("scrape") <=> step \in {2, 5}
         /\ At("window") <=> step = 3
         /\ At("report") <=> step = 6
         /\ At("done") <=> step = 7
         /\ End = IF step <= 3 THEN "before" ELSE "after"

\* measure is where Steps says.
LEMMA Schedule == step \in DOMAIN Steps => Scheduled
<1>. SUFFICES ASSUME step \in DOMAIN Steps PROVE Scheduled
  OBVIOUS
<1>1. CASE PerProgram
  <2>1. DOMAIN Steps = 1 .. 9 /\ Len(Steps) = 9
    BY <1>1 DEF Steps
  <2>2. /\ Steps[1] = "bucket" /\ Steps[2] = "scrape" /\ Steps[3] = "collect"
        /\ Steps[4] = "window" /\ Steps[5] = "bucket" /\ Steps[6] = "collect"
        /\ Steps[7] = "scrape" /\ Steps[8] = "report" /\ Steps[9] = "done"
    BY <1>1 DEF Steps
  <2>3. \A i \in step .. 9 : Steps[i] = "window" <=> i = 4
    BY <2>1, <2>2
  <2>. QED BY <1>1, <2>1, <2>2, <2>3 DEF Scheduled, At, End
<1>2. CASE ~PerProgram
  <2>1. DOMAIN Steps = 1 .. 7 /\ Len(Steps) = 7
    BY <1>2 DEF Steps
  <2>2. /\ Steps[1] = "collect" /\ Steps[2] = "scrape" /\ Steps[3] = "window"
        /\ Steps[4] = "collect" /\ Steps[5] = "scrape" /\ Steps[6] = "report"
        /\ Steps[7] = "done"
    BY <1>2 DEF Steps
  <2>3. \A i \in step .. 7 : Steps[i] = "window" <=> i = 3
    BY <2>1, <2>2
  <2>. QED BY <1>2, <2>1, <2>2, <2>3 DEF Scheduled, At, End
<1>. QED BY <1>1, <1>2

\* And after a step.
LEMMA ScheduleNext == (step \in DOMAIN Steps => Scheduled)'
BY Schedule, PTL

\* The same of what has been taken.
LEMMA Takings ==
    /\ PerProgram =>
         /\ Taken("bucket", "before") <=> step > 1
         /\ Taken("bucket", "after") <=> step > 5
         /\ Taken("collect", "before") <=> step > 3
         /\ Taken("collect", "after") <=> step > 6
         /\ Taken("scrape", "before") <=> step > 2
         /\ Taken("scrape", "after") <=> step > 7
    /\ ~PerProgram =>
         /\ Taken("collect", "before") <=> step > 1
         /\ Taken("collect", "after") <=> step > 4
         /\ Taken("scrape", "before") <=> step > 2
         /\ Taken("scrape", "after") <=> step > 5
BY DEF Taken, Place

\* A relation of readings is one of any reading in between.
LEMMA SinceSince ==
    ASSUME NEW r \in Reading, NEW n \in Reading, NEW m \in Reading, Since(r, n), Since(n, m)
    PROVE  Since(r, m)
BY DEF Since, Reading

\* What has not exited since was there, and has counted all of it.
LEMMA ExactExact ==
    ASSUME NEW r \in Reading, NEW n \in Reading, NEW m \in Reading, NEW p, NEW S, NEW T,
           Since(r, n), Since(n, m), Exact(r, n, p \in S), p \in S => Exact(n, m, p \in T)
    PROVE  Exact(r, m, p \in T)
BY DEF Since, Exact, Reading

\* A reading relates to itself.
LEMMA Itself ==
    ASSUME NEW r \in Reading, NEW p, NEW S
    PROVE  Since(r, r) /\ (p \in S => Exact(r, r, p \in S))
BY DEF Since, Exact, Reading

\* The same for the readings of the CPU.
LEMMA CPUSinceSince ==
    ASSUME NEW r \in CPUReading, NEW n \in CPUReading, NEW m \in CPUReading,
           CPUSince(r, n), CPUSince(n, m)
    PROVE  CPUSince(r, m)
<1>1. /\ r.spent \in [Procs -> 0 .. MaxCPU] /\ n.spent \in [Procs -> 0 .. MaxCPU]
      /\ m.spent \in [Procs -> 0 .. MaxCPU]
      /\ r.exits \in [Procs -> 0 .. MaxRestarts] /\ n.exits \in [Procs -> 0 .. MaxRestarts]
      /\ m.exits \in [Procs -> 0 .. MaxRestarts]
      /\ r.ticks \in Nat /\ n.ticks \in Nat /\ m.ticks \in Nat
  BY DEF CPUReading
<1>2. /\ Total(r.spent, Procs) \in Int /\ Total(n.spent, Procs) \in Int
      /\ Total(m.spent, Procs) \in Int
  BY <1>1, Finite, TotalInt
<1>3. \A p \in Procs : r.spent[p] <= m.spent[p] /\ r.exits[p] <= m.exits[p]
  <2>. SUFFICES ASSUME NEW p \in Procs
                PROVE  r.spent[p] <= m.spent[p] /\ r.exits[p] <= m.exits[p]
    OBVIOUS
  <2>1. /\ r.spent[p] \in Int /\ n.spent[p] \in Int /\ m.spent[p] \in Int
        /\ r.exits[p] \in Int /\ n.exits[p] \in Int /\ m.exits[p] \in Int
    BY <1>1
  <2>. QED BY <2>1 DEF CPUSince
<1>4. r.exits = m.exits => n.exits = m.exits /\ r.exits = n.exits
  <2>. SUFFICES ASSUME r.exits = m.exits PROVE n.exits = m.exits
    OBVIOUS
  <2>1. \A p \in Procs : n.exits[p] = m.exits[p]
    <3>1. \A p \in Procs : /\ r.exits[p] <= n.exits[p] /\ n.exits[p] <= m.exits[p]
                           /\ r.exits[p] = m.exits[p]
      BY DEF CPUSince
    <3>2. \A p \in Procs : n.exits[p] \in Int /\ m.exits[p] \in Int
      BY <1>1
    <3>. QED BY <3>1, <3>2
  <2>. QED BY <1>1, <2>1
<1>. QED BY <1>1, <1>2, <1>3, <1>4 DEF CPUSince

\* And to itself.
LEMMA CPUItself ==
    ASSUME NEW r \in CPUReading
    PROVE  CPUSince(r, r)
<1>1. /\ \A p \in Procs : r.spent[p] \in Int /\ r.exits[p] \in Int
      /\ r.ticks \in Nat
  BY DEF CPUReading
<1>2. Total(r.spent, Procs) \in Int
  BY <1>1, Finite, TotalInt
<1>. QED BY <1>1, <1>2 DEF CPUSince

-----------------------------------------------------------------------------
(***************************************************************************)
(* The processes: whatever they do, what a reading would say moves as a    *)
(* later reading may.                                                      *)
(***************************************************************************)

ProcessTypes ==
    /\ up \in SUBSET Procs
    /\ kind \in {"workers", "programs", "unlabelled"}
    /\ cpu \in [Procs -> 0 .. MaxCPU] /\ spent \in [Procs -> 0 .. MaxCPU]
    /\ count \in [Procs -> [Series -> 0 .. MaxCalls]]
    /\ made \in [Procs -> [Series -> 0 .. MaxCalls]]
    /\ exits \in [Procs -> 0 .. MaxRestarts]

Moves ==
    /\ CPUSince(CPUNow, CPUNow')
    /\ \A p \in Procs : \A s \in Own :
         /\ Since(Now(p, s), Now(p, s)')
         /\ Labelled /\ p \in up => Exact(Now(p, s), Now(p, s)', p \in up')
    /\ PerProgram =>
         /\ Since(BucketNow, BucketNow')
         /\ Radiant \in up => Exact(BucketNow, BucketNow', Radiant \in up')

\* What the readings are of.
LEMMA NowTypes ==
    ASSUME ProcessTypes
    PROVE  /\ CPUNow \in CPUReading
           /\ \A p \in Procs : \A s \in Series : Now(p, s) \in Reading
           /\ PerProgram => BucketNow \in Reading
           /\ IsFiniteSet(up) /\ Cardinality(up) \in Nat
           /\ Total(cpu, up) \in Nat /\ Total(spent, Procs) \in Nat
<1>1. IsFiniteSet(up) /\ Cardinality(up) \in Nat
  BY Finite, FS_Subset, FS_CardinalityType DEF ProcessTypes
<1>2. \A p \in Procs : cpu[p] \in Nat /\ spent[p] \in Nat
  BY CountersConstants DEF ProcessTypes
<1>3. Total(cpu, up) \in Nat
  <2>1. up \in SUBSET Procs
    BY DEF ProcessTypes
  <2>. QED BY <1>2, <2>1, Finite, TotalPart
<1>4. Total(spent, Procs) \in Nat
  <2>1. Procs \in SUBSET Procs
    OBVIOUS
  <2>. QED BY <1>2, <2>1, Finite, TotalPart
<1>5. CPUNow \in CPUReading
  BY <1>1, <1>3 DEF CPUNow, CPUReading, ProcessTypes
<1>6. ASSUME NEW p \in Procs, NEW s \in Series PROVE Now(p, s) \in Reading
  <2>1. count[p][s] \in Nat /\ made[p][s] \in Nat /\ exits[p] \in Nat
    BY CountersConstants DEF ProcessTypes
  <2>. QED BY <2>1 DEF Now, Reading
<1>7. ASSUME PerProgram PROVE BucketNow \in Reading
  <2>1. Radiant \in Procs /\ "applied" \in Series /\ "neighbour" \in Series
    BY <1>7 DEF Procs, Series, Own
  <2>2. /\ count[Radiant]["applied"] \in Nat /\ count[Radiant]["neighbour"] \in Nat
        /\ made[Radiant]["applied"] \in Nat /\ made[Radiant]["neighbour"] \in Nat
        /\ exits[Radiant] \in Nat
    BY <2>1, CountersConstants DEF ProcessTypes
  <2>. QED BY <2>2 DEF BucketNow, Bucket, Reading
<1>. QED BY <1>1, <1>3, <1>4, <1>5, <1>6, <1>7

\* A process works: a tick more, in its own count and in the history.
LEMMA WorkMoves ==
    ASSUME ProcessTypes, ProcessInv, NEW q \in Procs, Work(q)
    PROVE  ProcessTypes' /\ ProcessInv' /\ Moves /\ UNCHANGED measureVars
<1>1. /\ q \in up /\ spent[q] < MaxCPU
      /\ cpu' = [cpu EXCEPT ![q] = @ + 1] /\ spent' = [spent EXCEPT ![q] = @ + 1]
      /\ UNCHANGED <<up, kind, count, made, exits, measureVars>>
  BY DEF Work
<1>2. /\ PerProgram' = PerProgram /\ Labelled' = Labelled /\ Procs' = Procs
      /\ Own' = Own /\ Series' = Series
  BY <1>1, SameArm
<1>3. /\ \A p \in Procs : cpu[p] \in Nat /\ spent[p] \in Nat
      /\ cpu'[q] = cpu[q] + 1 /\ spent'[q] = spent[q] + 1
      /\ \A p \in Procs : p # q => cpu'[p] = cpu[p] /\ spent'[p] = spent[p]
      /\ cpu[q] + 1 \in 0 .. MaxCPU /\ spent[q] + 1 \in 0 .. MaxCPU
  <2>1. \A p \in Procs : cpu[p] \in Nat /\ spent[p] \in Nat /\ cpu[p] <= spent[p]
    BY CountersConstants DEF ProcessTypes, ProcessInv
  <2>. QED BY <1>1, <2>1, CountersConstants DEF ProcessTypes
<1>4. ProcessTypes'
  BY <1>1, <1>2, <1>3 DEF ProcessTypes
<1>5. ProcessInv'
  <2>1. \A p \in Procs : cpu'[p] <= spent'[p]
    BY <1>3 DEF ProcessInv
  <2>2. Requested' = Requested
    BY <1>1, <1>2 DEF Requested
  <2>. QED BY <1>1, <1>2, <2>1, <2>2 DEF ProcessInv
<1>6. CPUSince(CPUNow, CPUNow')
  <2>1. /\ \A p \in up : cpu[p] \in Int
        /\ \A p \in up : p # q => cpu'[p] = cpu[p]
        /\ \A p \in Procs : spent[p] \in Int
        /\ \A p \in Procs : p # q => spent'[p] = spent[p]
    BY <1>3 DEF ProcessTypes
  <2>2. Total(cpu', up) = Total(cpu, up) + 1
    <3>1. IsFiniteSet(up) /\ q \in up /\ cpu'[q] = cpu[q] + 1
      BY <1>1, <1>3, NowTypes
    <3>. QED BY <2>1, <3>1, TotalCounts
  <2>3. Total(spent', Procs) = Total(spent, Procs) + 1
    BY <1>3, <2>1, Finite, TotalCounts
  <2>4. \A p \in Procs : spent[p] <= spent'[p] /\ exits[p] <= exits'[p]
    <3>1. \A p \in Procs : exits[p] \in Int
      BY DEF ProcessTypes
    <3>. QED BY <1>1, <1>3, <3>1
  <2>. QED BY <1>1, <2>2, <2>3, <2>4, NowTypes DEF CPUSince, CPUNow
<1>7. \A p \in Procs : \A s \in Own : Now(p, s)' = Now(p, s)
  BY <1>1, <1>2 DEF Now
<1>8. BucketNow' = BucketNow
  BY <1>1 DEF BucketNow
<1>9. Moves
  <2>1. ASSUME NEW r \in Reading PROVE Since(r, r) /\ r.count + r.made = r.made + r.count
    BY DEF Since, Reading
  <2>. QED BY <1>1, <1>6, <1>7, <1>8, <2>1, NowTypes, Finite DEF Moves, Exact
<1>. QED BY <1>1, <1>4, <1>5, <1>9

\* Requests made are counted as the bound counts them.
LEMMA RequestedFacts ==
    ASSUME ProcessTypes
    PROVE  /\ Requested \in Nat
           /\ \A p \in Procs : Total(made[p], Series) \in Nat /\ Total(made[p], Series) <= Requested
           /\ \A p \in Procs : \A s \in Series : made[p][s] <= Total(made[p], Series)
<1>. DEFINE each == [p \in Procs |-> Total(made[p], Series)]
<1>1. ASSUME NEW p \in Procs
      PROVE  /\ Total(made[p], Series) \in Nat
             /\ \A s \in Series : made[p][s] <= Total(made[p], Series)
  <2>1. (\A s \in Series : made[p][s] \in Nat) /\ Series \in SUBSET Series
    BY CountersConstants DEF ProcessTypes
  <2>. QED BY <2>1, Finite, TotalPart, TotalMember
<1>2. (\A p \in Procs : each[p] \in Nat /\ each[p] = Total(made[p], Series))
      /\ Procs \in SUBSET Procs
  BY <1>1
<1>3. Requested = Total(each, Procs)
  BY DEF Requested
<1>. HIDE DEF each
<1>4. Requested \in Nat /\ \A p \in Procs : each[p] <= Requested
  BY <1>2, <1>3, Finite, TotalPart, TotalMember
<1>. QED BY <1>1, <1>2, <1>4

\* A process makes a request and counts it.
LEMMA CallMoves ==
    ASSUME ProcessTypes, ProcessInv, NEW q \in Procs, NEW t \in Series, Call(q, t)
    PROVE  ProcessTypes' /\ ProcessInv' /\ Moves /\ UNCHANGED measureVars
<1>1. /\ q \in up /\ Requested < MaxCalls
      /\ made' = [made EXCEPT ![q][t] = @ + 1] /\ count' = [count EXCEPT ![q][t] = @ + 1]
      /\ UNCHANGED <<up, kind, cpu, spent, exits, measureVars>>
  BY DEF Call
<1>2. /\ PerProgram' = PerProgram /\ Labelled' = Labelled /\ Procs' = Procs
      /\ Own' = Own /\ Series' = Series
  BY <1>1, SameArm
<1>3. \A p \in Procs : \A s \in Series :
        /\ count[p][s] \in Nat /\ made[p][s] \in Nat /\ count[p][s] <= made[p][s]
        /\ made[p][s] <= Requested
  <2>1. ASSUME NEW p \in Procs, NEW s \in Series PROVE made[p][s] <= Requested
    <3>1. made[p][s] \in Nat
      BY CountersConstants DEF ProcessTypes
    <3>. QED BY <3>1, RequestedFacts
  <2>. QED BY <2>1, CountersConstants DEF ProcessTypes, ProcessInv
<1>4. /\ made'[q][t] = made[q][t] + 1 /\ count'[q][t] = count[q][t] + 1
      /\ \A p \in Procs : \A s \in Series : p # q \/ s # t =>
            made'[p][s] = made[p][s] /\ count'[p][s] = count[p][s]
      /\ made'[q] \in [Series -> Nat] /\ count'[q] \in [Series -> Nat]
      /\ \A p \in Procs : p # q => made'[p] = made[p] /\ count'[p] = count[p]
  BY <1>1, CountersConstants DEF ProcessTypes
<1>5. made[q][t] + 1 \in 0 .. MaxCalls /\ count[q][t] + 1 \in 0 .. MaxCalls
  BY <1>1, <1>3, RequestedFacts, CountersConstants
<1>6. ProcessTypes'
  BY <1>1, <1>2, <1>5 DEF ProcessTypes
<1>7. ProcessInv'
  <2>1. \A p \in Procs : \A s \in Series : count'[p][s] <= made'[p][s]
    <3>. SUFFICES ASSUME NEW p \in Procs, NEW s \in Series PROVE count'[p][s] <= made'[p][s]
      OBVIOUS
    <3>1. CASE p = q /\ s = t
      BY <1>3, <1>4, <3>1
    <3>2. CASE p # q \/ s # t
      BY <1>3, <1>4, <3>2
    <3>. QED BY <3>1, <3>2
  <2>2. Requested' = Requested + 1
    <3>. DEFINE each == [p \in Procs |-> Total(made[p], Series)]
                after == [p \in Procs |-> Total(made'[p], Series)]
    <3>1. Total(made'[q], Series) = Total(made[q], Series) + 1
      <4>1. /\ \A s \in Series : made[q][s] \in Int
            /\ \A s \in Series : s # t => made'[q][s] = made[q][s]
        BY <1>3, <1>4
      <4>. QED BY <1>4, <4>1, Finite, TotalCounts
    <3>2. /\ \A p \in Procs : each[p] \in Int
          /\ after[q] = each[q] + 1
          /\ \A p \in Procs : p # q => after[p] = each[p]
      BY <1>4, <3>1, RequestedFacts
    <3>3. Requested = Total(each, Procs) /\ Requested' = Total(after, Procs)
      BY <1>2 DEF Requested
    <3>. HIDE DEF each, after
    <3>. QED BY <3>2, <3>3, Finite, TotalCounts
  <2>3. Requested' <= MaxCalls
    BY <1>1, <2>2, RequestedFacts, CountersConstants
  <2>. QED BY <1>1, <1>2, <2>1, <2>3 DEF ProcessInv
<1>8. CPUNow' = CPUNow /\ CPUSince(CPUNow, CPUNow)
  <2>1. CPUNow' = CPUNow
    BY <1>1 DEF CPUNow
  <2>. QED BY <2>1, NowTypes, CPUItself
<1>9. ASSUME NEW p \in Procs, NEW s \in Own
      PROVE  /\ Since(Now(p, s), Now(p, s)')
             /\ Labelled /\ p \in up => Exact(Now(p, s), Now(p, s)', p \in up')
  <2>1. s \in Series
    BY Finite
  <2>2. CASE p = q /\ s = t
    <3>1. exits[p] \in Nat /\ exits' = exits
      BY <1>1, CountersConstants DEF ProcessTypes
    <3>. QED BY <1>1, <1>2, <1>3, <1>4, <2>1, <2>2, <3>1 DEF Now, Since, Exact
  <2>3. CASE p # q \/ s # t
    <3>1. Now(p, s)' = Now(p, s)
      BY <1>1, <1>2, <1>4, <2>1, <2>3 DEF Now
    <3>. QED BY <1>1, <2>1, <3>1, NowTypes, Itself
  <2>. QED BY <2>2, <2>3
<1>10. ASSUME PerProgram
       PROVE  /\ Since(BucketNow, BucketNow')
              /\ Radiant \in up => Exact(BucketNow, BucketNow', Radiant \in up')
  <2>1. q = Radiant /\ q \in Procs /\ "applied" \in Series /\ "neighbour" \in Series
    BY <1>10 DEF Procs, Series, Own
  <2>2. /\ count[q]["applied"] \in Nat /\ count[q]["neighbour"] \in Nat
        /\ made[q]["applied"] \in Nat /\ made[q]["neighbour"] \in Nat
    BY <1>3, <2>1
  <2>3. \/ /\ Bucket(count'[q]) = Bucket(count[q]) + 1
           /\ Bucket(made'[q]) = Bucket(made[q]) + 1
        \/ /\ Bucket(count'[q]) = Bucket(count[q])
           /\ Bucket(made'[q]) = Bucket(made[q])
    <3>1. CASE t = "applied"
      BY <1>4, <2>1, <2>2, <3>1 DEF Bucket
    <3>2. CASE t = "neighbour"
      BY <1>4, <2>1, <2>2, <3>2 DEF Bucket
    <3>3. CASE t # "applied" /\ t # "neighbour"
      BY <1>4, <2>1, <2>2, <3>3 DEF Bucket
    <3>. QED BY <3>1, <3>2, <3>3
  <2>4. Bucket(count[q]) \in Nat /\ Bucket(made[q]) \in Nat /\ exits[q] \in Nat
    BY <2>1, <2>2, CountersConstants DEF Bucket, ProcessTypes
  <2>. QED BY <1>1, <2>1, <2>3, <2>4 DEF BucketNow, Since, Exact
<1>11. Moves
  BY <1>8, <1>9, <1>10 DEF Moves
<1>. QED BY <1>1, <1>6, <1>7, <1>11

\* A process exits: what it had counted is gone.
LEMMA ExitMoves ==
    ASSUME ProcessTypes, ProcessInv, NEW q \in Procs, Exit(q)
    PROVE  ProcessTypes' /\ ProcessInv' /\ Moves /\ UNCHANGED measureVars
<1>1. /\ q \in up /\ Total(exits, Procs) < MaxRestarts
      /\ up' = up \ {q} /\ exits' = [exits EXCEPT ![q] = @ + 1]
      /\ UNCHANGED <<kind, cpu, count, spent, made, measureVars>>
  BY DEF Exit
<1>2. /\ PerProgram' = PerProgram /\ Labelled' = Labelled /\ Procs' = Procs
      /\ Own' = Own /\ Series' = Series
  BY <1>1, SameArm
<1>3. /\ \A p \in Procs : exits[p] \in Nat
      /\ exits'[q] = exits[q] + 1 /\ \A p \in Procs : p # q => exits'[p] = exits[p]
  BY <1>1, CountersConstants DEF ProcessTypes
<1>4. exits[q] + 1 \in 0 .. MaxRestarts
  <2>1. exits[q] <= Total(exits, Procs) /\ Total(exits, Procs) \in Int
    BY <1>3, Finite, TotalMember, TotalInt
  <2>. QED BY <1>1, <1>3, <2>1, CountersConstants
<1>5. ProcessTypes'
  BY <1>1, <1>2, <1>4 DEF ProcessTypes
<1>6. ProcessInv'
  <2>1. Requested' = Requested
    BY <1>1, <1>2 DEF Requested
  <2>. QED BY <1>1, <1>2, <2>1 DEF ProcessInv
<1>7. CPUSince(CPUNow, CPUNow')
  <2>1. Total(cpu, up \ {q}) \in Nat /\ Total(cpu, up \ {q}) <= Total(cpu, up)
    <3>1. \A p \in up : cpu[p] \in Nat
      BY CountersConstants DEF ProcessTypes
    <3>2. up \ {q} \in SUBSET up
      OBVIOUS
    <3>. QED BY <3>1, <3>2, NowTypes, TotalPart
  <2>2. exits # exits'
    BY <1>3
  <2>3. \A p \in Procs : spent[p] <= spent'[p] /\ exits[p] <= exits'[p]
    <3>1. \A p \in Procs : spent[p] \in Int
      BY DEF ProcessTypes
    <3>. QED BY <1>1, <1>3, <3>1
  <2>. QED BY <1>1, <2>1, <2>2, <2>3, NowTypes DEF CPUSince, CPUNow
<1>8. ASSUME NEW p \in Procs, NEW s \in Own
      PROVE  /\ Since(Now(p, s), Now(p, s)')
             /\ Labelled /\ p \in up => Exact(Now(p, s), Now(p, s)', p \in up')
  <2>1. s \in Series /\ count[p][s] \in Nat /\ made[p][s] \in Nat /\ exits[p] \in Nat
    BY Finite, CountersConstants DEF ProcessTypes
  <2>2. CASE p = q
    BY <1>1, <1>2, <1>3, <2>1, <2>2 DEF Now, Since, Exact
  <2>3. CASE p # q
    <3>1. Now(p, s)' = Now(p, s)
      BY <1>1, <1>2, <1>3, <2>3 DEF Now
    <3>. QED BY <1>1, <2>1, <2>3, <3>1, NowTypes, Itself
  <2>. QED BY <2>2, <2>3
<1>9. ASSUME PerProgram
      PROVE  /\ Since(BucketNow, BucketNow')
             /\ Radiant \in up => Exact(BucketNow, BucketNow', Radiant \in up')
  <2>1. q = Radiant
    BY <1>9 DEF Procs
  <2>2. BucketNow \in Reading
    BY <1>9, NowTypes
  <2>. QED BY <1>1, <1>3, <2>1, <2>2 DEF BucketNow, Since, Exact, Reading
<1>10. Moves
  BY <1>7, <1>8, <1>9 DEF Moves
<1>. QED BY <1>1, <1>5, <1>6, <1>10

\* A process starts, with its counters at zero.
LEMMA StartMoves ==
    ASSUME ProcessTypes, ProcessInv, NEW q \in Procs, Start(q)
    PROVE  ProcessTypes' /\ ProcessInv' /\ Moves /\ UNCHANGED measureVars
<1>1. /\ q \notin up /\ up' = up \cup {q}
      /\ cpu' = [cpu EXCEPT ![q] = 0]
      /\ count' = [count EXCEPT ![q] = [s \in Series |-> 0]]
      /\ UNCHANGED <<kind, spent, made, exits, measureVars>>
  BY DEF Start
<1>2. /\ PerProgram' = PerProgram /\ Labelled' = Labelled /\ Procs' = Procs
      /\ Own' = Own /\ Series' = Series
  BY <1>1, SameArm
<1>3. /\ \A p \in Procs : cpu[p] \in Nat /\ spent[p] \in Nat
      /\ cpu'[q] = 0 /\ \A p \in Procs : p # q => cpu'[p] = cpu[p] /\ count'[p] = count[p]
      /\ \A s \in Series : count'[q][s] = 0
      /\ 0 \in 0 .. MaxCPU /\ 0 \in 0 .. MaxCalls
  BY <1>1, CountersConstants DEF ProcessTypes
<1>4. ProcessTypes'
  BY <1>1, <1>2, <1>3 DEF ProcessTypes
<1>5. ProcessInv'
  <2>1. Requested' = Requested
    BY <1>1, <1>2 DEF Requested
  <2>2. ASSUME NEW p \in Procs
        PROVE  cpu'[p] <= spent'[p] /\ \A s \in Series : count'[p][s] <= made'[p][s]
    <3>1. \A s \in Series : made[p][s] \in Nat
      BY CountersConstants DEF ProcessTypes
    <3>2. CASE p = q
      BY <1>1, <1>3, <3>1, <3>2
    <3>3. CASE p # q
      BY <1>1, <1>3, <3>3 DEF ProcessInv
    <3>. QED BY <3>2, <3>3
  <2>. QED BY <1>1, <1>2, <2>1, <2>2 DEF ProcessInv
<1>6. CPUSince(CPUNow, CPUNow')
  <2>1. Total(cpu', up \cup {q}) = Total(cpu, up)
    <3>1. IsFiniteSet(up) /\ IsFiniteSet(up \cup {q}) /\ up \cup {q} \in SUBSET Procs
      BY NowTypes, FS_AddElement DEF ProcessTypes
    <3>2. \A p \in up \cup {q} : cpu'[p] \in Int
      BY <1>3, <3>1
    <3>3. Total(cpu', up \cup {q}) = cpu'[q] + Total(cpu', (up \cup {q}) \ {q})
      BY <3>1, <3>2, TotalRemove
    <3>4. (up \cup {q}) \ {q} = up
      BY <1>1
    <3>5. \A p \in up : cpu[p] \in Int /\ cpu'[p] = cpu[p]
      BY <1>1, <1>3 DEF ProcessTypes
    <3>6. Total(cpu, up) = Total(cpu', up)
      BY <3>1, <3>5, TotalSame
    <3>7. Total(cpu', up \cup {q}) = cpu'[q] + Total(cpu', up)
      BY <3>3, <3>4
    <3>. QED BY <1>3, <3>6, <3>7, NowTypes
  <2>2. Cardinality(up) # Cardinality(Procs)
    <3>1. up \in SUBSET Procs /\ q \in Procs \ up
      BY <1>1 DEF ProcessTypes
    <3>. QED BY <3>1, Finite, FS_Subset
  <2>3. \A p \in Procs : spent[p] <= spent'[p] /\ exits[p] <= exits'[p]
    <3>1. \A p \in Procs : spent[p] \in Int /\ exits[p] \in Int
      BY DEF ProcessTypes
    <3>. QED BY <1>1, <3>1
  <2>. QED BY <1>1, <2>1, <2>2, <2>3, NowTypes DEF CPUSince, CPUNow
<1>7. ASSUME NEW p \in Procs, NEW s \in Own
      PROVE  /\ Since(Now(p, s), Now(p, s)')
             /\ Labelled /\ p \in up => Exact(Now(p, s), Now(p, s)', p \in up')
  <2>1. s \in Series /\ Now(p, s) \in Reading
    BY Finite, NowTypes
  <2>2. Now(p, s)' = Now(p, s)
    <3>1. CASE p = q
      BY <1>1, <1>2, <1>3, <2>1, <3>1 DEF Now
    <3>2. CASE p # q
      BY <1>1, <1>2, <1>3, <2>1, <3>2 DEF Now
    <3>. QED BY <3>1, <3>2
  <2>. QED BY <1>1, <2>1, <2>2, Itself DEF Exact
<1>8. ASSUME PerProgram
      PROVE  /\ Since(BucketNow, BucketNow')
             /\ Radiant \in up => Exact(BucketNow, BucketNow', Radiant \in up')
  <2>1. q = Radiant /\ "applied" \in Series /\ "neighbour" \in Series
    BY <1>8 DEF Procs, Series, Own
  <2>2. BucketNow \in Reading
    BY <1>8, NowTypes
  <2>3. BucketNow' = BucketNow
    BY <1>1, <1>3, <2>1 DEF BucketNow, Bucket
  <2>. QED BY <1>1, <2>1, <2>2, <2>3, Itself
<1>9. Moves
  BY <1>6, <1>7, <1>8 DEF Moves
<1>. QED BY <1>1, <1>4, <1>5, <1>9

NowTyped ==
    /\ CPUNow \in CPUReading
    /\ \A p \in Procs : \A s \in Series : Now(p, s) \in Reading
    /\ PerProgram => BucketNow \in Reading

LEMMA NowTypedAlways == ProcessTypes => NowTyped
BY NowTypes DEF NowTyped

LEMMA NowTypedNext == (ProcessTypes => NowTyped)'
BY NowTypedAlways, PTL

\* What the readings are of, after a step.
LEMMA NowTypesNext ==
    ASSUME ProcessTypes', kind' = kind
    PROVE  /\ CPUNow' \in CPUReading
           /\ \A p \in Procs : \A s \in Series : Now(p, s)' \in Reading
           /\ PerProgram => BucketNow' \in Reading
<1>1. NowTyped'
  BY NowTypedNext
<1>. QED BY <1>1, SameArm DEF NowTyped, CPUReading

-----------------------------------------------------------------------------
(***************************************************************************)
(* The readings: what was taken before stays a reading from before.        *)
(***************************************************************************)

BucketRecord == [count: 0 .. MaxCalls, made: 0 .. MaxCalls, exits: 0 .. MaxRestarts]
ReportRecord ==
    [cpu: 0 .. MaxCPU * Cardinality(Procs), cpuValid: BOOLEAN, api: 0 .. MaxCalls,
     split: [Own -> 0 .. MaxCalls], measured: BOOLEAN,
     note: {"none", "population", "unscraped", "scrape", "reset"},
     host: 0 .. MaxCalls, hostFound: BOOLEAN]

MeasureTypes ==
    /\ step \in DOMAIN Steps
    /\ failed \in SUBSET Ends
    /\ bucket \in [Ends -> BucketRecord]
    /\ report \in ReportRecord

LEMMA CountersTypeParts == CountersTypeOK <=> ProcessTypes /\ MeasureTypes
BY DEF CountersTypeOK, ProcessTypes, MeasureTypes, BucketRecord, ReportRecord

LEMMA CountersTypePartsNext == (CountersTypeOK <=> ProcessTypes /\ MeasureTypes)'
BY CountersTypeParts, PTL

\* The readings taken are readings.
LEMMA TakenTypes ==
    ASSUME CountersInv
    PROVE  /\ ProcessTypes /\ MeasureTypes
           /\ \A e \in Ends : bucket[e] \in Reading /\ collected[e] \in CPUReading
           /\ \A e \in Ends : \A p \in DOMAIN scraped[e] : \A s \in Own :
                Scraped(scraped[e][p], s) \in Reading
<1>1. ProcessTypes /\ MeasureTypes
  BY CountersTypeParts DEF CountersInv
<1>2. BucketRecord \subseteq Reading
  BY CountersConstants DEF BucketRecord, Reading
<1>3. \A e \in Ends : bucket[e] \in Reading /\ collected[e] \in CPUReading
  BY <1>1, <1>2 DEF MeasureTypes, CountersInv, CPUInv
<1>4. \A e \in Ends : \A p \in DOMAIN scraped[e] : \A s \in Own :
        Scraped(scraped[e][p], s) \in Reading
  <2>. SUFFICES ASSUME NEW e \in Ends, NEW p \in DOMAIN scraped[e], NEW s \in Own
                PROVE  Scraped(scraped[e][p], s) \in Reading
    OBVIOUS
  <2>1. scraped[e][p] \in ScrapeReading /\ s \in Series
    BY Finite DEF CountersInv, ScrapeInv
  <2>. QED BY <2>1 DEF ScrapeReading, Scraped, Reading
<1>. QED BY <1>1, <1>3, <1>4

\* A step of a process changes no reading that was taken.
LEMMA MovesKeep ==
    ASSUME CountersInv, ProcessTypes', ProcessInv', Moves, Running, kind' = kind,
           UNCHANGED measureVars
    PROVE  CountersInv'
<1>1. /\ PerProgram' = PerProgram /\ Labelled' = Labelled /\ Procs' = Procs
      /\ Own' = Own /\ Series' = Series /\ Steps' = Steps /\ Place' = Place
  BY SameArm
<1>2. /\ step' = step /\ collected' = collected /\ scraped' = scraped /\ failed' = failed
      /\ bucket' = bucket /\ report' = report
  BY DEF measureVars
<1>3. /\ \A s, e : Taken(s, e)' = Taken(s, e)
      /\ End' = End /\ ~At("done")' /\ CPUReading' = CPUReading
      /\ ScrapeReading' = ScrapeReading
  BY <1>1, <1>2 DEF Taken, End, At, Running, CPUReading, ScrapeReading
<1>4. CountersTypeOK'
  <2>1. MeasureTypes'
    BY <1>1, <1>2, CountersTypeParts DEF CountersInv, MeasureTypes, BucketRecord, ReportRecord
  <2>. QED BY <2>1, CountersTypePartsNext
<1>5. CPUInv'
  <2>1. CPUSince(collected["before"], CPUNow')
    <3>1. CPUSince(collected["before"], CPUNow) /\ collected["before"] \in CPUReading
      BY TakenTypes DEF CountersInv, CPUInv, Ends
    <3>2. CPUSince(CPUNow, CPUNow')
      BY DEF Moves
    <3>3. CPUNow \in CPUReading /\ CPUNow' \in CPUReading
      BY TakenTypes, NowTypes, NowTypesNext
    <3>. QED BY <3>1, <3>2, <3>3, CPUSinceSince
  <2>2. CPUSince(collected["before"], CPUNow)'
    BY <1>1, <1>2, <2>1 DEF CPUSince
  <2>. QED BY <1>1, <1>2, <1>3, <2>2 DEF CountersInv, CPUInv, CPUSince
<1>6. BucketInv'
  <2>. SUFFICES ASSUME PerProgram
                PROVE  /\ Since(bucket["before"], BucketNow')
                       /\ bucket["before"].count > 0 =>
                            Exact(bucket["before"], BucketNow', Radiant \in up')
    BY <1>1, <1>2, <1>3 DEF CountersInv, BucketInv, Since, Exact
  <2>1. /\ Since(bucket["before"], BucketNow) /\ bucket["before"] \in Reading
        /\ bucket["before"].count > 0 => Exact(bucket["before"], BucketNow, Radiant \in up)
    BY TakenTypes DEF CountersInv, BucketInv, Ends
  <2>2. /\ Since(BucketNow, BucketNow')
        /\ Radiant \in up => Exact(BucketNow, BucketNow', Radiant \in up')
    BY DEF Moves
  <2>3. BucketNow \in Reading /\ BucketNow' \in Reading
    BY TakenTypes, NowTypes, NowTypesNext
  <2>. QED BY <2>1, <2>2, <2>3, SinceSince, ExactExact
<1>7. ScrapeInv'
  <2>1. ASSUME NEW e \in Ends, NEW p \in DOMAIN scraped[e], NEW s \in Own
        PROVE  /\ Since(Scraped(scraped[e][p], s), Now(p, s)')
               /\ Labelled => Exact(Scraped(scraped[e][p], s), Now(p, s)', p \in up')
    <3>. DEFINE r == Scraped(scraped[e][p], s)
    <3>1. /\ Since(r, Now(p, s)) /\ r \in Reading /\ p \in Procs /\ s \in Series
          /\ Labelled => Exact(r, Now(p, s), p \in up)
      BY TakenTypes, Finite DEF CountersInv, ScrapeInv
    <3>2. /\ Since(Now(p, s), Now(p, s)')
          /\ Labelled /\ p \in up => Exact(Now(p, s), Now(p, s)', p \in up')
      BY <3>1 DEF Moves
    <3>3. Now(p, s) \in Reading /\ Now(p, s)' \in Reading
      BY <3>1, TakenTypes, NowTypes, NowTypesNext
    <3>. HIDE DEF r
    <3>4. Since(r, Now(p, s)')
      BY <3>1, <3>2, <3>3, SinceSince
    <3>5. Labelled => Exact(r, Now(p, s)', p \in up')
      BY <3>1, <3>2, <3>3, ExactExact
    <3>. QED BY <3>4, <3>5 DEF r
  <2>2. \A e \in Ends : \A p \in DOMAIN scraped[e] : \A s \in Own :
               /\ Since(Scraped(scraped[e][p], s), Now(p, s))'
               /\ Labelled => Exact(Scraped(scraped[e][p], s), Now(p, s), p \in up)'
    BY <1>1, <1>2, <2>1 DEF Since, Exact, Scraped
  <2>. QED BY <1>1, <1>2, <1>3, <2>2 DEF CountersInv, ScrapeInv, Scraped, Since, Exact
<1>8. NeverOverstated' /\ ExactWhenNobodyExits'
  BY <1>3 DEF NeverOverstated, ExactWhenNobodyExits
<1>. QED BY <1>4, <1>5, <1>6, <1>7, <1>8 DEF CountersInv

ReadingStep == UNCHANGED processVars /\ Running /\ (step' = step \/ step' = step + 1)

\* A reading leaves the processes alone, and a step further what has been taken
\* was taken before or is what this step takes.
LEMMA Progress ==
    ASSUME CountersInv, ReadingStep
    PROVE  /\ UNCHANGED <<up, kind, cpu, count, spent, made, exits>>
           /\ PerProgram' = PerProgram /\ Labelled' = Labelled /\ Procs' = Procs
           /\ Own' = Own /\ Series' = Series /\ Steps' = Steps /\ NoReport' = NoReport
           /\ CPUReading' = CPUReading /\ ScrapeReading' = ScrapeReading
           /\ ReportRecord' = ReportRecord
           /\ CPUNow' = CPUNow /\ BucketNow' = BucketNow
           /\ \A p \in Procs : \A s \in Own : Now(p, s)' = Now(p, s)
           /\ ProcessTypes' /\ ProcessInv'
           /\ step' \in DOMAIN Steps
           /\ End' = "before" => End = "before"
           /\ \A e \in Ends : /\ Taken("collect", e)' => Taken("collect", e) \/ (At("collect") /\ End = e)
                              /\ Taken("scrape", e)' => Taken("scrape", e) \/ (At("scrape") /\ End = e)
                              /\ PerProgram =>
                                   (Taken("bucket", e)' => Taken("bucket", e) \/ (At("bucket") /\ End = e))
           /\ End = "before" =>
                /\ ~Taken("collect", "after") /\ ~Taken("scrape", "after")
                /\ PerProgram => ~Taken("bucket", "after")
           /\ At("scrape") => ~Taken("scrape", End) /\ End \in Ends
           /\ At("collect") => End \in Ends
           /\ At("bucket") => End \in Ends /\ PerProgram
           /\ step' = step => \A e \in Ends : Taken("scrape", e)' <=> Taken("scrape", e)
           /\ NeverOverstated' /\ ExactWhenNobodyExits'
<1>1. UNCHANGED <<up, kind, cpu, count, spent, made, exits>>
  BY DEF processVars, ReadingStep
<1>2. /\ PerProgram' = PerProgram /\ Labelled' = Labelled /\ Procs' = Procs
      /\ Own' = Own /\ Series' = Series /\ Steps' = Steps /\ Place' = Place
      /\ NoReport' = NoReport
  BY <1>1, SameArm
<1>3. ProcessTypes /\ ProcessInv /\ step \in DOMAIN Steps
  BY TakenTypes DEF CountersInv, MeasureTypes
<1>4. ProcessTypes' /\ ProcessInv'
  BY <1>1, <1>2, <1>3 DEF ProcessTypes, ProcessInv, Requested
<1>5. Scheduled
  BY <1>3, Schedule
<1>6. step' \in DOMAIN Steps'
  <2>1. CASE PerProgram
    BY <1>2, <1>5, <2>1 DEF Scheduled, Running, ReadingStep
  <2>2. CASE ~PerProgram
    BY <1>2, <1>5, <2>2 DEF Scheduled, Running, ReadingStep
  <2>. QED BY <2>1, <2>2
<1>7. Scheduled'
  BY <1>6, ScheduleNext
<1>8. ~At("done")' /\ (End' = "before" => End = "before")
  <2>1. CASE PerProgram
    BY <1>2, <1>5, <1>7, <2>1 DEF Scheduled, Running, ReadingStep
  <2>2. CASE ~PerProgram
    BY <1>2, <1>5, <1>7, <2>2 DEF Scheduled, Running, ReadingStep
  <2>. QED BY <2>1, <2>2
<1>9. \A e \in Ends : /\ Taken("collect", e)' => Taken("collect", e) \/ (At("collect") /\ End = e)
                      /\ Taken("scrape", e)' => Taken("scrape", e) \/ (At("scrape") /\ End = e)
                      /\ PerProgram =>
                           (Taken("bucket", e)' => Taken("bucket", e) \/ (At("bucket") /\ End = e))
  <2>1. ASSUME PerProgram, NEW e \in Ends, NEW s \in {"bucket", "collect", "scrape"}
        PROVE  Taken(s, e)' => Taken(s, e) \/ (At(s) /\ End = e)
    <3>1. Place[e][s] \in Nat /\ (step = Place[e][s] <=> At(s) /\ End = e)
      BY <1>5, <2>1 DEF Scheduled, Place, Ends
    <3>2. (Taken(s, e)' <=> step' > Place[e][s]) /\ (Taken(s, e) <=> step > Place[e][s])
      BY <1>2 DEF Taken
    <3>3. \A n \in Nat : step' > n => step > n \/ step = n
      BY <1>5 DEF Scheduled, ReadingStep
    <3>. QED BY <3>1, <3>2, <3>3
  <2>2. ASSUME ~PerProgram, NEW e \in Ends, NEW s \in {"collect", "scrape"}
        PROVE  Taken(s, e)' => Taken(s, e) \/ (At(s) /\ End = e)
    <3>1. Place[e][s] \in Nat /\ (step = Place[e][s] <=> At(s) /\ End = e)
      BY <1>5, <2>2 DEF Scheduled, Place, Ends
    <3>2. (Taken(s, e)' <=> step' > Place[e][s]) /\ (Taken(s, e) <=> step > Place[e][s])
      BY <1>2 DEF Taken
    <3>3. \A n \in Nat : step' > n => step > n \/ step = n
      BY <1>5 DEF Scheduled, ReadingStep
    <3>. QED BY <3>1, <3>2, <3>3
  <2>. QED BY <2>1, <2>2
<1>10. End = "before" =>
         /\ ~Taken("collect", "after") /\ ~Taken("scrape", "after")
         /\ PerProgram => ~Taken("bucket", "after")
  BY <1>5, Takings DEF Scheduled
<1>11. /\ At("scrape") => ~Taken("scrape", End) /\ End \in Ends
       /\ At("collect") => End \in Ends
       /\ At("bucket") => End \in Ends /\ PerProgram
  BY <1>5, Takings DEF Scheduled, Ends
<1>12. step' = step => \A e \in Ends : Taken("scrape", e)' <=> Taken("scrape", e)
  BY <1>2 DEF Taken
<1>. QED BY <1>1, <1>2, <1>3, <1>4, <1>6, <1>8, <1>9, <1>10, <1>11, <1>12
         DEF CPUNow, BucketNow, Now, CPUReading, ScrapeReading, ReportRecord,
             NeverOverstated, ExactWhenNobodyExits

\* What a step does not touch stays as it is.
LEMMA CPUKept ==
    ASSUME CountersInv, ReadingStep, UNCHANGED collected, ~At("collect")
    PROVE  CPUInv'
<1>1. Taken("collect", "after")' => Taken("collect", "after")
  BY Progress DEF Ends
<1>2. CPUNow' = CPUNow /\ Procs' = Procs /\ CPUReading' = CPUReading
  BY Progress
<1>. QED BY <1>1, <1>2 DEF CountersInv, CPUInv, CPUSince

LEMMA BucketKept ==
    ASSUME CountersInv, ReadingStep, UNCHANGED bucket, ~At("bucket")
    PROVE  BucketInv'
<1>1. PerProgram => (Taken("bucket", "after")' => Taken("bucket", "after"))
  BY Progress DEF Ends
<1>2. BucketNow' = BucketNow /\ PerProgram' = PerProgram /\ up' = up
  BY Progress
<1>. QED BY <1>1, <1>2 DEF CountersInv, BucketInv, Since, Exact

LEMMA ScrapeKept ==
    ASSUME CountersInv, ReadingStep, UNCHANGED <<scraped, failed>>, ~At("scrape")
    PROVE  ScrapeInv'
<1>1. \A e \in Ends : Taken("scrape", e)' => Taken("scrape", e)
  BY Progress
<1>2. /\ \A p \in Procs : \A s \in Own : Now(p, s)' = Now(p, s)
      /\ Procs' = Procs /\ Own' = Own /\ Labelled' = Labelled /\ up' = up
      /\ ScrapeReading' = ScrapeReading /\ (End' = "before" => End = "before")
  BY Progress
<1>3. \A e \in Ends : \A p \in DOMAIN scraped[e] :
         /\ p \in Procs /\ scraped[e][p] \in ScrapeReading
         /\ \A s \in Own :
              /\ Since(Scraped(scraped[e][p], s), Now(p, s)')
              /\ Labelled => Exact(Scraped(scraped[e][p], s), Now(p, s)', p \in up)
  BY <1>2 DEF CountersInv, ScrapeInv
<1>4. \A e \in Ends : \A p \in DOMAIN scraped[e] :
         /\ p \in Procs /\ scraped[e][p] \in ScrapeReading
         /\ \A s \in Own :
              /\ Since(Scraped(scraped[e][p], s), Now(p, s))'
              /\ Labelled => Exact(Scraped(scraped[e][p], s), Now(p, s), p \in up)'
  BY <1>2, <1>3 DEF Since, Exact, Scraped
<1>. QED BY <1>1, <1>2, <1>4 DEF CountersInv, ScrapeInv, Since, Exact, Scraped

LEMMA TypesKept ==
    ASSUME CountersInv, ReadingStep, UNCHANGED report,
           failed' \in SUBSET Ends, bucket' \in [Ends -> BucketRecord]
    PROVE  CountersTypeOK'
<1>1. BucketRecord' = BucketRecord
  BY DEF BucketRecord
<1>2. MeasureTypes'
  BY <1>1, Progress, TakenTypes DEF MeasureTypes
<1>. QED BY <1>2, Progress, CountersTypePartsNext

\* A walk of /proc.
LEMMA CollectKeeps ==
    ASSUME CountersInv, Collect
    PROVE  CountersInv'
<1>1. ReadingStep /\ At("collect") /\ ~At("bucket") /\ ~At("scrape")
  BY DEF Collect, ReadingStep, Running, At
<1>2. /\ UNCHANGED <<scraped, failed, bucket, report>>
      /\ collected' = [collected EXCEPT ![End] = CPUNow]
  BY DEF Collect, CPUNow
<1>3. CPUInv'
  <2>1. CPUNow \in CPUReading /\ CPUSince(CPUNow, CPUNow)
    BY TakenTypes, NowTypes, CPUItself
  <2>2. collected' \in [Ends -> CPUReading]
    BY <1>2, <2>1 DEF CountersInv, CPUInv
  <2>3. /\ CPUSince(collected'["before"], CPUNow)
        /\ Taken("collect", "after")' => CPUSince(collected'["before"], collected'["after"])
    <3>0. /\ "before" \in Ends /\ "after" \in Ends /\ End \in Ends
          /\ CPUSince(collected["before"], CPUNow)
      BY <1>1, Progress DEF CountersInv, CPUInv, Ends
    <3>1. CASE End = "before"
      <4>1. ~Taken("collect", "after")'
        BY <1>1, <3>0, <3>1, Progress
      <4>. QED BY <1>2, <2>1, <3>0, <3>1, <4>1 DEF CountersInv, CPUInv
    <3>2. CASE End = "after"
      BY <1>2, <2>1, <3>0, <3>2 DEF CountersInv, CPUInv
    <3>. QED BY <3>0, <3>1, <3>2 DEF Ends
  <2>. QED BY <1>1, <2>2, <2>3, Progress DEF CPUInv, CPUSince
<1>4. BucketInv' /\ ScrapeInv'
  BY <1>1, <1>2, BucketKept, ScrapeKept
<1>5. CountersTypeOK'
  BY <1>1, <1>2, TakenTypes, TypesKept DEF MeasureTypes
<1>. QED BY <1>1, <1>3, <1>4, <1>5, Progress DEF CountersInv

\* A reading of the unlabelled counter.
LEMMA ReadBucketKeeps ==
    ASSUME CountersInv, ReadBucket
    PROVE  CountersInv'
<1>1. ReadingStep /\ At("bucket") /\ ~At("collect") /\ ~At("scrape")
  BY DEF ReadBucket, ReadingStep, Running, At
<1>2. /\ UNCHANGED <<collected, scraped, failed, report>>
      /\ bucket' = [bucket EXCEPT ![End] = BucketNow]
  BY DEF ReadBucket, BucketNow
<1>3. PerProgram /\ PerProgram' /\ End \in Ends /\ "before" \in Ends /\ "after" \in Ends
  BY <1>1, Progress DEF Ends
<1>4. BucketNow \in BucketRecord /\ BucketNow \in Reading
  <2>1. Radiant \in Procs /\ "applied" \in Series /\ "neighbour" \in Series
    BY <1>3 DEF Procs, Series, Own
  <2>2. /\ ProcessTypes /\ ProcessInv
    BY TakenTypes DEF CountersInv
  <2>3. Bucket(made[Radiant]) \in 0 .. MaxCalls
    <3>1. Total(made[Radiant], Series) <= MaxCalls
      BY <2>1, <2>2, RequestedFacts, CountersConstants DEF ProcessInv
    <3>2. Total(made[Radiant], {"applied", "neighbour"})
            <= Total(made[Radiant], Series)
      <4>1. /\ \A s \in Series : made[Radiant][s] \in Nat
            /\ {"applied", "neighbour"} \in SUBSET Series
        BY <2>1, <2>2, CountersConstants DEF ProcessTypes
      <4>. QED BY <4>1, Finite, TotalPart
    <3>3. Total(made[Radiant], {"applied", "neighbour"})
            = made[Radiant]["applied"] + made[Radiant]["neighbour"]
      <4>. DEFINE S == {"applied", "neighbour"}
      <4>1. /\ made[Radiant]["applied"] \in Nat /\ made[Radiant]["neighbour"] \in Nat
            /\ Integral(made[Radiant], S) /\ S \in SUBSET Series
        BY <2>1, <2>2, CountersConstants DEF ProcessTypes, Integral
      <4>2. IsFiniteSet(S) /\ S \in SUBSET S /\ "applied" \in S
            /\ S \ {"applied"} \in SUBSET S /\ "neighbour" \in S \ {"applied"}
            /\ (S \ {"applied"}) \ {"neighbour"} = {}
        BY <4>1, Finite, FS_Subset
      <4>. HIDE DEF S
      <4>3. Total(made[Radiant], S) = made[Radiant]["applied"] + Total(made[Radiant], S \ {"applied"})
        BY <4>1, <4>2, TotalStep
      <4>4. Total(made[Radiant], S \ {"applied"})
              = made[Radiant]["neighbour"] + Total(made[Radiant], (S \ {"applied"}) \ {"neighbour"})
        BY <4>1, <4>2, TotalStep
      <4>5. Total(made[Radiant], (S \ {"applied"}) \ {"neighbour"}) = 0
        BY <4>2, TotalEmpty
      <4>. QED BY <4>1, <4>3, <4>4, <4>5 DEF S
    <3>4. made[Radiant]["applied"] \in Nat /\ made[Radiant]["neighbour"] \in Nat
      BY <2>1, <2>2, CountersConstants DEF ProcessTypes
    <3>5. Total(made[Radiant], Series) \in Nat
      BY <2>1, <2>2, RequestedFacts
    <3>. QED BY <3>1, <3>2, <3>3, <3>4, <3>5, CountersConstants DEF Bucket
  <2>4. Bucket(count[Radiant]) \in 0 .. MaxCalls
    <3>1. /\ count[Radiant]["applied"] \in Nat /\ count[Radiant]["neighbour"] \in Nat
          /\ made[Radiant]["applied"] \in Nat /\ made[Radiant]["neighbour"] \in Nat
          /\ count[Radiant]["applied"] <= made[Radiant]["applied"]
          /\ count[Radiant]["neighbour"] <= made[Radiant]["neighbour"]
      BY <2>1, <2>2, CountersConstants DEF ProcessTypes, ProcessInv
    <3>. QED BY <2>3, <3>1, CountersConstants DEF Bucket
  <2>5. exits[Radiant] \in 0 .. MaxRestarts /\ 0 \in 0 .. MaxCalls
    BY <2>1, <2>2, CountersConstants DEF ProcessTypes
  <2>6. BucketNow \in BucketRecord
    BY <2>3, <2>4, <2>5 DEF BucketNow, BucketRecord
  <2>. QED BY <1>3, <2>2, <2>6, NowTypes
<1>5. bucket' \in [Ends -> BucketRecord]
  BY <1>2, <1>4, TakenTypes DEF MeasureTypes
<1>6. BucketInv'
  <2>2. /\ Since(bucket'["before"], BucketNow)
        /\ bucket'["before"].count > 0 => Exact(bucket'["before"], BucketNow, Radiant \in up)
        /\ Taken("bucket", "after")' =>
             /\ Since(bucket'["before"], bucket'["after"])
             /\ bucket'["before"].count > 0 => Exact(bucket'["before"], bucket'["after"], TRUE)
    <3>1. CASE End = "before"
      <4>1. ~Taken("bucket", "after")'
        BY <1>1, <1>3, <3>1, Progress
      <4>2. bucket'["before"] = BucketNow
        BY <1>2, <1>3, <3>1, <1>5, TakenTypes DEF MeasureTypes
      <4>3. Since(BucketNow, BucketNow)
        BY <1>4 DEF Since, Reading
      <4>4. BucketNow.count > 0 => Exact(BucketNow, BucketNow, Radiant \in up)
        BY <1>4 DEF Exact, Reading, BucketNow
      <4>. QED BY <4>1, <4>2, <4>3, <4>4
    <3>2. CASE End = "after"
      <4>1. bucket'["after"] = BucketNow /\ bucket'["before"] = bucket["before"]
        BY <1>2, <1>3, <3>2, TakenTypes DEF MeasureTypes
      <4>2. /\ Since(bucket["before"], BucketNow)
            /\ bucket["before"].count > 0 => Exact(bucket["before"], BucketNow, Radiant \in up)
        BY <1>3 DEF CountersInv, BucketInv
      <4>. QED BY <4>1, <4>2 DEF Exact
    <3>. QED BY <1>3, <3>1, <3>2 DEF Ends
  <2>3. BucketNow' = BucketNow /\ up' = up
    BY <1>1, Progress
  <2>. QED BY <1>3, <2>2, <2>3 DEF BucketInv, Since, Exact
<1>7. CPUInv' /\ ScrapeInv'
  BY <1>1, <1>2, CPUKept, ScrapeKept
<1>8. CountersTypeOK'
  BY <1>1, <1>2, <1>5, TakenTypes, TypesKept DEF MeasureTypes
<1>. QED BY <1>1, <1>6, <1>7, <1>8, Progress DEF CountersInv

\* One endpoint answers.
LEMMA ScrapeKeeps ==
    ASSUME CountersInv, NEW p \in Procs, Scrape(p)
    PROVE  CountersInv'
<1>1. ReadingStep /\ At("scrape") /\ ~At("collect") /\ ~At("bucket")
  BY DEF Scrape, ReadingStep, Running, At
<1>2. /\ UNCHANGED <<collected, failed, bucket, report>>
      /\ p \in up /\ p \notin DOMAIN scraped[End]
      /\ scraped' = [scraped EXCEPT ![End] =
                       [q \in DOMAIN scraped[End] \cup {p} |->
                          IF q = p THEN Read(p) ELSE scraped[End][q]]]
      /\ DOMAIN scraped'[End] = Procs \/ step' = step
  BY DEF Scrape
<1>3. /\ End \in Ends /\ DOMAIN scraped = Ends
      /\ ProcessTypes
  BY <1>1, Progress, TakenTypes DEF CountersInv, ScrapeInv
<1>4. /\ DOMAIN scraped' = Ends
      /\ DOMAIN scraped'[End] = DOMAIN scraped[End] \cup {p}
      /\ scraped'[End][p] = Read(p)
      /\ \A q \in DOMAIN scraped[End] : scraped'[End][q] = scraped[End][q]
      /\ \A e \in Ends : e # End => scraped'[e] = scraped[e]
  BY <1>2, <1>3
<1>5. /\ Read(p) \in ScrapeReading
      /\ \A s \in Own : Scraped(Read(p), s) = Now(p, s)
  <2>1. /\ \A s \in Own : s \in Series /\ count[p][s] \in Nat
        /\ made[p] \in [Series -> Nat] /\ exits[p] \in Nat
    BY <1>3, Finite, CountersConstants DEF ProcessTypes
  <2>2. [s \in Own |-> IF Labelled THEN count[p][s] ELSE 0] \in [Own -> Nat]
    BY <2>1
  <2>. QED BY <1>2, <2>1, <2>2 DEF Read, ScrapeReading, Scraped, Now
<1>6. \A s \in Own : Now(p, s) \in Reading /\ Since(Now(p, s), Now(p, s))
                     /\ (Labelled => Exact(Now(p, s), Now(p, s), p \in up))
  <2>. SUFFICES ASSUME NEW s \in Own
                PROVE  Now(p, s) \in Reading /\ Since(Now(p, s), Now(p, s))
                       /\ (Labelled => Exact(Now(p, s), Now(p, s), p \in up))
    OBVIOUS
  <2>1. Now(p, s) \in Reading
    BY <1>3, NowTypes, Finite
  <2>. QED BY <1>2, <2>1, Itself
<1>7. \A e \in Ends : \A q \in DOMAIN scraped'[e] :
         /\ q \in Procs /\ scraped'[e][q] \in ScrapeReading
         /\ \A s \in Own :
              /\ Since(Scraped(scraped'[e][q], s), Now(q, s))
              /\ Labelled => Exact(Scraped(scraped'[e][q], s), Now(q, s), q \in up)
  <2>. SUFFICES ASSUME NEW e \in Ends, NEW q \in DOMAIN scraped'[e]
                PROVE  /\ q \in Procs /\ scraped'[e][q] \in ScrapeReading
                       /\ \A s \in Own :
                            /\ Since(Scraped(scraped'[e][q], s), Now(q, s))
                            /\ Labelled => Exact(Scraped(scraped'[e][q], s), Now(q, s), q \in up)
    OBVIOUS
  <2>1. CASE e = End /\ q = p
    BY <1>4, <1>5, <1>6, <2>1
  <2>2. CASE e # End \/ q # p
    <3>1. q \in DOMAIN scraped[e] /\ scraped'[e][q] = scraped[e][q]
      BY <1>4, <2>2
    <3>. QED BY <3>1 DEF CountersInv, ScrapeInv
  <2>. QED BY <2>1, <2>2
<1>8. \A q \in DOMAIN scraped'["before"] \cap DOMAIN scraped'["after"] : \A s \in Own :
         /\ Since(Scraped(scraped'["before"][q], s), Scraped(scraped'["after"][q], s))
         /\ Labelled =>
              Exact(Scraped(scraped'["before"][q], s), Scraped(scraped'["after"][q], s), TRUE)
  <2>. SUFFICES ASSUME NEW q \in DOMAIN scraped'["before"] \cap DOMAIN scraped'["after"],
                       NEW s \in Own
                PROVE  /\ Since(Scraped(scraped'["before"][q], s), Scraped(scraped'["after"][q], s))
                       /\ Labelled =>
                            Exact(Scraped(scraped'["before"][q], s),
                                  Scraped(scraped'["after"][q], s), TRUE)
    OBVIOUS
  <2>1. End = "after" /\ "before" \in Ends
    <3>1. CASE End = "before"
      <4>1. DOMAIN scraped'["after"] = {}
        BY <1>3, <1>4, <3>1 DEF CountersInv, ScrapeInv, Ends
      <4>. QED BY <4>1
    <3>. QED BY <1>3, <3>1 DEF Ends
  <2>2. q \in DOMAIN scraped["before"] /\ scraped'["before"][q] = scraped["before"][q]
    BY <1>4, <2>1
  <2>3. CASE q = p
    <3>1. scraped'["after"][q] = Read(p) /\ Scraped(Read(p), s) = Now(p, s)
      BY <1>4, <1>5, <2>1, <2>3
    <3>2. /\ Since(Scraped(scraped["before"][p], s), Now(p, s))
          /\ Labelled => Exact(Scraped(scraped["before"][p], s), Now(p, s), p \in up)
      BY <2>1, <2>2, <2>3 DEF CountersInv, ScrapeInv
    <3>. QED BY <1>2, <2>2, <2>3, <3>1, <3>2 DEF Exact
  <2>4. CASE q # p
    <3>1. q \in DOMAIN scraped["after"] /\ scraped'["after"][q] = scraped["after"][q]
      BY <1>4, <2>1, <2>4
    <3>. QED BY <2>2, <3>1 DEF CountersInv, ScrapeInv
  <2>. QED BY <2>3, <2>4
<1>9. /\ \A q \in Procs : \A s \in Own : Now(q, s)' = Now(q, s)
      /\ Procs' = Procs /\ Own' = Own /\ Labelled' = Labelled /\ up' = up
      /\ ScrapeReading' = ScrapeReading
  BY <1>1, Progress
<1>10. (End = "before")' => DOMAIN scraped'["after"] = {}
  <2>1. (End = "before")' => End = "before"
    BY <1>1, Progress
  <2>. QED BY <1>3, <1>4, <2>1 DEF CountersInv, ScrapeInv, Ends
<1>11. \A e \in Ends : Taken("scrape", e)' => e \in failed' \/ DOMAIN scraped'[e] = Procs
  <2>. SUFFICES ASSUME NEW e \in Ends, Taken("scrape", e)'
                PROVE  e \in failed' \/ DOMAIN scraped'[e] = Procs
    OBVIOUS
  <2>1. CASE e = End
    <3>1. step' # step
      BY <1>1, <2>1, Progress
    <3>. QED BY <1>2, <2>1, <3>1
  <2>2. CASE e # End
    <3>1. Taken("scrape", e)
      BY <1>1, <2>2, Progress
    <3>. QED BY <1>2, <1>4, <2>2, <3>1 DEF CountersInv, ScrapeInv
  <2>. QED BY <2>1, <2>2
<1>12. ScrapeInv'
  <2>1. \A e \in Ends : \A q \in DOMAIN scraped'[e] : \A s \in Own :
               /\ Since(Scraped(scraped[e][q], s), Now(q, s))'
               /\ Labelled => Exact(Scraped(scraped[e][q], s), Now(q, s), q \in up)'
    <3>1. \A e \in Ends : \A q \in DOMAIN scraped'[e] : \A s \in Own :
               /\ Since(Scraped(scraped'[e][q], s), Now(q, s)')
               /\ Labelled => Exact(Scraped(scraped'[e][q], s), Now(q, s)', q \in up)
      BY <1>7, <1>9
    <3>. QED BY <1>9, <3>1 DEF Since, Exact, Scraped
  <2>. QED BY <1>4, <1>7, <1>8, <1>9, <1>10, <1>11, <2>1 DEF ScrapeInv, Since, Exact, Scraped
<1>13. CPUInv' /\ BucketInv'
  BY <1>1, <1>2, CPUKept, BucketKept
<1>14. CountersTypeOK'
  BY <1>1, <1>2, TakenTypes, TypesKept DEF MeasureTypes
<1>. QED BY <1>1, <1>12, <1>13, <1>14, Progress DEF CountersInv

\* One that does not voids them all.
LEMMA ScrapeFailsKeeps ==
    ASSUME CountersInv, NEW p \in Procs, ScrapeFails(p)
    PROVE  CountersInv'
<1>1. ReadingStep /\ At("scrape") /\ ~At("collect") /\ ~At("bucket")
  BY DEF ScrapeFails, ReadingStep, Running, At
<1>2. /\ UNCHANGED <<collected, bucket, report>>
      /\ scraped' = [scraped EXCEPT ![End] = << >>]
      /\ failed' = failed \cup {End}
  BY DEF ScrapeFails
<1>3. /\ End \in Ends /\ DOMAIN scraped = Ends
  BY <1>1, Progress DEF CountersInv, ScrapeInv
<1>4. /\ DOMAIN scraped' = Ends
      /\ DOMAIN scraped'[End] = {}
      /\ \A e \in Ends : e # End => scraped'[e] = scraped[e]
  <2>1. scraped'[End] = << >> /\ DOMAIN << >> = {}
    BY <1>2, <1>3
  <2>. QED BY <1>2, <1>3, <2>1
<1>5. \A e \in Ends : \A q \in DOMAIN scraped'[e] :
         q \in DOMAIN scraped[e] /\ scraped'[e][q] = scraped[e][q]
  BY <1>4
<1>6. /\ \A q \in Procs : \A s \in Own : Now(q, s)' = Now(q, s)
      /\ Procs' = Procs /\ Own' = Own /\ Labelled' = Labelled /\ up' = up
      /\ ScrapeReading' = ScrapeReading
  BY <1>1, Progress
<1>7. \A e \in Ends : \A q \in DOMAIN scraped'[e] :
         /\ q \in Procs /\ scraped'[e][q] \in ScrapeReading
         /\ \A s \in Own :
              /\ Since(Scraped(scraped'[e][q], s), Now(q, s)')
              /\ Labelled => Exact(Scraped(scraped'[e][q], s), Now(q, s)', q \in up)
  BY <1>5, <1>6 DEF CountersInv, ScrapeInv
<1>8. \A q \in DOMAIN scraped'["before"] \cap DOMAIN scraped'["after"] : FALSE
  BY <1>3, <1>4 DEF Ends
<1>9. (End = "before")' => DOMAIN scraped'["after"] = {}
  <2>1. (End = "before")' => End = "before"
    BY <1>1, Progress
  <2>. QED BY <1>3, <1>4, <2>1 DEF CountersInv, ScrapeInv, Ends
<1>10. \A e \in Ends : Taken("scrape", e)' => e \in failed' \/ DOMAIN scraped'[e] = Procs
  <2>. SUFFICES ASSUME NEW e \in Ends, Taken("scrape", e)', e # End
                PROVE  e \in failed' \/ DOMAIN scraped'[e] = Procs
    BY <1>2
  <2>1. Taken("scrape", e)
    BY <1>1, Progress
  <2>. QED BY <1>2, <1>4, <2>1 DEF CountersInv, ScrapeInv
<1>11. ScrapeInv'
  <2>1. \A e \in Ends : \A q \in DOMAIN scraped'[e] : \A s \in Own :
               /\ Since(Scraped(scraped[e][q], s), Now(q, s))'
               /\ Labelled => Exact(Scraped(scraped[e][q], s), Now(q, s), q \in up)'
    BY <1>6, <1>7 DEF Since, Exact, Scraped
  <2>. QED BY <1>4, <1>6, <1>7, <1>8, <1>9, <1>10, <2>1 DEF ScrapeInv
<1>12. CPUInv' /\ BucketInv'
  BY <1>1, <1>2, CPUKept, BucketKept
<1>13. CountersTypeOK'
  BY <1>1, <1>2, <1>3, TakenTypes, TypesKept DEF MeasureTypes
<1>. QED BY <1>1, <1>11, <1>12, <1>13, Progress DEF CountersInv

\* The window itself.
LEMMA WindowKeeps ==
    ASSUME CountersInv, Window
    PROVE  CountersInv'
<1>1. ReadingStep /\ ~At("scrape") /\ ~At("collect") /\ ~At("bucket")
  BY DEF Window, ReadingStep, Running, At
<1>2. UNCHANGED <<collected, scraped, failed, bucket, report>>
  BY DEF Window
<1>3. CPUInv' /\ BucketInv' /\ ScrapeInv'
  BY <1>1, <1>2, CPUKept, BucketKept, ScrapeKept
<1>4. CountersTypeOK'
  BY <1>1, <1>2, TakenTypes, TypesKept DEF MeasureTypes
<1>. QED BY <1>1, <1>3, <1>4, Progress DEF CountersInv

-----------------------------------------------------------------------------
(***************************************************************************)
(* The report: what it says of readings that relate to each other.         *)
(***************************************************************************)

\* What each process is reported to have requested, and whether that is void.
Gained(p, s) ==
    IF PerProgram THEN scraped["after"][p].count[s] - scraped["before"][p].count[s]
    ELSE DeltaOf(scraped["before"][p], scraped["after"][p], s)
Voids ==
    IF PerProgram THEN \E p \in Procs : ProgramsFail(scraped["before"][p], scraped["after"][p])
    ELSE \E p \in Procs : DeltaFails(scraped["before"][p], scraped["after"][p])
Split == [s \in Own |-> Total([p \in Procs |-> Gained(p, s)], Procs)]
Api ==
    IF PerProgram THEN Split["applied"]
    ELSE Total([p \in Procs |->
                 Requests(scraped["after"][p]) - Requests(scraped["before"][p])], Procs)
AllOwn == Total([s \in Own |-> AllCalls(s)], Own)

\* Everything has been read by then.
LEMMA AllTaken ==
    ASSUME CountersInv, At("report")
    PROVE  /\ CPUSince(collected["before"], collected["after"])
           /\ PerProgram =>
                /\ Since(bucket["before"], bucket["after"])
                /\ bucket["before"].count > 0 => Exact(bucket["before"], bucket["after"], TRUE)
           /\ \A e \in Ends : e \in failed \/ DOMAIN scraped[e] = Procs
<1>1. Scheduled
  BY TakenTypes, Schedule DEF MeasureTypes
<1>2. /\ Taken("collect", "after") /\ (PerProgram => Taken("bucket", "after"))
      /\ \A e \in Ends : Taken("scrape", e)
  BY <1>1, Takings DEF Scheduled, Ends
<1>. QED BY <1>2 DEF CountersInv, CPUInv, BucketInv, ScrapeInv

\* One series of one process.
LEMMA OneSeries ==
    ASSUME CountersInv, At("report"), failed = {}, NEW p \in Procs, NEW s \in Own
    PROVE  /\ scraped["before"][p].count[s] \in Nat /\ scraped["after"][p].count[s] \in Nat
           /\ TrueCalls(p, s) \in Nat /\ TrueCalls(p, s) <= made[p][s] /\ made[p][s] \in Nat
           /\ scraped["after"][p].count[s] - scraped["before"][p].count[s] <= TrueCalls(p, s)
           /\ Labelled /\ scraped["after"][p].exits = scraped["before"][p].exits =>
                scraped["after"][p].count[s] - scraped["before"][p].count[s] = TrueCalls(p, s)
<1>1. /\ "before" \in Ends /\ "after" \in Ends
      /\ p \in DOMAIN scraped["before"] /\ p \in DOMAIN scraped["after"]
  BY AllTaken DEF Ends
<1>. DEFINE b == Scraped(scraped["before"][p], s)
            a == Scraped(scraped["after"][p], s)
            n == Now(p, s)
<1>2. b \in Reading /\ a \in Reading /\ n \in Reading
  BY <1>1, TakenTypes, NowTypes, Finite
<1>3. /\ Since(b, a) /\ (Labelled => Exact(b, a, TRUE)) /\ Since(a, n)
  BY <1>1 DEF CountersInv, ScrapeInv
<1>4. /\ b.count = scraped["before"][p].count[s] /\ a.count = scraped["after"][p].count[s]
      /\ b.made = scraped["before"][p].made[s] /\ a.made = scraped["after"][p].made[s]
      /\ b.exits = scraped["before"][p].exits /\ a.exits = scraped["after"][p].exits
      /\ n.made = made[p][s]
  BY DEF Scraped, Now
<1>5. TrueCalls(p, s) = a.made - b.made
  BY <1>4 DEF TrueCalls
<1>. HIDE DEF a, b, n
<1>6. /\ a.made - b.made \in Nat /\ a.made - b.made <= n.made /\ n.made \in Nat
      /\ a.count \in Nat /\ b.count \in Nat
      /\ a.count - b.count <= a.made - b.made
      /\ Labelled /\ a.exits = b.exits => a.count - b.count = a.made - b.made
  BY <1>2, <1>3 DEF Since, Exact, Reading
<1>. QED BY <1>4, <1>5, <1>6

\* All of them together: no more than the bound on requests.
LEMMA AllSeries ==
    ASSUME CountersInv, At("report"), failed = {}
    PROVE  /\ \A s \in Own : AllCalls(s) \in Nat /\ AllCalls(s) <= AllOwn
           /\ AllOwn \in Nat /\ AllOwn <= MaxCalls
           /\ AllOwn = Total([p \in Procs |-> Total([s \in Own |-> TrueCalls(p, s)], Own)], Procs)
<1>. DEFINE row(p) == [s \in Own |-> TrueCalls(p, s)]
            column(s) == [p \in Procs |-> TrueCalls(p, s)]
            table == [p \in Procs |-> row(p)]
            across == [s \in Own |-> column(s)]
            rows == [p \in Procs |-> Total(row(p), Own)]
            columns == [s \in Own |-> AllCalls(s)]
            whole == [p \in Procs |-> Total(made[p], Series)]
<1>1. \A s \in Own : AllCalls(s) \in Nat
  <2>. SUFFICES ASSUME NEW s \in Own PROVE AllCalls(s) \in Nat
    OBVIOUS
  <2>1. \A p \in Procs : column(s)[p] \in Nat
    BY OneSeries
  <2>2. AllCalls(s) = Total(column(s), Procs) /\ Procs \in SUBSET Procs
    BY DEF AllCalls
  <2>. HIDE DEF column
  <2>. QED BY <2>1, <2>2, Finite, TotalPart
<1>2. AllOwn = Total(columns, Own) /\ \A s \in Own : columns[s] = AllCalls(s)
  BY DEF AllOwn
<1>3. AllOwn \in Nat /\ \A s \in Own : AllCalls(s) <= AllOwn
  <2>1. (\A s \in Own : columns[s] \in Nat) /\ Own \in SUBSET Own
    BY <1>1
  <2>. HIDE DEF columns
  <2>. QED BY <1>2, <2>1, Finite, TotalPart, TotalMember
<1>4. AllOwn = Total(rows, Procs)
  <2>1. \A p \in Procs : \A s \in Own : table[p][s] \in Int
    BY OneSeries
  <2>2. \A s \in Own : \A p \in Procs : across[s][p] = table[p][s]
    OBVIOUS
  <2>3. /\ \A p \in Procs : rows[p] = Total(table[p], Own)
        /\ \A s \in Own : columns[s] = Total(across[s], Procs)
    BY DEF AllCalls
  <2>. HIDE DEF table, across, rows, columns
  <2>4. /\ Table(table, Procs, Own) /\ Transposed(across, table, Procs, Own)
        /\ RowTotals(rows, table, Procs, Own) /\ RowTotals(columns, across, Own, Procs)
    BY <2>1, <2>2, <2>3 DEF Table, Transposed, RowTotals
  <2>. QED BY <1>2, <2>4, Finite, TotalSwap
<1>5. ASSUME NEW p \in Procs
      PROVE  rows[p] \in Int /\ whole[p] \in Int /\ rows[p] <= whole[p]
  <2>1. /\ \A s \in Own : row(p)[s] \in Int /\ made[p][s] \in Int /\ row(p)[s] <= made[p][s]
    BY OneSeries
  <2>2. Total(row(p), Own) <= Total(made[p], Own) /\ Total(row(p), Own) \in Int
    <3>. HIDE DEF row
    <3>. QED BY <2>1, Finite, TotalMonotone, TotalInt
  <2>3. /\ Total(made[p], Own) <= Total(made[p], Series)
        /\ Total(made[p], Series) \in Nat /\ Total(made[p], Own) \in Nat
    <3>1. (\A s \in Series : made[p][s] \in Nat) /\ Own \in SUBSET Series
      BY TakenTypes, Finite, CountersConstants DEF ProcessTypes
    <3>. QED BY <3>1, Finite, TotalPart
  <2>4. rows[p] = Total(row(p), Own) /\ whole[p] = Total(made[p], Series)
    OBVIOUS
  <2>. HIDE DEF row, rows, whole
  <2>. QED BY <2>2, <2>3, <2>4
<1>6. Total(rows, Procs) <= Requested
  <2>1. Requested = Total(whole, Procs)
    BY DEF Requested
  <2>. HIDE DEF rows, whole
  <2>. QED BY <1>5, <2>1, Finite, TotalMonotone
<1>7. Requested <= MaxCalls /\ Requested \in Nat
  BY TakenTypes, RequestedFacts DEF CountersInv, ProcessInv
<1>8. AllOwn <= MaxCalls
  <2>. HIDE DEF rows
  <2>. QED BY <1>3, <1>4, <1>6, <1>7, CountersConstants
<1>. QED BY <1>1, <1>3, <1>4, <1>8

\* What is reported of one series of one process.
LEMMA OneGained ==
    ASSUME CountersInv, At("report"), failed = {}, ~Voids, NEW p \in Procs, NEW s \in Own
    PROVE  /\ Gained(p, s) \in Nat /\ TrueCalls(p, s) \in Nat /\ Gained(p, s) <= TrueCalls(p, s)
           /\ Labelled /\ ScrapeHeld => Gained(p, s) = TrueCalls(p, s)
<1>. DEFINE b == scraped["before"][p]
            a == scraped["after"][p]
<1>1. /\ b.count[s] \in Nat /\ a.count[s] \in Nat /\ TrueCalls(p, s) \in Nat
      /\ a.count[s] - b.count[s] <= TrueCalls(p, s)
      /\ Labelled /\ a.exits = b.exits => a.count[s] - b.count[s] = TrueCalls(p, s)
  BY OneSeries
<1>2. /\ Gained(p, s) = IF PerProgram THEN a.count[s] - b.count[s]
                        ELSE IF a.count[s] > 0 THEN a.count[s] - b.count[s] ELSE 0
      /\ PerProgram => ~(a.count[s] < b.count[s])
      /\ ~PerProgram => ~(a.count[s] > 0 /\ a.count[s] < b.count[s])
  BY DEF Gained, DeltaOf, Voids, ProgramsFail, DeltaFails
<1>3. ScrapeHeld => a.exits = b.exits
  BY DEF ScrapeHeld
<1>. HIDE DEF a, b
<1>. QED BY <1>1, <1>2, <1>3

\* And of all of them: the columns, and the one number.
LEMMA AllGained ==
    ASSUME CountersInv, At("report"), failed = {}, ~Voids
    PROVE  /\ Split \in [Own -> 0 .. MaxCalls] /\ Api \in 0 .. MaxCalls
           /\ \A s \in Own : Split[s] \in 0 .. AllCalls(s)
           /\ Api \in 0 .. AllOwn
           /\ Labelled /\ ScrapeHeld => \A s \in Own : Split[s] = AllCalls(s)
<1>1. ASSUME NEW s \in Own
      PROVE  /\ Split[s] \in Nat /\ Split[s] <= AllCalls(s)
             /\ Labelled /\ ScrapeHeld => Split[s] = AllCalls(s)
  <2>. DEFINE gained == [p \in Procs |-> Gained(p, s)]
              column == [p \in Procs |-> TrueCalls(p, s)]
  <2>1. /\ Split[s] = Total(gained, Procs) /\ AllCalls(s) = Total(column, Procs)
        /\ Procs \in SUBSET Procs
    BY DEF Split, AllCalls
  <2>2. \A p \in Procs : gained[p] \in Nat /\ gained[p] \in Int /\ column[p] \in Int
                         /\ gained[p] <= column[p]
    BY OneGained
  <2>3. Labelled /\ ScrapeHeld => \A p \in Procs : gained[p] \in Int /\ column[p] = gained[p]
    BY OneGained
  <2>. HIDE DEF gained, column
  <2>4. Total(gained, Procs) \in Nat /\ Total(gained, Procs) <= Total(column, Procs)
    BY <2>2, <2>1, Finite, TotalPart, TotalMonotone
  <2>5. Labelled /\ ScrapeHeld => Total(gained, Procs) = Total(column, Procs)
    BY <2>3, Finite, TotalSame
  <2>. QED BY <2>1, <2>4, <2>5
<1>2. \A s \in Own : Split[s] \in 0 .. AllCalls(s) /\ Split[s] \in 0 .. MaxCalls
                     /\ Split[s] \in 0 .. AllOwn
  <2>. SUFFICES ASSUME NEW s \in Own
                PROVE  Split[s] \in 0 .. AllCalls(s) /\ Split[s] \in 0 .. MaxCalls
                       /\ Split[s] \in 0 .. AllOwn
    OBVIOUS
  <2>1. /\ AllCalls(s) \in Nat /\ AllCalls(s) <= AllOwn /\ AllOwn \in Nat /\ AllOwn <= MaxCalls
    BY AllSeries
  <2>. QED BY <1>1, <2>1, CountersConstants
<1>3. Split \in [Own -> 0 .. MaxCalls]
  BY <1>2 DEF Split
<1>4. Api \in 0 .. AllOwn
  <2>1. CASE PerProgram
    BY <1>2, <2>1 DEF Api, Own
  <2>2. CASE ~PerProgram
    <3>. DEFINE each == [p \in Procs |->
                           Requests(scraped["after"][p]) - Requests(scraped["before"][p])]
                row(p) == [s \in Own |-> TrueCalls(p, s)]
                rows == [p \in Procs |-> Total(row(p), Own)]
    <3>1. ASSUME NEW p \in Procs
          PROVE  each[p] \in Nat /\ each[p] \in Int /\ rows[p] \in Int /\ each[p] <= rows[p]
      <4>. DEFINE b == scraped["before"][p].count
                  a == scraped["after"][p].count
                  d == [s \in Own |-> a[s] - b[s]]
      <4>1. \A s \in Own : /\ a[s] \in Int /\ b[s] \in Int /\ d[s] = a[s] - b[s] /\ d[s] \in Int
                           /\ row(p)[s] \in Int /\ d[s] <= row(p)[s]
        BY OneSeries
      <4>2. /\ each[p] = Total(a, Own) - Total(b, Own) /\ rows[p] = Total(row(p), Own)
            /\ ~(Total(a, Own) < Total(b, Own))
        BY <2>2 DEF Requests, Voids, DeltaFails
      <4>. HIDE DEF a, b, d, row, each, rows
      <4>3. Total(d, Own) = Total(a, Own) - Total(b, Own)
        BY <4>1, Finite, TotalMinus
      <4>4. Total(d, Own) <= Total(row(p), Own)
        BY <4>1, Finite, TotalMonotone
      <4>5. Total(a, Own) \in Int /\ Total(b, Own) \in Int /\ Total(row(p), Own) \in Int
        BY <4>1, Finite, TotalInt
      <4>. QED BY <4>2, <4>3, <4>4, <4>5
    <3>2. Api = Total(each, Procs) /\ AllOwn = Total(rows, Procs) /\ Procs \in SUBSET Procs
      BY <2>2, AllSeries DEF Api
    <3>. HIDE DEF each, rows
    <3>3. Total(each, Procs) \in Nat /\ Total(each, Procs) <= Total(rows, Procs)
      BY <3>1, <3>2, Finite, TotalPart, TotalMonotone
    <3>. QED BY <3>2, <3>3, AllSeries
  <2>. QED BY <2>1, <2>2
<1>5. Api \in 0 .. MaxCalls
  BY <1>4, AllSeries, CountersConstants
<1>. QED BY <1>1, <1>2, <1>3, <1>4, <1>5

\* What the report of the CPU is.
LEMMA CPUGained ==
    ASSUME CountersInv, At("report")
    PROVE  /\ TrueCPU \in Nat /\ 0 \in 0 .. MaxCPU * Cardinality(Procs)
           /\ CPUValid(collected["before"], collected["after"]) =>
                /\ collected["after"].ticks - collected["before"].ticks \in 0 .. TrueCPU
                /\ collected["after"].ticks - collected["before"].ticks
                     \in 0 .. MaxCPU * Cardinality(Procs)
                /\ CPUHeld => collected["after"].ticks - collected["before"].ticks = TrueCPU
<1>. DEFINE b == collected["before"]
            a == collected["after"]
<1>1. b \in CPUReading /\ a \in CPUReading /\ CPUSince(b, a)
  BY TakenTypes, AllTaken DEF Ends
<1>2. TrueCPU = Total(a.spent, Procs) - Total(b.spent, Procs)
  BY DEF TrueCPU
<1>3. CPUHeld => a.exits = b.exits /\ b.size = Cardinality(Procs)
  BY DEF CPUHeld
<1>. HIDE DEF a, b
<1>4. \A p \in Procs : /\ b.spent[p] \in Nat /\ a.spent[p] \in Nat
                       /\ b.spent[p] \in Int /\ a.spent[p] \in Int
                       /\ b.spent[p] <= a.spent[p] /\ a.spent[p] <= MaxCPU
  BY <1>1, CountersConstants DEF CPUReading, CPUSince
<1>5. Procs \in SUBSET Procs /\ MaxCPU \in Int
  BY CountersConstants
<1>6. /\ Total(b.spent, Procs) \in Nat /\ Total(a.spent, Procs) \in Nat
      /\ Total(b.spent, Procs) <= Total(a.spent, Procs)
      /\ Total(a.spent, Procs) <= MaxCPU * Cardinality(Procs)
  BY <1>4, <1>5, Finite, TotalPart, TotalMonotone, TotalBound
<1>7. MaxCPU * Cardinality(Procs) \in Nat
  BY CountersConstants, Finite
<1>8. a.ticks \in Nat /\ b.ticks \in Nat
  BY <1>1 DEF CPUReading
<1>9. a.ticks + Total(b.spent, Procs) <= Total(a.spent, Procs) + b.ticks
  BY <1>1 DEF CPUSince
<1>10. CPUHeld => a.ticks + Total(b.spent, Procs) = Total(a.spent, Procs) + b.ticks
  BY <1>1, <1>3 DEF CPUSince
<1>11. CPUValid(b, a) => a.ticks >= b.ticks
  BY DEF CPUValid
<1>12. /\ TrueCPU \in Nat
       /\ CPUValid(b, a) =>
            /\ a.ticks - b.ticks \in 0 .. TrueCPU
            /\ a.ticks - b.ticks <= Total(a.spent, Procs)
            /\ CPUHeld => a.ticks - b.ticks = TrueCPU
  BY <1>2, <1>6, <1>8, <1>9, <1>10, <1>11
<1>13. \A n \in Nat : \A x \in Int : 0 <= x /\ x <= Total(a.spent, Procs)
                                     /\ Total(a.spent, Procs) <= n => x \in 0 .. n
  BY <1>6
<1>14. CPUValid(b, a) => a.ticks - b.ticks \in 0 .. MaxCPU * Cardinality(Procs)
  BY <1>6, <1>7, <1>8, <1>11, <1>12, <1>13
<1>. QED BY <1>7, <1>12, <1>14 DEF a, b

\* What the report of the unlabelled counter is.
LEMMA HostGained ==
    ASSUME CountersInv, At("report")
    PROVE  /\ TrueBucket \in Nat /\ HostFound \in BOOLEAN
           /\ HostFound =>
                /\ bucket["after"].count - bucket["before"].count \in 0 .. TrueBucket
                /\ bucket["after"].count - bucket["before"].count \in 0 .. MaxCalls
                /\ BucketHeld =>
                     bucket["after"].count - bucket["before"].count = TrueBucket
<1>. DEFINE b == bucket["before"]
            a == bucket["after"]
<1>1. b \in BucketRecord /\ a \in BucketRecord /\ b \in Reading /\ a \in Reading
  BY TakenTypes DEF Ends, MeasureTypes
<1>2. /\ PerProgram => Since(b, a) /\ (b.count > 0 => Exact(b, a, TRUE))
      /\ ~PerProgram => b.count = 0 /\ b.made = 0 /\ a.made = 0
  BY AllTaken DEF CountersInv, BucketInv, Ends
<1>3. /\ TrueBucket = a.made - b.made
      /\ HostFound <=> b.count > 0 /\ a.count >= b.count
      /\ HostFound \in BOOLEAN
      /\ BucketHeld => a.exits = b.exits
  BY DEF TrueBucket, HostFound, BucketHeld
<1>. HIDE DEF a, b
<1>4. /\ a.count \in Nat /\ b.count \in Nat /\ a.made \in Nat /\ b.made \in Nat
      /\ a.count <= MaxCalls
  BY <1>1, CountersConstants DEF Reading, BucketRecord
<1>5. CASE PerProgram
  BY <1>2, <1>3, <1>4, <1>5, CountersConstants DEF Since, Exact, a, b
<1>6. CASE ~PerProgram
  BY <1>2, <1>3, <1>4, <1>6
<1>. QED BY <1>5, <1>6

\* What Report does, in these words.
LEMMA ReportIs ==
    ASSUME CountersInv, Report
    PROVE  /\ At("report") /\ step' = step + 1
           /\ UNCHANGED processVars /\ UNCHANGED <<collected, scraped, failed, bucket>>
           /\ \E measured \in BOOLEAN,
                 note \in {"none", "population", "unscraped", "scrape", "reset"} :
                /\ measured => failed = {} /\ ~Voids
                /\ report' = [cpu |-> IF CPUValid(collected["before"], collected["after"])
                                      THEN collected["after"].ticks - collected["before"].ticks
                                      ELSE 0,
                              cpuValid |-> CPUValid(collected["before"], collected["after"]),
                              api |-> IF measured THEN Api ELSE 0,
                              split |-> IF measured THEN Split ELSE NoReport.split,
                              measured |-> measured,
                              note |-> note,
                              host |-> IF HostFound
                                       THEN bucket["after"].count - bucket["before"].count
                                       ELSE 0,
                              hostFound |-> HostFound]
<1>1. failed \in SUBSET Ends
  BY TakenTypes DEF MeasureTypes
<1>. DEFINE problem ==
              CASE "before" \in failed -> "unscraped"
                [] "before" \notin failed /\ "after" \in failed -> "scrape"
                [] failed = {} /\ Voids -> "reset"
                [] OTHER -> "none"
            valid == CPUValid(collected["before"], collected["after"])
            measured == problem = "none"
            note == IF ~measured THEN problem
                    ELSE IF valid \/ PerProgram THEN "none" ELSE "population"
<1>2. /\ At("report") /\ step' = step + 1
      /\ UNCHANGED processVars /\ UNCHANGED <<collected, scraped, failed, bucket>>
      /\ report' = [cpu |-> IF valid
                            THEN collected["after"].ticks - collected["before"].ticks ELSE 0,
                    cpuValid |-> valid,
                    api |-> IF measured THEN Api ELSE 0,
                    split |-> IF measured THEN Split ELSE NoReport.split,
                    measured |-> measured,
                    note |-> note,
                    host |-> IF HostFound THEN bucket["after"].count - bucket["before"].count
                             ELSE 0,
                    hostFound |-> HostFound]
  BY DEF Report, Voids, Split, Api, Gained
<1>3. measured => failed = {} /\ ~Voids
  <2>1. failed # {} => "before" \in failed \/ "after" \in failed
    BY <1>1 DEF Ends
  <2>. QED BY <2>1
<1>4. problem \in {"none", "unscraped", "scrape", "reset"}
  OBVIOUS
<1>5. measured \in BOOLEAN /\ note \in {"none", "population", "unscraped", "scrape", "reset"}
  BY <1>4
<1>. HIDE DEF problem, valid, measured, note
<1>6. valid = CPUValid(collected["before"], collected["after"])
  BY DEF valid
<1>. QED BY <1>2, <1>3, <1>5, <1>6

\* The report.
LEMMA ReportKeeps ==
    ASSUME CountersInv, Report
    PROVE  CountersInv'
<1>. DEFINE valid == CPUValid(collected["before"], collected["after"])
            walked == collected["after"].ticks - collected["before"].ticks
            host == bucket["after"].count - bucket["before"].count
<1>1. /\ At("report") /\ step' = step + 1
      /\ UNCHANGED processVars /\ UNCHANGED <<collected, scraped, failed, bucket>>
  BY ReportIs
<1>2. PICK measured \in BOOLEAN,
           note \in {"none", "population", "unscraped", "scrape", "reset"} :
        /\ measured => failed = {} /\ ~Voids
        /\ report' = [cpu |-> IF valid THEN walked ELSE 0,
                      cpuValid |-> valid,
                      api |-> IF measured THEN Api ELSE 0,
                      split |-> IF measured THEN Split ELSE NoReport.split,
                      measured |-> measured,
                      note |-> note,
                      host |-> IF HostFound THEN host ELSE 0,
                      hostFound |-> HostFound]
  BY ReportIs
<1>3. /\ report'.cpu = IF valid THEN walked ELSE 0
      /\ report'.cpuValid = valid
      /\ report'.api = IF measured THEN Api ELSE 0
      /\ report'.split = IF measured THEN Split ELSE NoReport.split
      /\ report'.measured = measured
      /\ report'.host = IF HostFound THEN host ELSE 0
      /\ report'.hostFound = HostFound
  BY <1>2
<1>4. /\ TrueCPU \in Nat /\ 0 \in 0 .. MaxCPU * Cardinality(Procs)
      /\ valid => /\ walked \in 0 .. TrueCPU /\ walked \in 0 .. MaxCPU * Cardinality(Procs)
                  /\ CPUHeld => walked = TrueCPU
      /\ TrueBucket \in Nat /\ HostFound \in BOOLEAN
      /\ HostFound => /\ host \in 0 .. TrueBucket /\ host \in 0 .. MaxCalls
                      /\ BucketHeld => host = TrueBucket
  BY <1>1, CPUGained, HostGained
<1>5. measured => /\ Split \in [Own -> 0 .. MaxCalls] /\ Api \in 0 .. MaxCalls
                  /\ \A s \in Own : Split[s] \in 0 .. AllCalls(s)
                  /\ Api \in 0 .. AllOwn
                  /\ Labelled /\ ScrapeHeld => \A s \in Own : Split[s] = AllCalls(s)
  BY <1>1, <1>2, AllGained
<1>6. valid \in BOOLEAN
  BY DEF CPUValid
<1>7. NoReport.split \in [Own -> 0 .. MaxCalls] /\ 0 \in 0 .. MaxCalls
  BY CountersConstants DEF NoReport
<1>. HIDE DEF valid, walked, host
<1>8. report' \in ReportRecord
  BY <1>2, <1>4, <1>5, <1>6, <1>7 DEF ReportRecord
<1>9. /\ ProcessTypes' /\ ProcessInv' /\ kind' = kind
      /\ PerProgram' = PerProgram /\ Labelled' = Labelled /\ Procs' = Procs
      /\ Own' = Own /\ Series' = Series /\ Steps' = Steps /\ Place' = Place
  <2>1. UNCHANGED <<up, kind, cpu, count, spent, made, exits>>
    BY <1>1 DEF processVars
  <2>2. /\ PerProgram' = PerProgram /\ Labelled' = Labelled /\ Procs' = Procs
        /\ Own' = Own /\ Series' = Series /\ Steps' = Steps /\ Place' = Place
    BY <2>1, SameArm
  <2>. QED BY <2>1, <2>2, TakenTypes DEF ProcessTypes, ProcessInv, Requested, CountersInv
<1>10. CountersTypeOK'
  <2>1. Scheduled
    BY TakenTypes, Schedule DEF MeasureTypes
  <2>2. step' \in DOMAIN Steps
    BY <1>1, <2>1 DEF Scheduled
  <2>3. ReportRecord' = ReportRecord
    BY <1>9 DEF ReportRecord
  <2>4. MeasureTypes'
    BY <1>1, <1>8, <1>9, <2>2, <2>3, TakenTypes DEF MeasureTypes, BucketRecord
  <2>. QED BY <1>9, <2>4, CountersTypePartsNext
<1>11. NeverOverstated'
  <2>1. /\ TrueCPU' = TrueCPU /\ TrueBucket' = TrueBucket
        /\ AllOwn' = AllOwn /\ \A s \in Own : AllCalls(s)' = AllCalls(s)
    BY <1>1, <1>9 DEF TrueCPU, TrueBucket, AllOwn, AllCalls, TrueCalls
  <2>2. report'.cpu \in 0 .. TrueCPU /\ report'.host \in 0 .. TrueBucket
    BY <1>3, <1>4
  <2>3. report'.measured => /\ report'.api \in 0 .. AllOwn
                            /\ \A s \in Own : report'.split[s] \in 0 .. AllCalls(s)
    BY <1>3, <1>5
  <2>. QED BY <1>9, <2>1, <2>2, <2>3 DEF NeverOverstated, AllOwn
<1>12. ExactWhenNobodyExits'
  <2>1. /\ TrueCPU' = TrueCPU /\ TrueBucket' = TrueBucket
        /\ \A s \in Own : AllCalls(s)' = AllCalls(s)
        /\ CPUHeld' = CPUHeld /\ BucketHeld' = BucketHeld /\ ScrapeHeld' = ScrapeHeld
    BY <1>1, <1>9 DEF TrueCPU, TrueBucket, AllCalls, TrueCalls, CPUHeld, BucketHeld, ScrapeHeld
  <2>2. /\ report'.cpuValid /\ CPUHeld => report'.cpu = TrueCPU
        /\ report'.hostFound /\ BucketHeld => report'.host = TrueBucket
        /\ report'.measured /\ Labelled /\ ScrapeHeld =>
             \A s \in Own : report'.split[s] = AllCalls(s)
    BY <1>3, <1>4, <1>5
  <2>. QED BY <1>9, <2>1, <2>2 DEF ExactWhenNobodyExits
<1>13. CPUNow' = CPUNow /\ BucketNow' = BucketNow /\ up' = up
       /\ CPUReading' = CPUReading /\ ScrapeReading' = ScrapeReading
       /\ \A p \in Procs : \A s \in Own : Now(p, s)' = Now(p, s)
  BY <1>1, <1>9 DEF processVars, CPUNow, BucketNow, Now, CPUReading, ScrapeReading
<1>14. CPUInv'
  BY <1>1, <1>9, <1>13, AllTaken DEF CountersInv, CPUInv, CPUSince
<1>15. BucketInv'
  BY <1>1, <1>9, <1>13, AllTaken DEF CountersInv, BucketInv, Since, Exact
<1>16. ScrapeInv'
  <2>1. End # "before"
    <3>1. Scheduled
      BY TakenTypes, Schedule DEF MeasureTypes
    <3>. QED BY <1>1, <3>1 DEF Scheduled
  <2>2. (End = "before")' => End = "before"
    <3>1. Scheduled /\ (step \in DOMAIN Steps)'
      BY <1>10, TakenTypes, Schedule, CountersTypePartsNext DEF MeasureTypes
    <3>2. Scheduled'
      BY <3>1, ScheduleNext
    <3>. QED BY <1>1, <1>9, <3>1, <3>2 DEF Scheduled
  <2>3. \A e \in Ends : \A p \in DOMAIN scraped[e] : \A s \in Own :
               /\ Since(Scraped(scraped[e][p], s), Now(p, s))'
               /\ Labelled => Exact(Scraped(scraped[e][p], s), Now(p, s), p \in up)'
    <3>1. \A e \in Ends : \A p \in DOMAIN scraped[e] : \A s \in Own :
               /\ Since(Scraped(scraped[e][p], s), Now(p, s)')
               /\ Labelled => Exact(Scraped(scraped[e][p], s), Now(p, s)', p \in up)
      BY <1>13 DEF CountersInv, ScrapeInv
    <3>. QED BY <1>1, <1>9, <1>13, <3>1 DEF Since, Exact, Scraped
  <2>4. \A e \in Ends : e \in failed' \/ DOMAIN scraped'[e] = Procs'
    BY <1>1, <1>9, AllTaken
  <2>. QED BY <1>1, <1>9, <1>13, <2>1, <2>2, <2>3, <2>4
           DEF CountersInv, ScrapeInv, Scraped, Since, Exact
<1>. QED BY <1>10, <1>9, <1>11, <1>12, <1>14, <1>15, <1>16 DEF CountersInv

-----------------------------------------------------------------------------
(***************************************************************************)
(* The theorems.                                                           *)
(***************************************************************************)

\* Before anything has been read or counted.
LEMMA CountersBegin == CountersInit => CountersInv
<1>. SUFFICES ASSUME CountersInit PROVE CountersInv
  OBVIOUS
<1>1. /\ kind \in {"workers", "programs", "unlabelled"} /\ up = Procs /\ step = 1
      /\ cpu = [p \in Procs |-> 0] /\ spent = [p \in Procs |-> 0]
      /\ count = [p \in Procs |-> [s \in Series |-> 0]]
      /\ made = [p \in Procs |-> [s \in Series |-> 0]]
      /\ exits = [p \in Procs |-> 0] /\ failed = {} /\ report = NoReport
      /\ collected = [e \in Ends |-> [size |-> 0, ticks |-> 0, spent |-> spent, exits |-> exits]]
      /\ scraped = [e \in Ends |-> << >>]
      /\ bucket = [e \in Ends |-> [count |-> 0, made |-> 0, exits |-> 0]]
  BY DEF CountersInit
<1>2. ProcessTypes
  BY <1>1, CountersConstants DEF ProcessTypes
<1>3. step \in DOMAIN Steps
  <2>1. 1 \in DOMAIN Steps
    BY DEF Steps
  <2>. QED BY <1>1, <2>1
<1>4. Scheduled
  BY <1>3, Schedule
<1>5. MeasureTypes
  <2>1. MaxCPU * Cardinality(Procs) \in Nat
    BY CountersConstants, Finite
  <2>2. report \in ReportRecord
    BY <1>1, <2>1, CountersConstants DEF NoReport, ReportRecord
  <2>3. bucket \in [Ends -> BucketRecord]
    BY <1>1, CountersConstants DEF BucketRecord
  <2>. QED BY <1>1, <1>3, <2>2, <2>3 DEF MeasureTypes
<1>6. CountersTypeOK
  BY <1>2, <1>5, CountersTypeParts
<1>7. ProcessInv
  <2>1. Requested = 0
    <3>. DEFINE each == [p \in Procs |-> Total(made[p], Series)]
    <3>1. \A p \in Procs : each[p] = 0
      <4>. SUFFICES ASSUME NEW p \in Procs PROVE Total(made[p], Series) = 0
        OBVIOUS
      <4>1. \A s \in Series : made[p][s] = 0
        BY <1>1
      <4>2. Total(made[p], Series) = 0 * Cardinality(Series)
        BY <4>1, Finite, TotalConstant
      <4>. QED BY <4>2, Finite, FS_CardinalityType
    <3>2. Requested = Total(each, Procs)
      BY DEF Requested
    <3>. HIDE DEF each
    <3>3. Total(each, Procs) = 0 * Cardinality(Procs)
      BY <3>1, Finite, TotalConstant
    <3>. QED BY <3>2, <3>3, Finite
  <2>2. \A p \in Procs : cpu[p] <= spent[p] /\ \A s \in Series : count[p][s] <= made[p][s]
    BY <1>1
  <2>. QED BY <2>1, <2>2, CountersConstants DEF ProcessInv
<1>8. CPUInv
  <2>. DEFINE r == [size |-> 0, ticks |-> 0, spent |-> spent, exits |-> exits]
  <2>1. \A e \in Ends : collected[e] = r
    BY <1>1
  <2>2. r \in CPUReading
    BY <1>2 DEF CPUReading, ProcessTypes
  <2>3. CPUSince(r, r)
    <3>. HIDE DEF r
    <3>. QED BY <2>2, CPUItself
  <2>4. CPUSince(r, CPUNow)
    <3>1. Total(cpu, up) = 0 * Cardinality(Procs)
      BY <1>1, Finite, TotalConstant
    <3>2. Total(spent, Procs) \in Nat /\ Total(cpu, up) = 0
      BY <1>2, <3>1, Finite, NowTypes
    <3>3. \A p \in Procs : spent[p] <= spent[p] /\ exits[p] <= exits[p]
      BY <1>1
    <3>. QED BY <3>2, <3>3, Finite DEF CPUSince, CPUNow
  <2>5. collected \in [Ends -> CPUReading]
    BY <1>1, <2>2
  <2>. HIDE DEF r
  <2>. QED BY <2>1, <2>3, <2>4, <2>5 DEF CPUInv, Ends
<1>9. BucketInv
  <2>1. \A e \in Ends : bucket[e] = [count |-> 0, made |-> 0, exits |-> 0]
    BY <1>1
  <2>2. ASSUME PerProgram
        PROVE  /\ BucketNow.count = 0 /\ BucketNow.made = 0 /\ BucketNow.exits = 0
               /\ ~Taken("bucket", "after")
    <3>1. Radiant \in Procs /\ "applied" \in Series /\ "neighbour" \in Series
      BY <2>2 DEF Procs, Series, Own
    <3>2. ~Taken("bucket", "after")
      BY <1>1, <2>2, Takings
    <3>. QED BY <1>1, <3>1, <3>2 DEF BucketNow, Bucket
  <2>3. PerProgram => Since(bucket["before"], BucketNow) /\ ~(bucket["before"].count > 0)
    BY <2>1, <2>2 DEF Since, Ends
  <2>4. \A e \in Ends : bucket[e].count = 0 /\ bucket[e].made = 0
    BY <2>1
  <2>5. PerProgram => ~Taken("bucket", "after")
    BY <2>2
  <2>. QED BY <2>3, <2>4, <2>5 DEF BucketInv
<1>10. ScrapeInv
  <2>1. DOMAIN scraped = Ends /\ \A e \in Ends : DOMAIN scraped[e] = {}
    <3>1. \A e \in Ends : scraped[e] = << >>
      BY <1>1
    <3>. QED BY <1>1, <3>1
  <2>2. \A e \in Ends : ~Taken("scrape", e)
    BY <1>1, Takings DEF Ends
  <2>. QED BY <2>1, <2>2 DEF ScrapeInv, Ends
<1>11. NeverOverstated /\ ExactWhenNobodyExits
  <2>1. ~At("done")
    BY <1>1, <1>4 DEF Scheduled
  <2>. QED BY <2>1 DEF NeverOverstated, ExactWhenNobodyExits
<1>. QED BY <1>6, <1>7, <1>8, <1>9, <1>10, <1>11 DEF CountersInv

\* Whatever a step does, the next state still has it.
LEMMA CountersKept == CountersInv /\ [CountersNext]_countersVars => CountersInv'
<1>. SUFFICES ASSUME CountersInv, [CountersNext]_countersVars PROVE CountersInv'
  OBVIOUS
<1>1. ASSUME NEW p \in Procs, Work(p) PROVE CountersInv'
  <2>1. ProcessTypes' /\ ProcessInv' /\ Moves /\ UNCHANGED measureVars
    BY <1>1, TakenTypes, WorkMoves DEF CountersInv
  <2>2. Running /\ kind' = kind
    BY <1>1 DEF Work
  <2>. QED BY <2>1, <2>2, MovesKeep
<1>2. ASSUME NEW p \in Procs, NEW s \in Series, Call(p, s) PROVE CountersInv'
  <2>1. ProcessTypes' /\ ProcessInv' /\ Moves /\ UNCHANGED measureVars
    BY <1>2, TakenTypes, CallMoves DEF CountersInv
  <2>2. Running /\ kind' = kind
    BY <1>2 DEF Call
  <2>. QED BY <2>1, <2>2, MovesKeep
<1>3. ASSUME NEW p \in Procs, Exit(p) PROVE CountersInv'
  <2>1. ProcessTypes' /\ ProcessInv' /\ Moves /\ UNCHANGED measureVars
    BY <1>3, TakenTypes, ExitMoves DEF CountersInv
  <2>2. Running /\ kind' = kind
    BY <1>3 DEF Exit
  <2>. QED BY <2>1, <2>2, MovesKeep
<1>4. ASSUME NEW p \in Procs, Start(p) PROVE CountersInv'
  <2>1. ProcessTypes' /\ ProcessInv' /\ Moves /\ UNCHANGED measureVars
    BY <1>4, TakenTypes, StartMoves DEF CountersInv
  <2>2. Running /\ kind' = kind
    BY <1>4 DEF Start
  <2>. QED BY <2>1, <2>2, MovesKeep
<1>5. CASE UNCHANGED countersVars
  <2>1. UNCHANGED <<up, kind, cpu, count, spent, made, exits, step, collected,
                    scraped, failed, bucket, report>>
    BY <1>5 DEF countersVars
  <2>2. /\ PerProgram' = PerProgram /\ Labelled' = Labelled /\ Procs' = Procs
        /\ Own' = Own /\ Series' = Series /\ Steps' = Steps /\ Place' = Place
    BY <2>1, SameArm
  <2>3. /\ CPUReading' = CPUReading /\ ScrapeReading' = ScrapeReading
        /\ ProcessTypes' /\ ProcessInv' /\ MeasureTypes'
        /\ CPUNow' = CPUNow /\ BucketNow' = BucketNow /\ End' = End
        /\ At("done")' = At("done")
        /\ \A s, e : Taken(s, e)' = Taken(s, e)
    BY <2>1, <2>2, TakenTypes
       DEF CPUReading, ScrapeReading, ProcessTypes, MeasureTypes, BucketRecord, ReportRecord,
           ProcessInv, Requested, CPUNow, BucketNow, End, At, Taken, CountersInv
  <2>4. CountersTypeOK'
    BY <2>3, CountersTypePartsNext
  <2>5. CPUInv'
    BY <2>1, <2>2, <2>3 DEF CountersInv, CPUInv, CPUSince
  <2>6. BucketInv'
    BY <2>1, <2>2, <2>3 DEF CountersInv, BucketInv, Since, Exact
  <2>7. ScrapeInv'
    BY <2>1, <2>2, <2>3 DEF CountersInv, ScrapeInv, Since, Exact, Scraped, Now
  <2>8. NeverOverstated'
    BY <2>1, <2>2, <2>3
       DEF CountersInv, NeverOverstated, TrueCPU, TrueBucket, AllCalls, TrueCalls
  <2>9. ExactWhenNobodyExits'
    BY <2>1, <2>2, <2>3
       DEF CountersInv, ExactWhenNobodyExits, TrueCPU, TrueBucket, AllCalls, TrueCalls,
           CPUHeld, BucketHeld, ScrapeHeld
  <2>. QED BY <2>3, <2>4, <2>5, <2>6, <2>7, <2>8, <2>9 DEF CountersInv
<1>. QED BY <1>1, <1>2, <1>3, <1>4, <1>5, ScrapeKeeps, ScrapeFailsKeeps, CollectKeeps,
            ReadBucketKeeps, WindowKeeps, ReportKeeps DEF CountersNext

\* What has been read relates to what is read later as an earlier reading to a
\* later one, and the report says no more than that.
THEOREM CountersInductive == CountersSpec => []CountersInv
BY CountersBegin, CountersKept, PTL DEF CountersSpec

\* The types of the processes, of the readings and of the report.
THEOREM CountersTypeCorrect == CountersSpec => []CountersTypeOK
<1>1. CountersInv => CountersTypeOK
  BY DEF CountersInv
<1>. QED BY <1>1, CountersInductive, PTL

\* A number in the report is never more than what was really spent or requested
\* between its own two readings, and never below zero: Totals and measure, Delta
\* and DeltaByMethod, whatever exits and restarts meanwhile.
THEOREM CountersNeverOverstate == CountersSpec => []NeverOverstated
<1>1. CountersInv => NeverOverstated
  BY DEF CountersInv
<1>. QED BY <1>1, CountersInductive, PTL

\* If no process exited between the two readings the report is exact.
THEOREM CountersExact == CountersSpec => []ExactWhenNobodyExits
<1>1. CountersInv => ExactWhenNobodyExits
  BY DEF CountersInv
<1>. QED BY <1>1, CountersInductive, PTL
=============================================================================
