-------------------------- MODULE FusedRelay_proofs --------------------------
(***************************************************************************)
(* What arm B2 guarantees for every number of pairs and every part of them *)
(* the step walks: typing, NoLostWake, and that the one program implements *)
(* RelayPromise for all its pairs.                                         *)
(*                                                                         *)
(* The walk reads the clock before it reads anything, so what it declares  *)
(* is not dated the way arm B's obligations are, and NoNegativeReaction is *)
(* false (run b2_negative).  What stays true, and is all RelayPromise      *)
(* asks, is that a value is one of its source's past (PassInv, ObligInv)   *)
(* and its stamp is not from the future.                                   *)
(***************************************************************************)
EXTENDS FusedRelay, Cluster_proofs

\* The pass has a value its current source has held, and the instant it began.
PassInv ==
    /\ pass.pc = "dst" => pass.want \in held[pass.i]
    /\ pass.stamp =< clock

\* An obligation carries what a pass had, until it is serviced.
ObligInv == \A r \in oblig : r.v \in held[r.i] /\ r.at =< clock

IInv ==
    /\ TypeOK
    /\ ClusterInv
    /\ PassInv
    /\ ObligInv

-----------------------------------------------------------------------------
(***************************************************************************)
(* The arm and the cluster.                                                *)
(***************************************************************************)

\* The assumptions on the constants, as the proofs use them.
LEMMA ArmConstants ==
    MaxHiccups \in Nat /\ N \in Nat /\ N > 0 /\ Count \in Nat /\ Count =< N
BY HostAssumption, CountAssumption, ClusterAssumption

\* The program starts Running, on a typed host.
LEMMA HostInitType ==
    ASSUME HostInit
    PROVE  HostTypeOK
<1>1. ClusterTypeOK
  BY ClusterInitFacts DEF HostInit
<1>2. hint \in BOOLEAN /\ phase = "Running"
  BY DEF HostInit
<1>3. oblig \in SUBSET Obligation
  BY DEF HostInit
<1>4. hiccups \in 0 .. MaxHiccups
  BY ArmConstants DEF HostInit
<1>. QED BY <1>1, <1>2, <1>3, <1>4 DEF HostTypeOK

\* A step of the program looks at the cluster and leaves it alone; it is a
\* Running program's, and ends Running or about to park.
LEMMA StepIsQuiet ==
    ASSUME TypeOK, Step
    PROVE  /\ phase = "Running" /\ phase' \in {"Running", "Parking"}
           /\ hint' = hint
           /\ hiccups' \in 0 .. MaxHiccups
           /\ UNCHANGED clusterVars
<1>. USE DEF TypeOK, HostTypeOK, clusterVars
<1>1. CASE BeginPass
  BY <1>1 DEF BeginPass, hostVars
<1>2. CASE ReadSource
  BY <1>2 DEF ReadSource, hostVars
<1>3. CASE ReadDestination
  BY <1>3 DEF ReadDestination
<1>4. CASE Unknown
  BY <1>4, ArmConstants DEF Unknown, Hiccup
<1>5. CASE EndPass
  BY <1>5 DEF EndPass
<1>. QED BY <1>1, <1>2, <1>3, <1>4, <1>5 DEF Step

\* To the cluster, a step of the arm is one of the harness, of the informer,
\* or an obligation serviced.
LEMMA ArmIsCluster ==
    ASSUME TypeOK, [Next]_vars
    PROVE  oblig \in SUBSET Patches /\ ClusterStep(oblig)
<1>. USE DEF ClusterStep
<1>1. oblig \in SUBSET Patches
  BY DEF TypeOK, HostTypeOK, Obligation, Patches
<1>2. CASE HarnessStep
  BY <1>1, <1>2 DEF HarnessStep
<1>3. CASE Step
  BY <1>1, <1>3, StepIsQuiet
<1>4. CASE HostDeliver(Keys) \/ HostRelist(Keys)
  BY <1>1, <1>4 DEF HostDeliver, HostRelist
<1>5. ASSUME NEW r \in oblig, Perform(r) \/ Refuse(r) \/ Drop(r) PROVE ClusterStep(oblig)
  <2>1. Perform(r) => PatchLands(r)
    BY DEF Perform, PatchLands
  <2>. QED BY <1>5, <2>1 DEF Refuse, Drop
<1>6. CASE ParkCheck(ResumeHolds) \/ WakeByIndex(ResumeHolds) \/ WakeByPoll(ResumeHolds)
           \/ Backstop
  BY <1>1, <1>6 DEF ParkCheck, WakeByIndex, WakeByPoll, Backstop
<1>7. CASE UNCHANGED vars
  BY <1>1, <1>7 DEF vars, clusterVars
<1>. QED BY <1>1, <1>2, <1>3, <1>4, <1>5, <1>6, <1>7 DEF Next, Host

\* The host adds no obligation, leaves a pass in progress alone, and parks,
\* wakes and hints within their types.
LEMMA HostStep ==
    ASSUME TypeOK, Host
    PROVE  /\ pass' = pass
           /\ oblig' \subseteq oblig
           /\ phase' \in {"Running", "Parking", "Parked", "Terminated"}
           /\ phase = "Running" => phase' = "Running"
           /\ hint' \in BOOLEAN
           /\ hiccups' \in 0 .. MaxHiccups
<1>. USE DEF TypeOK, HostTypeOK
<1>0. pass' = pass
  BY DEF Host
<1>1. CASE HostDeliver(Keys)
  BY <1>0, <1>1 DEF HostDeliver
<1>2. CASE HostRelist(Keys)
  BY <1>0, <1>2, ArmConstants DEF HostRelist, Hiccup
<1>3. ASSUME NEW r \in oblig, Perform(r) \/ Refuse(r)
      PROVE  UNCHANGED <<phase, hint, hiccups>> /\ oblig' \subseteq oblig
  BY <1>3 DEF Perform, Refuse
<1>4. ASSUME NEW r \in oblig, Drop(r)
      PROVE  UNCHANGED <<phase, hint>> /\ oblig' \subseteq oblig /\ hiccups' \in 0 .. MaxHiccups
  BY <1>4, ArmConstants DEF Drop, Hiccup
<1>5. CASE ParkCheck(ResumeHolds)
  BY <1>0, <1>5 DEF ParkCheck, Awake
<1>6. CASE WakeByIndex(ResumeHolds)
  BY <1>0, <1>6 DEF WakeByIndex, Awake
<1>7. CASE WakeByPoll(ResumeHolds) \/ Backstop
  BY <1>0, <1>7 DEF WakeByPoll, Backstop, Awake
<1>. QED BY <1>0, <1>1, <1>2, <1>3, <1>4, <1>5, <1>6, <1>7 DEF Host

-----------------------------------------------------------------------------
(***************************************************************************)
(* A pass.                                                                 *)
(***************************************************************************)

PassRecord == [pc: {"out", "src", "dst"}, i: 0 .. N, want: Values \cup {NoField},
               stamp: 0 .. MaxRounds, wrote: BOOLEAN]

\* What the moves of a pass are.
LEMMA PassMoves ==
    ASSUME pass \in PassRecord, pass.i < N
    PROVE  /\ NextPair \in PassRecord /\ NextPair.pc = "src" /\ NextPair.stamp = pass.stamp
           /\ [NextPair EXCEPT !.wrote = TRUE] \in PassRecord
           /\ [NextPair EXCEPT !.wrote = TRUE].pc = "src"
           /\ [NextPair EXCEPT !.wrote = TRUE].stamp = pass.stamp
<1>1. pass.i + 1 \in 0 .. N
  BY ArmConstants DEF PassRecord
<1>. QED BY <1>1 DEF PassRecord, NextPair

\* A step of the program stays a pass over the pairs under one stamp, taken
\* when it begins; it has in hand what its current source holds, and declares
\* at most one obligation, for that source's pair.
LEMMA PassStep ==
    ASSUME TypeOK, Step
    PROVE  /\ pass' \in PassRecord
           /\ pass'.pc # "out" => phase' = "Running"
           /\ pass'.stamp \in {pass.stamp, Millis, 0}
           /\ pass'.pc = "dst" =>
                /\ pass'.i \in Pairs
                /\ pass'.want = cache[Src(pass'.i)].v /\ pass'.want # NoField
           /\ \/ oblig' = oblig
              \/ /\ pass.pc = "dst" /\ pass.i \in Pairs
                 /\ oblig' = oblig \cup {[i |-> pass.i, v |-> pass.want, at |-> pass.stamp]}
<1>0. /\ pass \in PassRecord
      /\ pass.pc = "dst" => pass.i \in Pairs
      /\ pass.pc # "out" => phase = "Running"
      /\ pass.i \in Nat /\ (pass.i \in Pairs <=> pass.i < N)
      /\ clock \in 0 .. MaxRounds
  BY ArmConstants DEF TypeOK, PassRecord, Pairs, HostTypeOK, ClusterTypeOK
<1>1. CASE BeginPass
  <2>1. pass' = [pc |-> "src", i |-> 0, want |-> NoField, stamp |-> Millis, wrote |-> FALSE]
    BY <1>1 DEF BeginPass, NoPass
  <2>2. pass' \in PassRecord
    BY <1>0, <2>1, ArmConstants, MillisFacts DEF PassRecord
  <2>. QED BY <1>1, <2>1, <2>2 DEF BeginPass, hostVars
<1>2. CASE ReadSource
  <2>0. pass.i \in Pairs /\ pass.i < N
    BY <1>0, <1>2, ArmConstants DEF ReadSource
  <2>1. CASE cache[Src(pass.i)].there /\ cache[Src(pass.i)].v # NoField
    <3>1. pass' = [pass EXCEPT !.pc = "dst", !.want = cache[Src(pass.i)].v]
      BY <1>2, <2>1 DEF ReadSource
    <3>2. cache[Src(pass.i)].v \in Values
      <4>1. cache[Src(pass.i)] \in Object
        BY <2>0, PairKeys DEF TypeOK, HostTypeOK, ClusterTypeOK
      <4>. QED BY <2>1, <4>1 DEF Object
    <3>3. pass' \in PassRecord /\ pass'.i = pass.i /\ pass'.stamp = pass.stamp
          /\ pass'.want = cache[Src(pass.i)].v
      BY <1>0, <3>1, <3>2 DEF PassRecord
    <3>. QED BY <1>0, <1>2, <2>0, <2>1, <3>3 DEF ReadSource, hostVars
  <2>2. CASE ~(cache[Src(pass.i)].there /\ cache[Src(pass.i)].v # NoField)
    <3>1. pass' = NextPair
      BY <1>2, <2>2 DEF ReadSource
    <3>. QED BY <1>0, <1>2, <2>0, <3>1, PassMoves DEF ReadSource, hostVars
  <2>. QED BY <2>1, <2>2
<1>3. CASE ReadDestination
  <2>1. pass.i \in Pairs /\ pass' \in {NextPair, [NextPair EXCEPT !.wrote = TRUE]}
    BY <1>0, <1>3 DEF ReadDestination
  <2>2. pass' \in PassRecord /\ pass'.pc = "src" /\ pass'.stamp = pass.stamp
    BY <1>0, <2>1, PassMoves
  <2>. QED BY <1>0, <1>3, <2>1, <2>2 DEF ReadDestination
<1>4. CASE Unknown
  <2>1. pass.i < N /\ pass' = NextPair
    BY <1>0, <1>4, ArmConstants DEF Unknown
  <2>. QED BY <1>0, <1>4, <2>1, PassMoves DEF Unknown
<1>5. CASE EndPass
  <2>1. pass' = [pc |-> "out", i |-> 0, want |-> NoField, stamp |-> 0, wrote |-> FALSE]
    BY <1>5 DEF EndPass, NoPass
  <2>2. pass' \in PassRecord
    BY <1>0, <2>1, ArmConstants, ClusterConstants DEF PassRecord
  <2>. QED BY <1>5, <2>1, <2>2 DEF EndPass
<1>. QED BY <1>1, <1>2, <1>3, <1>4, <1>5 DEF Step

\* Every step keeps the types.
LEMMA TypeStep ==
    ASSUME TypeOK, [Next]_vars
    PROVE  TypeOK'
<1>1. ClusterTypeOK'
  BY ArmIsCluster, ClusterTypeStep DEF TypeOK, HostTypeOK
<1>2. CASE Step
  <2>1. oblig' \in SUBSET Obligation
    <3>1. pass.pc = "dst" => [i |-> pass.i, v |-> pass.want, at |-> pass.stamp] \in Obligation
      BY DEF TypeOK, Obligation
    <3>. QED BY <1>2, <3>1, PassStep DEF TypeOK, HostTypeOK
  <2>2. pass'.pc = "dst" => pass'.want \in Values /\ pass'.i \in Pairs
    BY <1>2, PassStep DEF PassRecord
  <2>. QED BY <1>1, <1>2, <2>1, <2>2, StepIsQuiet, PassStep DEF TypeOK, HostTypeOK, PassRecord
<1>3. CASE Host
  BY <1>1, <1>3, HostStep DEF TypeOK, HostTypeOK
<1>4. CASE HarnessStep \/ UNCHANGED vars
  BY <1>1, <1>4 DEF HarnessStep, hostVars, vars, TypeOK, HostTypeOK
<1>. QED BY <1>2, <1>3, <1>4 DEF Next

-----------------------------------------------------------------------------
(***************************************************************************)
(* Where every value comes from.                                           *)
(***************************************************************************)

\* Every step keeps PassInv and ObligInv.
LEMMA ValueStep ==
    ASSUME IInv, [Next]_vars
    PROVE  PassInv' /\ ObligInv'
<1>0. /\ TypeOK /\ ClusterInv /\ ClusterTypeOK
      /\ \A i \in Pairs : held[i] \subseteq held'[i]
      /\ clock =< clock' /\ clock \in Nat /\ clock' \in Nat
  BY ArmIsCluster, ClusterGrows, ClusterTypeStep, ClusterConstants
     DEF IInv, ClusterInv, Grows, ClusterTypeOK
<1>1. \A r \in oblig : r.i \in Pairs /\ r.at \in Nat /\ r.v \in held'[r.i] /\ r.at =< clock'
  BY <1>0, ClusterConstants DEF IInv, ObligInv, TypeOK, HostTypeOK, Obligation
<1>2. pass.stamp \in Nat /\ pass.stamp =< clock
  BY <1>0, ClusterConstants DEF IInv, PassInv, TypeOK
<1>3. CASE Step
  <2>1. UNCHANGED <<held, clock>>
    BY <1>0, <1>3, StepIsQuiet DEF clusterVars
  <2>2. pass'.stamp =< clock'
    BY <1>0, <1>2, <1>3, <2>1, PassStep, MillisFacts DEF ClusterTypeOK
  <2>3. pass'.pc = "dst" => pass'.want \in held'[pass'.i]
    BY <1>0, <1>3, <2>1, PassStep, CacheIsOldest
  <2>4. \A r \in oblig' : r.v \in held'[r.i] /\ r.at =< clock'
    BY <1>0, <1>1, <1>2, <1>3, <2>1, PassStep DEF IInv, PassInv
  <2>. QED BY <2>2, <2>3, <2>4 DEF PassInv, ObligInv
<1>4. CASE Host \/ HarnessStep \/ UNCHANGED vars
  <2>1. pass' = pass /\ oblig' \subseteq oblig
    BY <1>0, <1>4, HostStep DEF HarnessStep, hostVars, vars
  <2>2. pass.pc = "dst" => pass.want \in held'[pass.i]
    BY <1>0 DEF IInv, PassInv, TypeOK
  <2>. QED BY <1>0, <1>1, <1>2, <2>1, <2>2 DEF PassInv, ObligInv
<1>. QED BY <1>3, <1>4 DEF Next

\* IInv holds in every reachable state.
THEOREM InductiveInvariant == Spec => []IInv
<1>1. Init => IInv
  <2>. SUFFICES ASSUME Init PROVE IInv
    OBVIOUS
  <2>1. ClusterInit /\ HostTypeOK /\ ClusterInv
    BY HostInitType, ClusterInvInit DEF Init, HostInit
  <2>2. pass = [pc |-> "out", i |-> 0, want |-> NoField, stamp |-> 0, wrote |-> FALSE]
    BY DEF Init, NoPass
  <2>3. TypeOK
    BY <2>1, <2>2, ClusterConstants DEF TypeOK
  <2>4. PassInv /\ ObligInv
    BY <2>1, <2>2 DEF Init, HostInit, ClusterInit, PassInv, ObligInv
  <2>. QED BY <2>1, <2>3, <2>4 DEF IInv
<1>2. IInv /\ [Next]_vars => IInv'
  BY ArmIsCluster, ClusterInvStep, TypeStep, ValueStep DEF IInv
<1>. QED BY <1>1, <1>2, PTL DEF Spec

\* Every state of the program and its host is well typed.
THEOREM TypeCorrect == Spec => []TypeOK
<1>1. IInv => TypeOK
  BY DEF IInv
<1>. QED BY <1>1, InductiveInvariant, PTL

\* Arm B2 does nothing to any relay pair but what RelayPromise allows, although
\* one pass looks at them at different times under one stamp.
THEOREM ImplementsPromise == Spec => KeepsPromise
<1>1. Init => Promise!Init
  BY PromiseInit DEF Init, HostInit
<1>2. IInv /\ [Next]_vars => [Promise!Next]_(Promise!promiseVars)
  BY ArmIsCluster, PromiseStep DEF IInv, ClusterInv, ObligInv
<1>. QED BY <1>1, <1>2, InductiveInvariant, PTL DEF Spec, KeepsPromise, Promise!Spec

-----------------------------------------------------------------------------
(***************************************************************************)
(* Parking.                                                                *)
(***************************************************************************)

\* The resume looks at the host's store and at nothing else.
LEMMA ResumeIsLocal ==
    ASSUME UNCHANGED cache
    PROVE  ResumeHolds' = ResumeHolds
<1>1. ASSUME NEW side PROVE Listed(side)' = Listed(side)
  BY DEF Listed
<1>2. ASSUME NEW side, NEW i PROVE Position(side, i)' = Position(side, i)
  BY <1>1 DEF Position
<1>3. ASSUME NEW side PROVE Fields(side)' = Fields(side)
  BY <1>1, <1>2 DEF Fields
<1>. QED BY <1>3 DEF ResumeHolds

\* A relist that notifies about nothing lists nothing, and two empty
\* collections compare equal.
LEMMA SilentRelist ==
    ASSUME ClusterTypeOK, Relist, Relisted \cap Keys = {}
    PROVE  ~ResumeHolds'
<1>1. \A k \in Keys : ~cache'[k].there
  BY DEF Relist, Relisted
<1>2. Listed("src")' = {} /\ Listed("dst")' = {}
  BY <1>1 DEF Listed, Keys
<1>3. Fields("src")' = {} /\ Fields("dst")' = {}
  BY <1>2 DEF Fields
<1>. QED BY <1>3 DEF ResumeHolds

\* What changes the host's store hints to a parked program, and a hint is only
\* taken by evaluating the resume, or by waking.
LEMMA WakeStep ==
    ASSUME IInv, NoLostWake, [Next]_vars
    PROVE  NoLostWake'
<1>. SUFFICES ASSUME phase' = "Parked", ResumeHolds' PROVE hint'
  BY DEF NoLostWake
<1>0. TypeOK /\ ClusterTypeOK
  BY DEF IInv, ClusterInv
<1>1. CASE UNCHANGED <<cache, phase, hint>>
  BY <1>1, ResumeIsLocal DEF NoLostWake
<1>2. CASE Step
  BY <1>0, <1>2, StepIsQuiet
<1>3. CASE HostDeliver(Keys)
  <2>1. Head(watch).key \in Keys
    BY <1>0, <1>3, HeadType DEF HostDeliver, DeliverEvent, ClusterTypeOK
  <2>. QED BY <1>3, <2>1 DEF HostDeliver, Subscribed
<1>4. CASE HostRelist(Keys)
  <2>1. Relisted \cap Keys # {}
    BY <1>0, <1>4, SilentRelist DEF HostRelist
  <2>. QED BY <1>4, <2>1 DEF HostRelist, Subscribed
<1>5. ASSUME NEW r \in oblig, Perform(r) \/ Refuse(r) \/ Drop(r)
      PROVE  UNCHANGED <<cache, phase, hint>>
  BY <1>5 DEF Perform, Refuse, Drop, clusterVars
<1>6. CASE ParkCheck(ResumeHolds) \/ WakeByIndex(ResumeHolds)
  <2>1. ResumeHolds
    BY <1>6, ResumeIsLocal DEF ParkCheck, WakeByIndex, clusterVars
  <2>. QED BY <1>6, <2>1 DEF ParkCheck, WakeByIndex, Awake
<1>7. CASE WakeByPoll(ResumeHolds) \/ Backstop
  BY <1>7 DEF WakeByPoll, Backstop, Awake
<1>8. CASE HarnessStep \/ UNCHANGED vars
  <2>1. Harness => cache' = cache
    BY DEF Harness, CreateFixture, DeleteFixture, StartRound, WriteSource
  <2>2. UNCHANGED <<cache, phase, hint>>
    BY <1>8, <2>1 DEF HarnessStep, hostVars, vars
  <2>. QED BY <1>1, <2>2
<1>. QED BY <1>1, <1>2, <1>3, <1>4, <1>5, <1>6, <1>7, <1>8 DEF Next, Host

\* No change to any of the pairs is slept through: while the resume of the
\* parked program holds, a hint waits in its channel.
THEOREM NoWakeIsLost == Spec => []NoLostWake
<1>1. Init => NoLostWake
  BY DEF Init, HostInit, NoLostWake
<1>2. IInv /\ NoLostWake /\ [Next]_vars => NoLostWake'
  BY WakeStep
<1>. QED BY <1>1, <1>2, InductiveInvariant, PTL DEF Spec
=============================================================================
