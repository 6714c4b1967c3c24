------------------------ MODULE PerseidRelay_proofs ------------------------
(***************************************************************************)
(* What arm B guarantees on every host and for every number of pairs, of   *)
(* rounds, of deletes and of hiccups: typing, StampDatesItsValue,          *)
(* TerminatedMeansDeleted, NoLostWake, and that the program implements     *)
(* RelayPromise.                                                           *)
(*                                                                         *)
(* The invariants say where a value is from while it travels from the      *)
(* host's store through a pass into an obligation (PassInv, ObligInv, on   *)
(* top of ClusterInv), that no object is missing before somebody deletes   *)
(* it (StandingInv), and that what is missing carries nothing         *)
(* (BareInv), without which a relist could change what the resume compares *)
(* and notify nobody.                                                      *)
(***************************************************************************)
EXTENDS PerseidRelay, Cluster_proofs

\* What a pass wants is something its source has held.
PassInv == pass.pc \in {"dst", "dstObj"} => pass.want \in held[Mine]

\* An obligation is about the program's own pair, and stays dated however
\* late it is serviced.
ObligInv == AllDated(oblig) /\ \A r \in oblig : r.i = Mine

IInv ==
    /\ TypeOK
    /\ ClusterInv
    /\ StandingInv
    /\ PassInv
    /\ ObligInv
    /\ DestinationsInv

-----------------------------------------------------------------------------
(***************************************************************************)
(* The arm and the cluster.                                                *)
(***************************************************************************)

\* The bound on failures is a number, and the program's own pair is one of the pairs.
LEMMA ArmConstants == MaxHiccups \in Nat /\ Mine \in Pairs
BY HostAssumption, ProgramAssumption

\* The program starts Running, on a typed host.
LEMMA HostInitType ==
    ASSUME HostInit
    PROVE  HostTypeOK
<1>1. ClusterTypeOK
  BY ClusterInitFacts DEF HostInit
<1>2. hint \in BOOLEAN /\ phase = "Running"
  BY DEF HostInit
<1>3. oblig \in SUBSET Obligation
  BY DEF HostInit
<1>4. hiccups \in 0 .. MaxHiccups
  BY ArmConstants DEF HostInit
<1>. QED BY <1>1, <1>2, <1>3, <1>4 DEF HostTypeOK

\* A step of the program looks at the cluster and leaves it alone; whether it
\* ends the pass or not it is a Running program's.
LEMMA StepIsQuiet ==
    ASSUME TypeOK, Step
    PROVE  /\ phase = "Running" /\ phase' \in {"Running", "Parking", "Terminated"}
           /\ hint' = hint /\ host' = host
           /\ hiccups' \in {hiccups} \cup {h \in {hiccups + 1} : hiccups < MaxHiccups}
           /\ UNCHANGED clusterVars
<1>. USE DEF TypeOK, WantsNext, Decide, Yield, clusterVars
<1>1. CASE BeginPass
  BY <1>1 DEF BeginPass, hostVars
<1>2. CASE ReadSourceField
  BY <1>2 DEF ReadSourceField
<1>3. CASE ReadSourceObject
  BY <1>3 DEF ReadSourceObject
<1>4. CASE ReadDestinationField
  BY <1>4 DEF ReadDestinationField
<1>5. CASE ReadDestinationObject
  BY <1>5 DEF ReadDestinationObject
<1>6. CASE Unknown
  BY <1>6 DEF Unknown, Hiccup
<1>. QED BY <1>1, <1>2, <1>3, <1>4, <1>5, <1>6 DEF Step

\* To the cluster, a step of the arm is one of the harness, of the informer,
\* or an obligation serviced.
LEMMA ArmIsCluster ==
    ASSUME TypeOK, [Next]_vars
    PROVE  oblig \in SUBSET Patches /\ ClusterStep(oblig)
<1>. USE DEF ClusterStep
<1>1. oblig \in SUBSET Patches
  BY DEF TypeOK, HostTypeOK, Obligation, Patches
<1>2. CASE HarnessStep
  BY <1>1, <1>2 DEF HarnessStep
<1>3. CASE Step
  BY <1>1, <1>3, StepIsQuiet
<1>4. CASE HostDeliver(Watched) \/ HostRelist(Watched)
  BY <1>1, <1>4 DEF HostDeliver, HostRelist
<1>5. ASSUME NEW r \in oblig, Perform(r) \/ Refuse(r) \/ Drop(r) PROVE ClusterStep(oblig)
  <2>1. Perform(r) => PatchLands(r)
    BY DEF Perform, PatchLands
  <2>. QED BY <1>5, <2>1 DEF Refuse, Drop
<1>6. CASE ParkCheck(ResumeHolds) \/ WakeByIndex(ResumeHolds) \/ WakeByPoll(ResumeHolds)
           \/ Backstop
  BY <1>1, <1>6 DEF ParkCheck, WakeByIndex, WakeByPoll, Backstop
<1>7. CASE UNCHANGED vars
  BY <1>1, <1>7 DEF vars, clusterVars
<1>. QED BY <1>1, <1>2, <1>3, <1>4, <1>5, <1>6, <1>7 DEF Next, Host

\* What the host's store holds of the pair is typed.
LEMMA StoreOfMine ==
    ASSUME TypeOK
    PROVE  /\ Src(Mine) \in Keys /\ Dst(Mine) \in Keys
           /\ cache[Src(Mine)] \in Object /\ cache[Dst(Mine)] \in Object
           /\ cache[Src(Mine)].v \in Values \cup {NoField}
           /\ cache[Dst(Mine)].v \in Values \cup {NoField}
BY ArmConstants, PairKeys DEF TypeOK, HostTypeOK, ClusterTypeOK, Object

-----------------------------------------------------------------------------
(***************************************************************************)
(* A pass.                                                                 *)
(***************************************************************************)

PassRecord == [pc: {"out", "src", "srcObj", "dst", "dstObj"}, want: Values \cup {NoField}]

\* A step of the program ends its pass; or moves it, with a value in hand that
\* it had already or is in the store; or declares one obligation, for its own
\* pair, of the value it had, dated now.
LEMMA PassStep ==
    ASSUME TypeOK, Step
    PROVE  /\ pass' \in PassRecord
           /\ pass'.pc # "out" => phase' = "Running" /\ host.configured
           /\ pass'.pc \in {"dst", "dstObj"} =>
                \/ pass.pc \in {"dst", "dstObj"} /\ pass'.want = pass.want
                \/ cache[Src(Mine)].v # NoField /\ pass'.want = cache[Src(Mine)].v
           /\ \/ oblig' = oblig
              \/ /\ pass.pc \in {"dst", "dstObj"}
                 /\ oblig' = oblig \cup {[i |-> Mine, v |-> pass.want, at |-> Millis]}
<1>. USE DEF TypeOK, PassRecord
<1>0. /\ NoPass \in PassRecord /\ NoPass.pc = "out"
      /\ \A v \in Values \cup {NoField} : \A pc \in {"srcObj", "dst", "dstObj"} :
           [pc |-> pc, want |-> v] \in PassRecord
  BY DEF NoPass
<1>1. CASE BeginPass
  BY <1>0, <1>1 DEF BeginPass, hostVars
<1>2. CASE ReadSourceField
  <2>1. CASE Narrowed(cache[Src(Mine)]) # NoField
    <3>1. Narrowed(cache[Src(Mine)]) = cache[Src(Mine)].v
      BY <2>1 DEF Narrowed
    <3>2. WantsNext(cache[Src(Mine)].v, "dst") /\ host.configured /\ phase = "Running"
      BY <1>2, <2>1, <3>1 DEF ReadSourceField
    <3>. QED BY <1>0, <2>1, <3>1, <3>2, StoreOfMine DEF WantsNext
  <2>2. CASE Narrowed(cache[Src(Mine)]) = NoField
    <3>1. WantsNext(NoField, "srcObj") /\ host.configured /\ phase = "Running"
      BY <1>2, <2>2 DEF ReadSourceField
    <3>. QED BY <1>0, <3>1 DEF WantsNext
  <2>. QED BY <2>1, <2>2
<1>3. CASE ReadSourceObject
  BY <1>0, <1>3, StoreOfMine DEF ReadSourceObject, WantsNext, Yield
<1>4. CASE ReadDestinationField
  BY <1>0, <1>4 DEF ReadDestinationField, WantsNext, Decide
<1>5. CASE ReadDestinationObject
  BY <1>0, <1>5 DEF ReadDestinationObject, Decide
<1>6. CASE Unknown
  BY <1>0, <1>6 DEF Unknown, Yield, Decide
<1>. QED BY <1>1, <1>2, <1>3, <1>4, <1>5, <1>6 DEF Step

\* The host adds no obligation, leaves a pass in progress alone, and parks,
\* wakes and hints within their types.
LEMMA HostStep ==
    ASSUME TypeOK, Host
    PROVE  /\ UNCHANGED <<pass, host>>
           /\ oblig' \subseteq oblig
           /\ phase' \in {"Running", "Parking", "Parked", "Terminated"}
           /\ phase = "Running" => phase' = "Running"
           /\ phase' = "Terminated" => phase = "Terminated"
           /\ hint' \in BOOLEAN
           /\ hiccups' \in 0 .. MaxHiccups
<1>. USE DEF TypeOK, HostTypeOK
<1>0. UNCHANGED <<pass, host>>
  BY DEF Host
<1>1. CASE HostDeliver(Watched)
  BY <1>0, <1>1 DEF HostDeliver
<1>2. CASE HostRelist(Watched)
  BY <1>0, <1>2, ArmConstants DEF HostRelist, Hiccup
<1>3. ASSUME NEW r \in oblig, Perform(r) \/ Refuse(r)
      PROVE  UNCHANGED <<phase, hint, hiccups>> /\ oblig' \subseteq oblig
  BY <1>3 DEF Perform, Refuse
<1>4. ASSUME NEW r \in oblig, Drop(r)
      PROVE  UNCHANGED <<phase, hint>> /\ oblig' \subseteq oblig /\ hiccups' \in 0 .. MaxHiccups
  BY <1>4, ArmConstants DEF Drop, Hiccup
<1>5. CASE ParkCheck(ResumeHolds)
  BY <1>0, <1>5 DEF ParkCheck, Awake
<1>6. CASE WakeByIndex(ResumeHolds)
  BY <1>0, <1>6 DEF WakeByIndex, Awake
<1>7. CASE WakeByPoll(ResumeHolds) \/ Backstop
  BY <1>0, <1>7 DEF WakeByPoll, Backstop, Awake
<1>. QED BY <1>0, <1>1, <1>2, <1>3, <1>4, <1>5, <1>6, <1>7 DEF Host

\* Every step keeps the types.
LEMMA TypeStep ==
    ASSUME TypeOK, ClusterInv, PassInv, [Next]_vars
    PROVE  TypeOK'
<1>1. ClusterTypeOK'
  BY ArmIsCluster, ClusterTypeStep DEF TypeOK, HostTypeOK
<1>2. CASE Step
  <2>1. hiccups' \in 0 .. MaxHiccups
    BY <1>2, StepIsQuiet, ArmConstants DEF TypeOK, HostTypeOK
  <2>2. oblig' \in SUBSET Obligation
    <3>1. pass.pc \in {"dst", "dstObj"} =>
            [i |-> Mine, v |-> pass.want, at |-> Millis] \in Obligation
      BY ArmConstants, MillisFacts DEF TypeOK, HostTypeOK, ClusterTypeOK, Obligation
    <3>. QED BY <1>2, <3>1, PassStep DEF TypeOK, HostTypeOK
  <2>3. pass'.pc \in {"dst", "dstObj"} => pass'.want \in Values
    BY <1>2, PassStep, StoreOfMine DEF TypeOK
  <2>. QED BY <1>1, <1>2, <2>1, <2>2, <2>3, StepIsQuiet, PassStep
           DEF TypeOK, HostTypeOK, PassRecord
<1>3. CASE Host
  BY <1>1, <1>3, HostStep DEF TypeOK, HostTypeOK
<1>4. CASE HarnessStep \/ UNCHANGED vars
  BY <1>1, <1>4 DEF HarnessStep, hostVars, vars, TypeOK, HostTypeOK
<1>. QED BY <1>2, <1>3, <1>4 DEF Next

-----------------------------------------------------------------------------
(***************************************************************************)
(* Where every value comes from.                                           *)
(***************************************************************************)

\* Every step keeps PassInv and ObligInv.
LEMMA ValueStep ==
    ASSUME IInv, [Next]_vars
    PROVE  PassInv' /\ ObligInv'
<1>0. /\ TypeOK /\ ClusterInv /\ ClusterTypeOK /\ Mine \in Pairs
      /\ oblig \in SUBSET Patches /\ ClusterStep(oblig)
      /\ held[Mine] \subseteq held'[Mine]
  BY ArmConstants, ArmIsCluster, ClusterGrows DEF IInv, ClusterInv, Grows
<1>1. \A r \in oblig : r.i = Mine /\ Dated(r.v, r.at, held'[r.i], clock')
  BY <1>0, AllDatedGrows DEF IInv, ObligInv
<1>2. CASE Step
  <2>1. UNCHANGED <<held, clock>>
    BY <1>0, <1>2, StepIsQuiet DEF clusterVars
  <2>2. PassInv'
    BY <1>0, <1>2, <2>1, PassStep, CacheIsOldest DEF IInv, PassInv
  <2>3. ASSUME pass.pc \in {"dst", "dstObj"}
        PROVE  Dated(pass.want, Millis, held[Mine], clock)
    <3>1. pass.want \in held[Mine] /\ held[Mine] \subseteq 1 .. clock /\ clock \in Nat
      BY <1>0, <2>3, ClusterConstants
         DEF IInv, PassInv, ClusterInv, HeldInv, ClusterTypeOK
    <3>2. Millis \in After(pass.want)
      BY <1>0, <3>1, MillisAfter DEF ClusterTypeOK
    <3>. QED BY <3>1, <3>2 DEF Dated, After
  <2>4. \A r \in oblig' : r.i = Mine /\ Dated(r.v, r.at, held'[r.i], clock')
    BY <1>0, <1>1, <1>2, <2>1, <2>3, PassStep
  <2>. QED BY <2>2, <2>4 DEF ObligInv, AllDated
<1>3. CASE Host \/ HarnessStep \/ UNCHANGED vars
  <2>1. pass' = pass /\ oblig' \subseteq oblig
    BY <1>0, <1>3, HostStep DEF HarnessStep, hostVars, vars
  <2>. QED BY <1>0, <1>1, <2>1 DEF IInv, PassInv, ObligInv, AllDated
<1>. QED BY <1>2, <1>3 DEF Next

\* Every step keeps IInv.
LEMMA IInvStep ==
    ASSUME IInv, [Next]_vars
    PROVE  IInv'
<1>1. TypeOK /\ ClusterInv /\ ClusterTypeOK /\ AllDated(oblig)
      /\ oblig \in SUBSET Patches /\ ClusterStep(oblig)
  BY ArmIsCluster DEF IInv, ClusterInv, ObligInv
<1>2. ClusterInv' /\ StandingInv' /\ DestinationsInv'
  BY <1>1, ClusterInvStep, StandingStep, DestinationsStep DEF IInv
<1>. QED BY <1>2, TypeStep, ValueStep DEF IInv

\* IInv holds in every reachable state.
THEOREM InductiveInvariant == Spec => []IInv
<1>1. Init => IInv
  <2>. SUFFICES ASSUME Init PROVE IInv
    OBVIOUS
  <2>1. ClusterInit
    BY DEF Init, HostInit
  <2>2. TypeOK
    <3>1. HostTypeOK
      BY <2>1, HostInitType DEF Init
    <3>2. pass = [pc |-> "out", want |-> NoField]
      BY DEF Init, NoPass
    <3>3. host \in [configured: BOOLEAN, narrows: BOOLEAN, wakes: {"index", "poll"}]
      BY DEF Init
    <3>. QED BY <3>1, <3>2, <3>3 DEF TypeOK
  <2>3. StandingInv
    BY <2>1, ClusterInitFacts DEF Init, StandingInv, Standing, At, Copy
  <2>4. PassInv /\ ObligInv
    BY DEF Init, HostInit, NoPass, PassInv, ObligInv, AllDated
  <2>. QED BY <2>1, <2>2, <2>3, <2>4, ClusterInvInit, PromiseInit DEF IInv
<1>2. IInv /\ [Next]_vars => IInv'
  BY IInvStep
<1>. QED BY <1>1, <1>2, PTL DEF Spec

\* Every state of the program and its host is well typed.
THEOREM TypeCorrect == Spec => []TypeOK
<1>1. IInv => TypeOK
  BY DEF IInv
<1>. QED BY <1>1, InductiveInvariant, PTL

\* The destination never shows a value beside another value's stamp, nor a
\* stamp from the future or from a millisecond or more before the value,
\* however late and in whatever order the host services what was declared.
THEOREM StampsAreRight == Spec => []StampDatesItsValue
<1>1. IInv => StampDatesItsValue
  BY GoodIsDated, ArmConstants DEF IInv, ClusterInv, DestinationsInv, StampDatesItsValue
<1>. QED BY <1>1, InductiveInvariant, PTL

\* Arm B does nothing to the relay pairs but what RelayPromise allows.
THEOREM ImplementsPromise == Spec => KeepsPromise
<1>1. Init => Promise!Init
  BY PromiseInit DEF Init, HostInit
<1>2. IInv /\ [Next]_vars => [Promise!Next]_(Promise!promiseVars)
  <2>. SUFFICES ASSUME IInv, [Next]_vars PROVE [Promise!Next]_(Promise!promiseVars)
    OBVIOUS
  <2>1. oblig \in SUBSET Patches /\ ClusterStep(oblig) /\ ClusterTypeOK
    BY ArmIsCluster DEF IInv, ClusterInv
  <2>2. \A r \in oblig : r.v \in held[r.i] /\ r.at =< clock
    BY DEF IInv, ObligInv, AllDated, Dated
  <2>. QED BY <2>1, <2>2, PromiseStep
<1>. QED BY <1>1, <1>2, InductiveInvariant, PTL DEF Spec, KeepsPromise, Promise!Spec

-----------------------------------------------------------------------------
(***************************************************************************)
(* Parking and terminating.                                                *)
(***************************************************************************)

\* An object that is gone from the apiserver carries no value.
LEMMA GoneIsBare ==
    ASSUME ClusterInv, NEW k \in Keys, ~obj[k].there
    PROVE  obj[k].v = NoField
<1>1. Bare(obj[k])
  BY CopyEnds DEF ClusterInv, BareInv
<1>. QED BY <1>1 DEF Bare, NoObject

\* An object missing from the host's store has been deleted.
LEMMA MissingIsDeleted ==
    ASSUME ClusterTypeOK, StandingInv, NEW k \in Keys, ~cache[k].there
    PROVE  Deleted(k)
BY CopyEnds DEF StandingInv, Standing

\* Only the second look at the source terminates, when it finds none there.
LEMMA TerminatedStep ==
    ASSUME IInv, TerminatedMeansDeleted, [Next]_vars
    PROVE  TerminatedMeansDeleted'
<1>. SUFFICES ASSUME phase' = "Terminated" PROVE Deleted(Src(Mine))'
  BY DEF TerminatedMeansDeleted
<1>0. TypeOK /\ ClusterInv /\ ClusterTypeOK /\ ClusterTypeOK'
  BY IInvStep DEF IInv, ClusterInv
<1>1. Deleted(Src(Mine)) => Deleted(Src(Mine))'
  <2>1. \A k \in Keys : Deleted(k) => Deleted(k)'
    BY <1>0, ArmIsCluster, ClusterGrows DEF Grows
  <2>. QED BY <1>0, <2>1, StoreOfMine DEF Deleted, Src
<1>2. CASE phase = "Terminated"
  BY <1>1, <1>2 DEF TerminatedMeansDeleted
<1>3. CASE phase # "Terminated"
  <2>1. Step
    BY <1>0, <1>3, HostStep DEF Next, HarnessStep, hostVars, vars
  <2>2. phase = "Running"
    BY <1>0, <2>1, StepIsQuiet
  <2>3. ReadSourceObject /\ ~cache[Src(Mine)].there
    BY <2>1, <2>2 DEF Step, BeginPass, hostVars, ReadSourceField, ReadSourceObject,
                      ReadDestinationField, ReadDestinationObject, Unknown,
                      WantsNext, Decide, Yield
  <2>4. Deleted(Src(Mine))
    BY <1>0, <2>3, StoreOfMine, MissingIsDeleted DEF IInv
  <2>. QED BY <1>1, <2>4
<1>. QED BY <1>2, <1>3

\* What changes the pair in the host's store hints to a parked program, and a
\* hint is only taken by evaluating the resume, or by waking.
LEMMA WakeStep ==
    ASSUME IInv, NoLostWake, [Next]_vars
    PROVE  NoLostWake'
<1>. SUFFICES ASSUME phase' = "Parked", ResumeHolds' PROVE hint'
  BY DEF NoLostWake
<1>. USE DEF NoLostWake, ResumeHolds
<1>0. TypeOK /\ ClusterInv /\ ClusterTypeOK
      /\ Src(Mine) \in Keys /\ Dst(Mine) \in Keys
      /\ Src(Mine)' = Src(Mine) /\ Dst(Mine)' = Dst(Mine)
  BY ArmConstants, PairKeys DEF IInv, ClusterInv, Src, Dst
<1>1. CASE UNCHANGED <<cache, phase, hint>>
  BY <1>0, <1>1
<1>2. CASE Step
  BY <1>0, <1>2, StepIsQuiet
<1>3. CASE HostDeliver(Watched)
  <2>1. CASE Head(watch).key \in Watched
    BY <1>3, <2>1 DEF HostDeliver, Subscribed
  <2>2. CASE Head(watch).key \notin Watched
    <3>1. cache'[Src(Mine)] = cache[Src(Mine)] /\ cache'[Dst(Mine)] = cache[Dst(Mine)]
      BY <1>0, <1>3, <2>2 DEF HostDeliver, DeliverEvent, Watched, ClusterTypeOK
    <3>. QED BY <1>0, <1>3, <3>1 DEF HostDeliver
  <2>. QED BY <2>1, <2>2
<1>4. CASE HostRelist(Watched)
  <2>1. CASE Relisted \cap Watched # {}
    BY <1>4, <2>1 DEF HostRelist, Subscribed
  <2>2. CASE Relisted \cap Watched = {}
    <3>1. ~obj[Src(Mine)].there /\ ~obj[Dst(Mine)].there
      BY <1>0, <2>2 DEF Relisted, Watched
    <3>2. obj[Src(Mine)].v = obj[Dst(Mine)].v
      BY <1>0, <3>1, GoneIsBare
    <3>. QED BY <1>0, <1>4, <3>2 DEF HostRelist, Relist
  <2>. QED BY <2>1, <2>2
<1>5. ASSUME NEW r \in oblig, Perform(r) \/ Refuse(r) \/ Drop(r)
      PROVE  UNCHANGED <<cache, phase, hint>>
  BY <1>5 DEF Perform, Refuse, Drop, clusterVars
<1>6. CASE ParkCheck(ResumeHolds) \/ WakeByIndex(ResumeHolds)
  BY <1>0, <1>6 DEF ParkCheck, WakeByIndex, Awake, clusterVars
<1>7. CASE WakeByPoll(ResumeHolds) \/ Backstop
  BY <1>7 DEF WakeByPoll, Backstop, Awake
<1>8. CASE HarnessStep \/ UNCHANGED vars
  <2>1. Harness => cache' = cache
    BY DEF Harness, CreateFixture, DeleteFixture, StartRound, WriteSource
  <2>2. UNCHANGED <<cache, phase, hint>>
    BY <1>8, <2>1 DEF HarnessStep, hostVars, vars
  <2>. QED BY <1>1, <2>2
<1>. QED BY <1>1, <1>2, <1>3, <1>4, <1>5, <1>6, <1>7, <1>8 DEF Next, Host

\* A program is terminated only if somebody deleted its own source: an empty
\* source, a destination that is gone, an unknown answer or a host that does not
\* narrow reads never does it.
THEOREM OnlyDeletesTerminate == Spec => []TerminatedMeansDeleted
<1>1. Init => TerminatedMeansDeleted
  BY DEF Init, HostInit, TerminatedMeansDeleted
<1>2. IInv /\ TerminatedMeansDeleted /\ [Next]_vars => TerminatedMeansDeleted'
  BY TerminatedStep
<1>. QED BY <1>1, <1>2, InductiveInvariant, PTL DEF Spec

\* No change of the pair is slept through: while a parked program's resume
\* holds, a hint waits in its channel.
THEOREM NoWakeIsLost == Spec => []NoLostWake
<1>1. Init => NoLostWake
  BY DEF Init, HostInit, NoLostWake
<1>2. IInv /\ NoLostWake /\ [Next]_vars => NoLostWake'
  BY WakeStep
<1>. QED BY <1>1, <1>2, InductiveInvariant, PTL DEF Spec
=============================================================================
