--------------------------- MODULE CRRelay_proofs ---------------------------
(***************************************************************************)
(* What arm A guarantees for every number of pairs, of rounds, of deletes  *)
(* and of hiccups: typing, StampDatesItsValue, OnlyOrphansRegress, and     *)
(* that the manager implements RelayPromise.                               *)
(*                                                                         *)
(* Nothing about a destination can be shown from the destinations alone:   *)
(* the value a PATCH carries comes from the cache, the cache is fed by     *)
(* the watch, and the PATCH may outlive its sender.  The inductive         *)
(* invariants therefore say where every value in flight came from          *)
(* (WorkInv, OrphansInv, on top of ClusterInv) and how old it is beside    *)
(* the others (AgeInv).                                                    *)
(***************************************************************************)
EXTENDS CRRelay, Cluster_proofs

\* The PATCHes that may still land: the worker's own, and the orphans.
InFlight == orphans \cup {r \in {Sent} : work.pc = "wait"}

\* What the worker wants is something its source has held, and what it has
\* sent is dated.
WorkInv ==
    /\ work.pc \in {"dst", "stamp", "wait"} => work.want \in held[work.key[1]]
    /\ work.pc = "wait" => Dated(work.want, work.at, held[work.key[1]], clock)

\* A PATCH that outlives its sender stays dated.
OrphansInv == AllDated(orphans)

IInv ==
    /\ TypeOK
    /\ ClusterInv
    /\ WorkInv
    /\ OrphansInv
    /\ DestinationsInv

-----------------------------------------------------------------------------
(***************************************************************************)
(* The arm and the cluster.                                                *)
(***************************************************************************)

\* The bound on failures is a number.
LEMMA Hiccups == MaxHiccups \in Nat
BY HiccupAssumption

\* What is in flight is a set of PATCHes.
LEMMA InFlightType ==
    ASSUME TypeOK
    PROVE  /\ InFlight \in SUBSET Patches
           /\ work.key[1] \in Pairs
           /\ work.pc = "wait" => Sent \in InFlight /\ Sent \in Request
<1>1. work.key[1] \in Pairs
  BY KeyPair DEF TypeOK
<1>2. work.pc = "wait" => Sent \in Request
  BY <1>1 DEF TypeOK, Sent, Request
<1>. QED BY <1>1, <1>2 DEF InFlight, Request, Patches, TypeOK

\* A landing request of the arm is a landing PATCH of the cluster.
LEMMA LandsIsPatch ==
    ASSUME NEW r, obj[Dst(r.i)].there, Lands(r), UNCHANGED <<cache, clock, next, held, deletes>>
    PROVE  PatchLands(r)
BY DEF Lands, PatchLands

\* To the cluster, a step of the manager writes nothing, or is the worker's
\* PATCH landing, or an orphan landing.
LEMMA ArmSteps ==
    ASSUME TypeOK, [Next]_vars
    PROVE  \/ ClusterStep({})
           \/ work.pc = "wait" /\ PatchLands(Sent)
           \/ \E r \in orphans : OrphanLands(r) /\ PatchLands(r)
<1>. USE DEF ClusterStep
<1>1. CASE HarnessStep
  BY <1>1 DEF HarnessStep
<1>2. CASE PatchSucceeds
  BY <1>2, LandsIsPatch DEF PatchSucceeds, Sent
<1>3. CASE PatchFails
  <2>1. UNCHANGED clusterVars \/ PatchLands(Sent)
    BY <1>3, LandsIsPatch DEF PatchFails, Sent
  <2>. QED BY <1>3, <2>1 DEF PatchFails
<1>4. ASSUME NEW r \in orphans, OrphanLands(r)
      PROVE  ClusterStep({}) \/ (OrphanLands(r) /\ PatchLands(r))
  BY <1>4, LandsIsPatch DEF OrphanLands, clusterVars
<1>5. CASE Deliver \/ WatchLost \/ Restart
  BY <1>5 DEF Deliver, WatchLost, Restart
<1>6. CASE \/ \E k \in Keys : Take(k)
           \/ ReadSource \/ ReadDestination \/ SendPatch \/ PatchNotFound
           \/ Resync \/ UNCHANGED vars
  BY <1>6 DEF Take, ReadSource, ReadDestination, SendPatch, PatchNotFound, Resync,
              clusterVars, vars
<1>. QED BY <1>1, <1>2, <1>3, <1>4, <1>5, <1>6 DEF Next, Reconcile

\* So nothing lands but what was in flight.
LEMMA ArmIsCluster ==
    ASSUME TypeOK, [Next]_vars
    PROVE  ClusterStep(InFlight)
<1>1. work.pc = "wait" => Sent \in InFlight
  BY InFlightType
<1>2. \A r \in orphans : r \in InFlight
  BY DEF InFlight
<1>. QED BY <1>1, <1>2, ArmSteps DEF ClusterStep

-----------------------------------------------------------------------------
(***************************************************************************)
(* Typing.                                                                 *)
(***************************************************************************)

WorkRecord == [pc: {"idle", "src", "dst", "stamp", "wait"}, key: Keys,
               want: Values \cup {NoField}, at: 0 .. MaxRounds]

\* The idle worker is well typed.
LEMMA IdleType == Idle \in WorkRecord /\ Idle.pc = "idle"
<1>1. 0 \in Pairs
  BY ClusterConstants DEF Pairs
<1>2. Src(0) \in Keys
  BY <1>1, PairKeys
<1>. QED BY <1>2, ClusterConstants DEF Idle, WorkRecord

\* A step leaves the worker well typed, with a value wherever it needs one.
LEMMA WorkType ==
    ASSUME TypeOK, [Next]_vars
    PROVE  work' \in WorkRecord /\ (work'.pc \in {"dst", "stamp", "wait"} => work'.want \in Values)
<1>. USE DEF TypeOK, WorkRecord
<1>1. CASE UNCHANGED work
  BY <1>1
<1>2. CASE work' = Idle
  BY <1>2, IdleType
<1>3. ASSUME NEW k \in Keys, Take(k)
      PROVE  work' \in WorkRecord /\ work'.pc = "src"
  BY <1>3, IdleType DEF Take
<1>4. CASE ReadSource
  <2>1. cache[Src(work.key[1])].v \in Values \cup {NoField}
    BY InFlightType, PairKeys DEF ClusterTypeOK, Object
  <2>. QED BY <1>2, <1>4, <2>1 DEF ReadSource
<1>5. CASE ReadDestination
  BY <1>2, <1>5 DEF ReadDestination
<1>6. CASE SendPatch
  BY <1>6, MillisFacts DEF SendPatch, ClusterTypeOK
<1>7. CASE PatchSucceeds \/ PatchNotFound \/ PatchFails \/ Restart
  BY <1>2, <1>7 DEF PatchSucceeds, PatchNotFound, PatchFails, Restart
<1>8. CASE HarnessStep \/ Deliver \/ WatchLost \/ Resync
            \/ (\E r \in orphans : OrphanLands(r)) \/ UNCHANGED vars
  BY <1>1, <1>8 DEF HarnessStep, armVars, Deliver, WatchLost, Resync, OrphanLands, vars
<1>. QED BY <1>3, <1>4, <1>5, <1>6, <1>7, <1>8 DEF Next, Reconcile

\* A PATCH is orphaned only while the worker waits for it.
LEMMA OrphansGrow ==
    ASSUME TypeOK, [Next]_vars
    PROVE  orphans' \subseteq InFlight
<1>1. CASE HarnessStep \/ Deliver \/ WatchLost \/ Resync \/ UNCHANGED vars
           \/ \E r \in orphans : OrphanLands(r)
  BY <1>1 DEF HarnessStep, armVars, Deliver, WatchLost, Resync, vars, OrphanLands, InFlight
<1>2. CASE \/ \E k \in Keys : Take(k)
           \/ ReadSource \/ ReadDestination \/ SendPatch \/ PatchSucceeds \/ PatchNotFound
  BY <1>2 DEF Take, ReadSource, ReadDestination, SendPatch, PatchSucceeds, PatchNotFound,
              InFlight
<1>3. CASE PatchFails \/ Restart
  BY <1>3 DEF PatchFails, Restart, InFlight
<1>. QED BY <1>1, <1>2, <1>3 DEF Next, Reconcile

\* The workqueue holds keys, and the hiccups stay within their bound.
LEMMA QueueType ==
    ASSUME TypeOK, [Next]_vars
    PROVE  dirty' \in SUBSET Keys /\ hiccups' \in 0 .. MaxHiccups
<1>. USE DEF TypeOK
<1>1. CASE Deliver
  <2>1. Head(watch).key \in Keys
    BY <1>1, HeadType DEF Deliver, DeliverEvent, ClusterTypeOK
  <2>. QED BY <1>1, <2>1 DEF Deliver
<1>2. CASE WatchLost \/ Resync \/ Restart
  BY <1>2, Hiccups DEF WatchLost, Resync, Restart, Relisted
<1>3. CASE PatchNotFound \/ PatchFails
  BY <1>3, Hiccups DEF PatchNotFound, PatchFails, Requeue
<1>4. CASE HarnessStep \/ UNCHANGED vars \/ (\E r \in orphans : OrphanLands(r))
  BY <1>4 DEF HarnessStep, armVars, vars, OrphanLands
<1>5. CASE \/ \E k \in Keys : Take(k)
           \/ ReadSource \/ ReadDestination \/ SendPatch \/ PatchSucceeds
  BY <1>5 DEF Take, ReadSource, ReadDestination, SendPatch, PatchSucceeds
<1>. QED BY <1>1, <1>2, <1>3, <1>4, <1>5 DEF Next, Reconcile

\* Every step keeps the types.
LEMMA TypeStep ==
    ASSUME TypeOK, [Next]_vars
    PROVE  TypeOK'
<1>1. ClusterTypeOK'
  BY ArmIsCluster, InFlightType, ClusterTypeStep DEF TypeOK
<1>2. Request = Patches
  BY DEF Request, Patches
<1>3. orphans' \in SUBSET Request
  BY <1>2, OrphansGrow, InFlightType
<1>. QED BY <1>1, <1>3, WorkType, QueueType DEF TypeOK, WorkRecord

\* Every state of the manager is well typed.
THEOREM TypeCorrect == Spec => []TypeOK
<1>1. Init => TypeOK
  BY ClusterInitFacts, IdleType, Hiccups DEF Init, TypeOK, WorkRecord
<1>2. TypeOK /\ [Next]_vars => TypeOK'
  BY TypeStep
<1>. QED BY <1>1, <1>2, PTL DEF Spec

-----------------------------------------------------------------------------
(***************************************************************************)
(* Where every value comes from.                                           *)
(***************************************************************************)

\* Every step keeps what WorkInv says of the value a worker carries.
LEMMA WorkStep ==
    ASSUME TypeOK, ClusterInv, WorkInv, [Next]_vars
    PROVE  WorkInv'
<1>0. /\ TypeOK' /\ Grows /\ work.key[1] \in Pairs /\ work \in WorkRecord
      /\ ClusterTypeOK /\ ClusterTypeOK'
  BY TypeStep, ArmIsCluster, InFlightType, ClusterGrows DEF TypeOK, WorkRecord
<1>1. CASE UNCHANGED work
  <2>1. work.pc \in {"dst", "stamp", "wait"} => work.want \in held'[work.key[1]]
    BY <1>0 DEF WorkInv, Grows
  <2>2. work.pc = "wait" => Dated(work.want, work.at, held'[work.key[1]], clock')
    BY <1>0, <1>1, DatedGrows DEF WorkInv
  <2>. QED BY <1>1, <2>1, <2>2 DEF WorkInv, Dated
<1>2. CASE work' = Idle
  BY <1>2, IdleType DEF WorkInv
<1>3. ASSUME NEW k \in Keys, Take(k) PROVE WorkInv'
  <2>1. work'.pc = "src"
    BY <1>3, IdleType DEF Take, WorkRecord
  <2>. QED BY <2>1 DEF WorkInv
<1>4. CASE ReadSource
  <2>1. CASE work' = [work EXCEPT !.pc = "dst", !.want = cache[Src(work.key[1])].v]
             /\ cache[Src(work.key[1])].v # NoField
    <3>1. work'.pc = "dst" /\ work'.key = work.key
          /\ work'.want = cache[Src(work.key[1])].v
      BY <1>0, <2>1 DEF WorkRecord
    <3>2. cache[Src(work.key[1])].v \in held[work.key[1]]
      BY <1>0, <2>1, CacheIsOldest
    <3>. QED BY <1>0, <3>1, <3>2 DEF WorkInv, Grows
  <2>. QED BY <1>2, <1>4, <2>1 DEF ReadSource
<1>5. CASE ReadDestination
  <2>1. CASE work' = [work EXCEPT !.pc = "stamp"]
    <3>1. work'.pc = "stamp" /\ work'.key = work.key /\ work'.want = work.want
      BY <1>0, <2>1 DEF WorkRecord
    <3>2. work.want \in held[work.key[1]]
      BY <1>5 DEF ReadDestination, WorkInv
    <3>. QED BY <1>0, <3>1, <3>2 DEF WorkInv, Grows
  <2>. QED BY <1>2, <1>5, <2>1 DEF ReadDestination
<1>6. CASE SendPatch
  <2>1. work'.pc = "wait" /\ work'.key = work.key /\ work'.want = work.want
        /\ work'.at = Millis /\ clock' = clock /\ held' = held
    BY <1>0, <1>6 DEF SendPatch, WorkRecord, clusterVars
  <2>2. work.want \in held[work.key[1]]
    BY <1>6 DEF SendPatch, WorkInv
  <2>3. work.want \in 1 .. clock
    BY <1>0, <2>2 DEF ClusterInv, HeldInv
  <2>4. Millis \in work.want - (Milli - 1) .. clock
    BY <1>0, <2>3, MillisAfter DEF ClusterTypeOK, After
  <2>. QED BY <2>1, <2>2, <2>4 DEF WorkInv, Dated
<1>7. CASE HarnessStep \/ Deliver \/ WatchLost \/ Resync
            \/ (\E r \in orphans : OrphanLands(r)) \/ UNCHANGED vars
  BY <1>1, <1>7 DEF HarnessStep, armVars, Deliver, WatchLost, Resync, OrphanLands, vars
<1>8. CASE PatchSucceeds \/ PatchNotFound \/ PatchFails \/ Restart
  BY <1>2, <1>8 DEF PatchSucceeds, PatchNotFound, PatchFails, Restart
<1>. QED BY <1>3, <1>4, <1>5, <1>6, <1>7, <1>8 DEF Next, Reconcile

\* What is in flight is dated.
LEMMA InFlightDated ==
    ASSUME WorkInv, OrphansInv
    PROVE  AllDated(InFlight)
BY DEF WorkInv, OrphansInv, AllDated, InFlight, Sent

\* Every step keeps IInv.
LEMMA IInvStep ==
    ASSUME IInv, [Next]_vars
    PROVE  IInv'
<1>1. TypeOK' /\ WorkInv'
  BY TypeStep, WorkStep DEF IInv
<1>2. InFlight \in SUBSET Patches /\ ClusterStep(InFlight) /\ AllDated(InFlight)
      /\ ClusterTypeOK
  BY ArmIsCluster, InFlightType, InFlightDated DEF IInv, TypeOK
<1>3. ClusterInv' /\ DestinationsInv'
  BY <1>2, ClusterInvStep, DestinationsStep DEF IInv
<1>4. OrphansInv'
  <2>1. \A r \in InFlight : Dated(r.v, r.at, held'[r.i], clock')
    BY <1>2, AllDatedGrows
  <2>. QED BY <2>1, OrphansGrow DEF IInv, OrphansInv, AllDated
<1>. QED BY <1>1, <1>3, <1>4 DEF IInv

\* IInv holds in every reachable state.
THEOREM InductiveInvariant == Spec => []IInv
<1>1. Init /\ TypeOK => IInv
  BY ClusterInvInit, PromiseInit, IdleType DEF Init, IInv, WorkInv, OrphansInv, AllDated
<1>2. IInv /\ [Next]_vars => IInv'
  BY IInvStep
<1>. QED BY <1>1, <1>2, TypeCorrect, PTL DEF Spec

\* A destination never shows a value beside another value's stamp, nor a
\* stamp from the future or from a millisecond or more before the value.
THEOREM StampsAreRight == Spec => []StampDatesItsValue
<1>1. IInv => StampDatesItsValue
  BY GoodIsDated DEF IInv, ClusterInv, DestinationsInv, StampDatesItsValue
<1>. QED BY <1>1, InductiveInvariant, PTL

\* Arm A does nothing to the relay pairs but what RelayPromise allows.
THEOREM ImplementsPromise == Spec => KeepsPromise
<1>1. Init => Promise!Init
  BY PromiseInit DEF Init
<1>2. IInv /\ [Next]_vars => [Promise!Next]_(Promise!promiseVars)
  <2>. SUFFICES ASSUME IInv, [Next]_vars PROVE [Promise!Next]_(Promise!promiseVars)
    OBVIOUS
  <2>1. InFlight \in SUBSET Patches /\ ClusterStep(InFlight) /\ ClusterTypeOK
    BY ArmIsCluster, InFlightType DEF IInv, TypeOK
  <2>2. \A r \in InFlight : r.v \in held[r.i] /\ r.at =< clock
    BY InFlightDated DEF IInv, AllDated, Dated
  <2>. QED BY <2>1, <2>2, PromiseStep
<1>. QED BY <1>1, <1>2, InductiveInvariant, PTL DEF Spec, KeepsPromise, Promise!Spec

-----------------------------------------------------------------------------
(***************************************************************************)
(* How old every value is.                                                 *)
(***************************************************************************)

\* The worker is on pair i and holds the value it wants there.
Wanting(i) == work.pc \in {"dst", "stamp", "wait"} /\ work.key[1] = i

\* What is at a destination or may still land there is no newer than what the
\* worker is about to write, and neither is newer than any copy of the source
\* a later pass can read.  A destination may be ahead of the informer's view
\* of itself, so this cannot be said of the destination's own copies.
AgeInv ==
    \A i \in Pairs :
        /\ Behind(obj[Dst(i)].v, i)
        /\ \A r \in orphans : r.i = i => Behind(r.v, i)
        /\ Wanting(i) => /\ Behind(work.want, i)
                         /\ obj[Dst(i)].v =< work.want
                         /\ \A r \in orphans : r.i = i => r.v =< work.want

\* No value anywhere in the arm is from the future.
LEMMA NothingFromTheFuture ==
    ASSUME IInv, NEW i \in Pairs
    PROVE  /\ clock \in Nat
           /\ obj[Dst(i)].v \in 0 .. clock
           /\ \A r \in InFlight : r.i = i => r.v \in 0 .. clock
           /\ Wanting(i) => work.want \in 0 .. clock
<1>1. clock \in Nat /\ held[i] \subseteq 1 .. clock
  BY ClusterConstants DEF IInv, ClusterInv, ClusterTypeOK, HeldInv
<1>2. obj[Dst(i)].v = 0 \/ obj[Dst(i)].v \in held[i]
  BY DEF IInv, DestinationsInv, GoodDestination, Dated, NoField
<1>3. \A r \in InFlight : r.i = i => r.v \in held[i]
  BY InFlightDated DEF IInv, AllDated, Dated
<1>4. Wanting(i) => work.want \in held[i]
  BY DEF IInv, WorkInv, Wanting
<1>. QED BY <1>1, <1>2, <1>3, <1>4

\* What holds of the orphans holds of the worker's own PATCH.
LEMMA InFlightAge ==
    ASSUME IInv, AgeInv, NEW i \in Pairs, NEW r \in InFlight, r.i = i
    PROVE  Behind(r.v, i) /\ (Wanting(i) => r.v =< work.want)
<1>1. CASE r \in orphans
  BY <1>1 DEF AgeInv
<1>2. CASE work.pc = "wait" /\ r = Sent
  <2>1. Wanting(i) /\ r.v = work.want
    BY <1>2 DEF Wanting, Sent
  <2>. QED BY <2>1, NothingFromTheFuture DEF AgeInv
<1>. QED BY <1>1, <1>2 DEF InFlight

\* The worker keeps its value, or takes the one in its cache while nothing
\* else moves.
LEMMA WantStep ==
    ASSUME TypeOK, [Next]_vars, NEW i \in Pairs, Wanting(i)'
    PROVE  \/ Wanting(i) /\ work'.want = work.want
           \/ /\ cache[Src(i)].v # NoField /\ work'.want = cache[Src(i)].v
              /\ UNCHANGED <<obj, orphans>>
<1>. USE DEF Wanting
<1>0. work \in WorkRecord
  BY DEF TypeOK, WorkRecord
<1>1. CASE UNCHANGED work
  BY <1>1
<1>2. work' # Idle
  BY IdleType
<1>3. ASSUME NEW k \in Keys, Take(k) PROVE FALSE
  <2>1. work'.pc = "src"
    BY <1>3, IdleType DEF Take, WorkRecord
  <2>. QED BY <2>1
<1>4. CASE ReadSource
  BY <1>0, <1>2, <1>4 DEF ReadSource, WorkRecord, clusterVars
<1>5. CASE ReadDestination
  BY <1>0, <1>2, <1>5 DEF ReadDestination, WorkRecord
<1>6. CASE SendPatch
  BY <1>0, <1>6 DEF SendPatch, WorkRecord
<1>7. CASE PatchSucceeds \/ PatchNotFound \/ PatchFails \/ Restart
  BY <1>2, <1>7 DEF PatchSucceeds, PatchNotFound, PatchFails, Restart
<1>8. CASE HarnessStep \/ Deliver \/ WatchLost \/ Resync
            \/ (\E r \in orphans : OrphanLands(r)) \/ UNCHANGED vars
  BY <1>1, <1>8 DEF HarnessStep, armVars, Deliver, WatchLost, Resync, OrphanLands, vars
<1>. QED BY <1>3, <1>4, <1>5, <1>6, <1>7, <1>8 DEF Next, Reconcile

\* Every step keeps AgeInv.
LEMMA AgeStep ==
    ASSUME IInv, AgeInv, [Next]_vars
    PROVE  AgeInv'
<1>. SUFFICES ASSUME NEW i \in Pairs
              PROVE  /\ BehindNext(obj'[Dst(i)].v, i)
                     /\ \A r \in orphans' : r.i = i => BehindNext(r.v, i)
                     /\ Wanting(i)' => /\ BehindNext(work'.want, i)
                                       /\ obj'[Dst(i)].v =< work'.want
                                       /\ \A r \in orphans' : r.i = i => r.v =< work'.want
  BY DEF AgeInv, Behind, BehindNext, Dst, Src
<1>1. TypeOK /\ ClusterInv /\ ClusterTypeOK /\ InFlight \in SUBSET Patches
      /\ ClusterStep(InFlight) /\ orphans' \subseteq InFlight
  BY ArmIsCluster, InFlightType, OrphansGrow DEF IInv, ClusterInv
<1>2. \A x : Behind(x, i) /\ x =< clock => BehindNext(x, i)
  BY <1>1, BehindStep
<1>3. \A r \in InFlight : r.i = i => r.v \in Nat /\ BehindNext(r.v, i)
  BY <1>2, NothingFromTheFuture, InFlightAge
<1>4. BehindNext(0, i)
  <2>1. Behind(0, i)
    BY <1>1, CopyEnds, PairKeys, ClusterConstants DEF Behind, Object, Values, NoField
  <2>. QED BY <1>2, <2>1, NothingFromTheFuture
<1>5. \/ obj'[Dst(i)].v = obj[Dst(i)].v
      \/ obj'[Dst(i)].v = 0
      \/ \E r \in InFlight : r.i = i /\ obj'[Dst(i)].v = r.v
  <2>1. ASSUME NEW r \in InFlight, r.i = i,
               obj'[Dst(i)] = [there |-> TRUE, v |-> r.v, t |-> [val |-> r.v, at |-> r.at]]
        PROVE  obj'[Dst(i)].v = r.v
    BY <2>1
  <2>2. NoObject.v = 0 /\ EmptyObject.v = 0
    BY DEF NoObject, EmptyObject, NoField
  <2>3. \/ obj'[Dst(i)] \in {obj[Dst(i)], NoObject, EmptyObject}
        \/ \E r \in InFlight :
             /\ r.i = i
             /\ obj'[Dst(i)] = [there |-> TRUE, v |-> r.v, t |-> [val |-> r.v, at |-> r.at]]
    BY <1>1, NewDestination
  <2>. QED BY <2>1, <2>2, <2>3
<1>6. BehindNext(obj'[Dst(i)].v, i)
  <2>1. BehindNext(obj[Dst(i)].v, i)
    BY <1>2, NothingFromTheFuture DEF AgeInv
  <2>. QED BY <1>3, <1>4, <1>5, <2>1
<1>7. \A r \in orphans' : r.i = i => BehindNext(r.v, i)
  BY <1>1, <1>3
<1>8. ASSUME Wanting(i)'
      PROVE  /\ BehindNext(work'.want, i)
             /\ obj'[Dst(i)].v =< work'.want
             /\ \A r \in orphans' : r.i = i => r.v =< work'.want
  <2>1. CASE Wanting(i) /\ work'.want = work.want
    <3>1. BehindNext(work.want, i) /\ work.want \in Nat
      BY <1>2, <2>1, NothingFromTheFuture DEF AgeInv
    <3>2. \A r \in InFlight : r.i = i => r.v =< work.want
      BY <2>1, InFlightAge
    <3>3. obj[Dst(i)].v =< work.want
      BY <2>1 DEF AgeInv
    <3>4. obj'[Dst(i)].v =< work.want
      BY <1>5, <3>1, <3>2, <3>3
    <3>. QED BY <1>1, <2>1, <3>1, <3>2, <3>4
  <2>2. CASE /\ cache[Src(i)].v # NoField /\ work'.want = cache[Src(i)].v
             /\ UNCHANGED <<obj, orphans>>
    <3>1. BehindNext(cache[Src(i)].v, i)
      <4>1. Behind(cache[Src(i)].v, i) /\ cache[Src(i)].v \in held[i]
        BY <1>1, <2>2, CacheIsOldest
      <4>2. held[i] \subseteq 1 .. clock
        BY <1>1 DEF ClusterInv, HeldInv
      <4>. QED BY <1>2, <4>1, <4>2
    <3>2. obj[Dst(i)].v =< cache[Src(i)].v
      <4>1. Behind(obj[Dst(i)].v, i)
        BY DEF AgeInv
      <4>. QED BY <1>1, <2>2, <4>1, CacheIsOldest
    <3>3. \A r \in orphans : r.i = i => r.v =< cache[Src(i)].v
      <4>1. \A r \in orphans : r.i = i => Behind(r.v, i)
        BY DEF AgeInv
      <4>. QED BY <1>1, <2>2, <4>1, CacheIsOldest
    <3>. QED BY <2>2, <3>1, <3>2, <3>3
  <2>. QED BY <1>1, <1>8, <2>1, <2>2, WantStep
<1>. QED BY <1>6, <1>7, <1>8

\* Only an orphan puts an older value where a newer one was.
LEMMA RegressStep ==
    ASSUME IInv, AgeInv, [Next]_vars, NEW i \in Pairs,
           obj[Dst(i)].there, obj'[Dst(i)].there, obj'[Dst(i)].v < obj[Dst(i)].v
    PROVE  \E r \in orphans : r.i = i /\ r \notin orphans'
<1>0. TypeOK /\ ClusterTypeOK /\ InFlight \in SUBSET Patches /\ obj[Dst(i)].v \in Nat
  BY InFlightType, NothingFromTheFuture DEF IInv, TypeOK
<1>1. CASE ClusterStep({})
  <2>1. obj'[Dst(i)] = obj[Dst(i)]
    <3>1. {} \in SUBSET Patches /\ ~NoObject.there
      BY DEF NoObject
    <3>. QED BY <1>0, <1>1, <3>1, NewDestination
  <2>. QED BY <1>0, <2>1
<1>2. ASSUME NEW r \in InFlight, PatchLands(r)
      PROVE  r.i = i /\ obj'[Dst(i)].v = r.v
  <2>1. {r} \in SUBSET Patches /\ ClusterStep({r}) /\ ~NoObject.there
    BY <1>0, <1>2 DEF ClusterStep, NoObject
  <2>2. obj'[Dst(i)] # obj[Dst(i)] /\ obj'[Dst(i)] # NoObject
    BY <1>0, <2>1
  <2>3. \E q \in {r} : q.i = i /\ obj'[Dst(i)] =
          [there |-> TRUE, v |-> q.v, t |-> [val |-> q.v, at |-> q.at]]
    BY <1>0, <2>1, <2>2, NewDestination
  <2>. QED BY <2>3
<1>3. CASE work.pc = "wait" /\ PatchLands(Sent)
  <2>1. Sent \in InFlight
    BY <1>0, <1>3, InFlightType
  <2>2. Sent.i = i /\ obj'[Dst(i)].v = Sent.v
    BY <1>2, <1>3, <2>1
  <2>3. Wanting(i) /\ Sent.v = work.want /\ work.want \in Nat
    BY <1>3, <2>2, NothingFromTheFuture DEF Wanting, Sent
  <2>4. obj[Dst(i)].v =< work.want
    BY <2>3 DEF AgeInv
  <2>. QED BY <1>0, <2>2, <2>3, <2>4
<1>4. ASSUME NEW r \in orphans, OrphanLands(r), PatchLands(r)
      PROVE  r.i = i /\ r \notin orphans'
  BY <1>2, <1>4 DEF OrphanLands, InFlight
<1>. QED BY <1>0, <1>1, <1>3, <1>4, ArmSteps

\* Within one life of the worker no destination goes back to an older value,
\* however stale the caches it read: only a PATCH that outlived its sender
\* takes one back.
THEOREM NothingElseRegresses == Spec => OnlyOrphansRegress
<1>1. Init /\ IInv => AgeInv
  <2>. SUFFICES ASSUME Init, IInv, NEW i \in Pairs, NEW n \in At(Src(i))
                PROVE  obj[Dst(i)].v = NoField /\ Copy(Src(i), n).v = NoField
    BY IdleType DEF AgeInv, Behind, Init, Wanting
  <2>1. cache = obj /\ watch = << >> /\ \A k \in Keys : obj[k].v = NoField
    BY ClusterInitFacts DEF Init, NoObject, EmptyObject
  <2>. QED BY <2>1, PairKeys DEF At, Copy
<1>2. IInv /\ AgeInv /\ [Next]_vars => AgeInv'
  BY AgeStep
<1>3. IInv /\ AgeInv /\ [Next]_vars
        => [\A i \in Pairs :
              (obj[Dst(i)].there /\ obj'[Dst(i)].there
                 /\ obj'[Dst(i)].v < obj[Dst(i)].v)
              => \E r \in orphans : r.i = i /\ r \notin orphans']_vars
  BY RegressStep
<1>. QED BY <1>1, <1>2, <1>3, InductiveInvariant, PTL DEF Spec, OnlyOrphansRegress
=============================================================================
