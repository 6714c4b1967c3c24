--------------------------- MODULE Cluster_proofs ---------------------------
(***************************************************************************)
(* What holds of the relay pairs, the harness and the informer whatever    *)
(* arm runs against them, for every number of pairs, rounds and deletes.   *)
(* An arm's proofs (CRRelay_proofs, PerseidRelay_proofs, FusedRelay_proofs)*)
(* show that each of its steps is a ClusterStep, which patches nothing but *)
(* what the arm had in flight, and take the rest from here.                *)
(*                                                                         *)
(* An object lives in several places at once: in the apiserver, in the     *)
(* events the informer has yet to deliver, and in its store.  The central  *)
(* fact is CopyOrigin: after a step each of these copies is one that was   *)
(* there before, or what the apiserver now holds.                          *)
(***************************************************************************)
EXTENDS Cluster, TLAPS

\* The PATCHes an arm can have in flight.
Patches == [i: Pairs, v: Values, at: 0 .. MaxRounds]

\* One of them lands on an existing destination.
PatchLands(r) ==
    /\ obj[Dst(r.i)].there
    /\ Store(Dst(r.i), Patched(obj[Dst(r.i)], r.v, [val |-> r.v, at |-> r.at]))
    /\ UNCHANGED <<cache, clock, next, held, deletes>>

\* All an arm with these PATCHes in flight, its informer and the harness can
\* do to the cluster.
ClusterStep(patches) ==
    \/ Harness
    \/ DeliverEvent
    \/ Relist
    \/ \E r \in patches : PatchLands(r)
    \/ UNCHANGED clusterVars

-----------------------------------------------------------------------------
(***************************************************************************)
(* Typing.                                                                 *)
(***************************************************************************)

\* The assumptions on the constants, as the proofs use them.
LEMMA ClusterConstants ==
    /\ N \in Nat /\ N > 0 /\ Milli \in Nat /\ Milli > 0
    /\ MaxRounds \in Nat /\ MaxDeletes \in Nat
BY ClusterAssumption

\* The clock in whole milliseconds is an instant, at most now and less than a
\* millisecond ago.
LEMMA MillisFacts ==
    ASSUME clock \in 0 .. MaxRounds
    PROVE  /\ Millis \in 0 .. MaxRounds /\ Millis =< clock
           /\ clock - (Milli - 1) =< Millis
<1>1. clock \in Nat /\ clock =< MaxRounds
  BY ClusterConstants
<1>2. clock % Milli \in 0 .. Milli - 1 /\ clock % Milli =< clock
  BY <1>1, ClusterConstants
<1>. QED BY <1>1, <1>2, ClusterConstants DEF Millis

\* A stamp read now of a value that is not from the future is After it.
LEMMA MillisAfter ==
    ASSUME clock \in 0 .. MaxRounds, NEW v \in 1 .. clock
    PROVE  Millis \in After(v)
<1>1. Millis \in Int /\ clock \in Int /\ v \in Int /\ v =< clock
  BY MillisFacts, ClusterConstants
<1>. QED BY <1>1, MillisFacts, ClusterConstants DEF After

\* The two objects a fixture starts and ends as are objects.
LEMMA BareObjects == NoObject \in Object /\ EmptyObject \in Object
BY ClusterConstants DEF NoObject, EmptyObject, NoStamp, Object, Stamp, NoField

\* The keys of a pair are keys, and differ.
LEMMA PairKeys ==
    ASSUME NEW i \in Pairs
    PROVE  Src(i) \in Keys /\ Dst(i) \in Keys /\ Src(i) # Dst(i)
BY DEF Src, Dst, Keys

\* Every key is one side of one pair.
LEMMA KeyPair ==
    ASSUME NEW k \in Keys
    PROVE  /\ k[1] \in Pairs /\ k[2] \in {"src", "dst"}
           /\ k = IF k[2] = "src" THEN Src(k[1]) ELSE Dst(k[1])
BY DEF Keys, Src, Dst

\* The fields of a patched object.
LEMMA PatchedFields ==
    ASSUME NEW o \in Object, NEW x \in Values, NEW s \in Stamp
    PROVE  /\ Patched(o, x, s) \in Object
           /\ Patched(o, x, s) = [there |-> o.there, v |-> x, t |-> s]
<1>1. Patched(o, x, s) \in Object
  BY DEF Patched, Object
<1>2. Patched(o, x, s).there = o.there /\ Patched(o, x, s).v = x /\ Patched(o, x, s).t = s
  BY DEF Patched, Object
<1>. QED BY <1>1, <1>2 DEF Object

\* A PATCH writes one destination, which becomes the value and its stamp.
LEMMA PatchStores ==
    ASSUME ClusterTypeOK, NEW r \in Patches, PatchLands(r)
    PROVE  /\ r.i \in Pairs /\ r.v \in Values /\ r.at \in 0 .. MaxRounds
           /\ LET o == [there |-> TRUE, v |-> r.v, t |-> [val |-> r.v, at |-> r.at]]
              IN  o \in Object /\ Store(Dst(r.i), o)
<1> DEFINE s == [val |-> r.v, at |-> r.at]
<1>1. r.i \in Pairs /\ r.v \in Values /\ r.at \in 0 .. MaxRounds
  BY DEF Patches
<1>2. obj[Dst(r.i)] \in Object /\ obj[Dst(r.i)].there = TRUE
  BY <1>1, PairKeys DEF ClusterTypeOK, PatchLands, Object
<1>3. s \in Stamp
  BY <1>1 DEF Stamp
<1>4. /\ Patched(obj[Dst(r.i)], r.v, s) \in Object
      /\ Patched(obj[Dst(r.i)], r.v, s) = [there |-> TRUE, v |-> r.v, t |-> s]
  BY <1>1, <1>2, <1>3, PatchedFields
<1>. QED BY <1>1, <1>4 DEF PatchLands

\* The harness writes a source that is there, and gives it the current value.
LEMMA WriteStores ==
    ASSUME ClusterTypeOK, WriteSource, obj[Src(next)].there
    PROVE  /\ next \in Pairs /\ clock \in Values
           /\ \E o \in Object : o.v = clock /\ o.there /\ Store(Src(next), o)
           /\ held' = [held EXCEPT ![next] = @ \cup {clock}]
           /\ next' = next + 1
<1>1. next \in Pairs /\ clock \in Values
  BY ClusterConstants DEF WriteSource, Pairs, Values, ClusterTypeOK
<1>2. obj[Src(next)] \in Object
  BY <1>1, PairKeys DEF ClusterTypeOK
<1> DEFINE o == [obj[Src(next)] EXCEPT !.v = clock]
<1>3. o \in Object /\ o.v = clock /\ o.there
  BY <1>1, <1>2 DEF Object
<1>4. Store(Src(next), o)
  BY DEF WriteSource
<1>. HIDE DEF o
<1>. QED BY <1>1, <1>3, <1>4 DEF WriteSource

\* A write keeps the apiserver and the watch well typed.
LEMMA StoreType ==
    ASSUME obj \in [Keys -> Object], watch \in Seq(Event),
           NEW k \in Keys, NEW o \in Object, Store(k, o)
    PROVE  obj' \in [Keys -> Object] /\ watch' \in Seq(Event)
<1>1. obj' \in [Keys -> Object]
  BY DEF Store
<1>2. [key |-> k, obj |-> o] \in Event
  BY DEF Event
<1>3. watch' \in Seq(Event)
  BY <1>2 DEF Store
<1>. QED BY <1>1, <1>3

\* The next event is an event.
LEMMA HeadType ==
    ASSUME watch \in Seq(Event), watch # << >>
    PROVE  /\ Len(watch) \in Nat /\ Len(watch) >= 1 /\ Head(watch) = watch[1]
           /\ watch[1].key \in Keys /\ watch[1].obj \in Object
           /\ Tail(watch) \in Seq(Event)
<1>1. Len(watch) \in Nat /\ Len(watch) >= 1 /\ Head(watch) = watch[1]
  OBVIOUS
<1>2. watch[1] \in Event
  BY <1>1
<1>. QED BY <1>1, <1>2 DEF Event

\* Every step keeps the types of the cluster.
LEMMA ClusterTypeStep ==
    ASSUME ClusterTypeOK, NEW patches \in SUBSET Patches, ClusterStep(patches)
    PROVE  ClusterTypeOK'
<1>1. ASSUME NEW k \in Keys, CreateFixture(k) PROVE ClusterTypeOK'
  BY <1>1, BareObjects, StoreType DEF CreateFixture, ClusterTypeOK
<1>2. ASSUME NEW k \in Keys, DeleteFixture(k) PROVE ClusterTypeOK'
  BY <1>2, BareObjects, StoreType, ClusterConstants DEF DeleteFixture, ClusterTypeOK
<1>3. CASE StartRound
  BY <1>3, ClusterConstants DEF StartRound, ClusterTypeOK
<1>4. CASE WriteSource /\ ~obj[Src(next)].there
  BY <1>4, ClusterConstants DEF WriteSource, ClusterTypeOK
<1>5. CASE WriteSource /\ obj[Src(next)].there
  <2>1. next \in Pairs /\ clock \in Values
        /\ held' = [held EXCEPT ![next] = @ \cup {clock}] /\ next' = next + 1
    BY <1>5, WriteStores
  <2>2. obj' \in [Keys -> Object] /\ watch' \in Seq(Event)
    BY <1>5, WriteStores, PairKeys, StoreType DEF ClusterTypeOK
  <2>3. held' \in [Pairs -> SUBSET Values] /\ next' \in 0 .. N /\ clock # 0
    BY <2>1, ClusterConstants DEF ClusterTypeOK, Pairs, Values
  <2>. QED BY <1>5, <2>2, <2>3 DEF WriteSource, ClusterTypeOK
<1>6. CASE DeliverEvent
  <2>1. watch[1].key \in Keys /\ watch[1].obj \in Object /\ Tail(watch) \in Seq(Event)
        /\ Head(watch) = watch[1]
    BY <1>6, HeadType DEF DeliverEvent, ClusterTypeOK
  <2>2. cache' \in [Keys -> Object]
    BY <1>6, <2>1 DEF DeliverEvent, ClusterTypeOK
  <2>. QED BY <1>6, <2>1, <2>2 DEF DeliverEvent, ClusterTypeOK
<1>7. CASE Relist
  <2>1. << >> \in Seq(Event)
    OBVIOUS
  <2>. QED BY <1>7, <2>1 DEF Relist, ClusterTypeOK
<1>8. ASSUME NEW r \in patches, PatchLands(r) PROVE ClusterTypeOK'
  BY <1>8, PatchStores, PairKeys, StoreType DEF PatchLands, ClusterTypeOK
<1>9. CASE UNCHANGED clusterVars
  BY <1>9 DEF clusterVars, ClusterTypeOK
<1>. QED BY <1>1, <1>2, <1>3, <1>4, <1>5, <1>6, <1>7, <1>8, <1>9 DEF ClusterStep, Harness

\* The arm starts against well-typed fixtures that carry nothing.
LEMMA ClusterInitFacts ==
    ASSUME ClusterInit
    PROVE  /\ ClusterTypeOK
           /\ \A k \in Keys : obj[k] \in {NoObject, EmptyObject}
           /\ cache = obj /\ watch = << >>
<1>1. \A k \in Keys : obj[k] \in {NoObject, EmptyObject}
  BY DEF ClusterInit
<1>2. obj \in [Keys -> Object] /\ cache = obj
  BY BareObjects DEF ClusterInit
<1>3. << >> \in Seq(Event)
  OBVIOUS
<1>. QED BY <1>1, <1>2, <1>3, ClusterConstants DEF ClusterInit, ClusterTypeOK

-----------------------------------------------------------------------------
(***************************************************************************)
(* Copies of an object.                                                    *)
(***************************************************************************)

\* Where copies of the object at k are, oldest first: the informer's store,
\* the undelivered events about k, the apiserver.
At(k) == {n \in 0 .. Len(watch) + 1 : n = 0 \/ n = Len(watch) + 1 \/ watch[n].key = k}
Copy(k, n) ==
    IF n = 0 THEN cache[k] ELSE IF n = Len(watch) + 1 THEN obj[k] ELSE watch[n].obj

\* The two ends of the row, and that every place in it holds an object.
LEMMA CopyEnds ==
    ASSUME ClusterTypeOK, NEW k \in Keys
    PROVE  /\ Len(watch) \in Nat
           /\ 0 \in At(k) /\ Copy(k, 0) = cache[k]
           /\ Len(watch) + 1 \in At(k) /\ Copy(k, Len(watch) + 1) = obj[k]
           /\ \A n \in At(k) : n \in Nat /\ n =< Len(watch) + 1 /\ Copy(k, n) \in Object
<1>1. Len(watch) \in Nat
  BY DEF ClusterTypeOK
<1>2. \A n \in 1 .. Len(watch) : watch[n].obj \in Object
  <2>1. \A n \in 1 .. Len(watch) : watch[n] \in Event
    BY DEF ClusterTypeOK
  <2>. QED BY <2>1 DEF Event
<1>3. cache[k] \in Object /\ obj[k] \in Object
  BY DEF ClusterTypeOK
<1>. QED BY <1>1, <1>2, <1>3 DEF At, Copy

\* An accepted write adds the new object at the end of its row, in the
\* apiserver and in the event about it, and leaves what was there.
LEMMA StoreCopies ==
    ASSUME ClusterTypeOK, NEW j \in Keys, NEW o \in Object, Store(j, o), cache' = cache,
           NEW k \in Keys, NEW n \in At(k)'
    PROVE  \/ Copy(k, n)' = obj'[k]
           \/ n \in At(k) /\ n < Len(watch) + 1 /\ Copy(k, n)' = Copy(k, n)
<1>1. watch \in Seq(Event) /\ Len(watch) \in Nat
      /\ watch' = Append(watch, [key |-> j, obj |-> o]) /\ Len(watch') = Len(watch) + 1
  BY DEF Store, ClusterTypeOK
<1>2. n \in 0 .. Len(watch) + 2
  BY <1>1 DEF At
<1>3. CASE n = Len(watch) + 2
  BY <1>1, <1>3 DEF Copy
<1>4. CASE n = Len(watch) + 1
  <2>1. watch'[n] = [key |-> j, obj |-> o]
    BY <1>1, <1>4
  <2>2. k = j
    BY <1>1, <1>4, <2>1 DEF At
  <2>3. obj'[k] = o
    BY <2>2 DEF Store, ClusterTypeOK
  <2>. QED BY <1>1, <1>4, <2>1, <2>3 DEF Copy
<1>5. CASE n \in 1 .. Len(watch)
  <2>1. watch'[n] = watch[n]
    BY <1>1, <1>5
  <2>. QED BY <1>1, <1>5, <2>1 DEF At, Copy
<1>6. CASE n = 0
  BY <1>1, <1>6 DEF At, Copy
<1>. QED BY <1>1, <1>2, <1>3, <1>4, <1>5, <1>6

\* A delivered event moves every copy one place to the front; the informer's
\* store takes the event's copy, or keeps its own.
LEMMA DeliverCopies ==
    ASSUME ClusterTypeOK, DeliverEvent, NEW k \in Keys, NEW n \in At(k)'
    PROVE  \/ n + 1 \in At(k) /\ Copy(k, n)' = Copy(k, n + 1)
           \/ n = 0 /\ Copy(k, n)' = Copy(k, 0)
<1>1. /\ watch \in Seq(Event) /\ watch # << >> /\ Len(watch) \in Nat /\ Len(watch) >= 1
      /\ Head(watch) = watch[1] /\ watch[1].key \in Keys
  BY HeadType DEF DeliverEvent, ClusterTypeOK
<1>2. /\ watch' = Tail(watch) /\ obj' = obj
      /\ cache' = [cache EXCEPT ![watch[1].key] = watch[1].obj]
  BY <1>1 DEF DeliverEvent
<1>3. /\ Len(watch') = Len(watch) - 1
      /\ \A p \in 1 .. Len(watch) - 1 : watch'[p] = watch[p + 1]
  BY <1>1, <1>2
<1>4. n \in 0 .. Len(watch) /\ (n = 0 \/ n = Len(watch) \/ watch'[n].key = k)
  BY <1>1, <1>3 DEF At
<1>5. CASE n = 0 /\ watch[1].key = k
  BY <1>1, <1>2, <1>5 DEF At, Copy, ClusterTypeOK
<1>6. CASE n = 0 /\ watch[1].key # k
  BY <1>1, <1>2, <1>6 DEF At, Copy, ClusterTypeOK
<1>7. CASE n = Len(watch)
  BY <1>1, <1>2, <1>3, <1>7 DEF At, Copy
<1>8. CASE n \in 1 .. Len(watch) - 1
  <2>1. watch'[n] = watch[n + 1] /\ n # 0 /\ n # Len(watch) /\ n + 1 # 0 /\ n + 1 # Len(watch) + 1
    BY <1>1, <1>3, <1>8
  <2>2. n + 1 \in At(k)
    BY <1>1, <1>4, <1>8, <2>1 DEF At
  <2>3. Copy(k, n)' = watch'[n].obj
    BY <1>1, <1>3, <2>1 DEF Copy
  <2>4. Copy(k, n + 1) = watch[n + 1].obj
    BY <2>1 DEF Copy
  <2>. QED BY <2>1, <2>2, <2>3, <2>4
<1>. QED BY <1>1, <1>4, <1>5, <1>6, <1>7, <1>8

\* A relist leaves nothing but what the apiserver holds.
LEMMA RelistCopies ==
    ASSUME ClusterTypeOK, Relist, NEW k \in Keys, NEW n \in At(k)'
    PROVE  Copy(k, n)' = obj'[k]
<1>1. watch' = << >> /\ Len(watch') = 0 /\ cache' = obj /\ obj' = obj
  BY DEF Relist
<1>. QED BY <1>1 DEF At, Copy

\* Every write there is stores one object at one key and leaves the informer
\* alone; every other step leaves the apiserver alone.
LEMMA WhatSteps ==
    ASSUME ClusterTypeOK, NEW patches \in SUBSET Patches, ClusterStep(patches)
    PROVE  \/ \E j \in Keys, o \in Object : Store(j, o) /\ cache' = cache
           \/ DeliverEvent
           \/ Relist
           \/ UNCHANGED <<obj, cache, watch>>
<1>1. ASSUME NEW k \in Keys, CreateFixture(k) \/ DeleteFixture(k)
      PROVE  \E j \in Keys, o \in Object : Store(j, o) /\ cache' = cache
  BY <1>1, BareObjects DEF CreateFixture, DeleteFixture
<1>2. CASE WriteSource /\ obj[Src(next)].there
  <2>1. \E o \in Object : Store(Src(next), o)
    BY <1>2, WriteStores
  <2>2. Src(next) \in Keys
    BY <1>2, WriteStores, PairKeys
  <2>. QED BY <1>2, <2>1, <2>2 DEF WriteSource
<1>3. ASSUME NEW r \in patches, PatchLands(r)
      PROVE  \E j \in Keys, o \in Object : Store(j, o) /\ cache' = cache
  <2>1. \E o \in Object : Store(Dst(r.i), o)
    BY <1>3, PatchStores
  <2>2. Dst(r.i) \in Keys
    BY <1>3, PatchStores, PairKeys
  <2>. QED BY <1>3, <2>1, <2>2 DEF PatchLands
<1>4. CASE StartRound \/ (WriteSource /\ ~obj[Src(next)].there) \/ UNCHANGED clusterVars
  BY <1>4 DEF StartRound, WriteSource, clusterVars
<1>. QED BY <1>1, <1>2, <1>3, <1>4 DEF ClusterStep, Harness

\* After a step every copy is one that was there before, or what the
\* apiserver now holds.
LEMMA CopyOrigin ==
    ASSUME ClusterTypeOK, NEW patches \in SUBSET Patches, ClusterStep(patches),
           NEW k \in Keys, NEW n \in At(k)'
    PROVE  \/ Copy(k, n)' = obj'[k]
           \/ \E m \in At(k) : Copy(k, n)' = Copy(k, m)
<1>1. ASSUME NEW j \in Keys, NEW o \in Object, Store(j, o), cache' = cache
      PROVE  \/ Copy(k, n)' = obj'[k]
             \/ \E m \in At(k) : Copy(k, n)' = Copy(k, m)
  BY <1>1, StoreCopies
<1>2. CASE DeliverEvent
  BY <1>2, DeliverCopies, CopyEnds
<1>3. CASE Relist
  BY <1>3, RelistCopies
<1>4. CASE UNCHANGED <<obj, cache, watch>>
  BY <1>4 DEF At, Copy
<1>. QED BY <1>1, <1>2, <1>3, <1>4, WhatSteps

\* ... and two copies keep their order: of two that were both there before,
\* the older one was the older one then.
LEMMA CopyOrder ==
    ASSUME ClusterTypeOK, NEW patches \in SUBSET Patches, ClusterStep(patches),
           NEW k \in Keys, NEW m \in At(k)', NEW n \in At(k)', m =< n
    PROVE  \/ Copy(k, n)' = obj'[k]
           \/ \E p \in At(k), q \in At(k) :
                p =< q /\ Copy(k, m)' = Copy(k, p) /\ Copy(k, n)' = Copy(k, q)
<1>0. /\ ClusterTypeOK' /\ m \in Nat /\ n \in Nat /\ 0 \in At(k)
      /\ n =< Len(watch') + 1
  BY ClusterTypeStep, CopyEnds DEF At
<1>1. ASSUME NEW j \in Keys, NEW o \in Object, Store(j, o), cache' = cache,
             Copy(k, n)' # obj'[k]
      PROVE  \E p \in At(k), q \in At(k) :
                p =< q /\ Copy(k, m)' = Copy(k, p) /\ Copy(k, n)' = Copy(k, q)
  <2>1. n \in At(k) /\ n < Len(watch) + 1 /\ Copy(k, n)' = Copy(k, n)
    BY <1>1, StoreCopies
  <2>2. m \in At(k) /\ Copy(k, m)' = Copy(k, m)
    <3>1. watch \in Seq(Event) /\ Len(watch) \in Nat
          /\ watch' = Append(watch, [key |-> j, obj |-> o]) /\ Len(watch') = Len(watch) + 1
      BY <1>1 DEF Store, ClusterTypeOK
    <3>2. m \in 0 .. Len(watch)
      BY <1>0, <2>1, <3>1
    <3>3. m # 0 => watch'[m] = watch[m]
      BY <3>1, <3>2
    <3>. QED BY <1>1, <3>1, <3>2, <3>3 DEF At, Copy
  <2>. QED BY <2>1, <2>2
<1>2. CASE DeliverEvent
  <2>1. CASE n = 0
    BY <1>0, <1>2, <2>1, DeliverCopies
  <2>2. CASE n # 0
    <3>1. n + 1 \in At(k) /\ Copy(k, n)' = Copy(k, n + 1)
      BY <1>2, <2>2, DeliverCopies
    <3>2. \/ m + 1 \in At(k) /\ Copy(k, m)' = Copy(k, m + 1)
          \/ m = 0 /\ Copy(k, m)' = Copy(k, 0)
      BY <1>2, DeliverCopies
    <3>3. CASE m + 1 \in At(k) /\ Copy(k, m)' = Copy(k, m + 1)
      <4>1. m + 1 =< n + 1
        BY <1>0
      <4>. QED BY <3>1, <3>3, <4>1
    <3>4. CASE m = 0 /\ Copy(k, m)' = Copy(k, 0)
      <4>1. 0 =< n + 1
        BY <1>0
      <4>. QED BY <1>0, <3>1, <3>4, <4>1
    <3>. QED BY <3>2, <3>3, <3>4
  <2>. QED BY <2>1, <2>2
<1>3. CASE Relist
  BY <1>3, RelistCopies
<1>4. CASE UNCHANGED <<obj, cache, watch>>
  BY <1>4 DEF At, Copy
<1>. QED BY <1>1, <1>2, <1>3, <1>4, WhatSteps

-----------------------------------------------------------------------------
(***************************************************************************)
(* What a step does to the apiserver.                                      *)
(***************************************************************************)

\* Storing at a key changes that key alone.
LEMMA StoreChanges ==
    ASSUME ClusterTypeOK, NEW j \in Keys, NEW o, Store(j, o)
    PROVE  obj'[j] = o /\ \A k \in Keys : k # j => obj'[k] = obj[k]
BY DEF Store, ClusterTypeOK

\* A source is left alone, created empty, deleted, or given the current value.
LEMMA NewSource ==
    ASSUME ClusterTypeOK, NEW patches \in SUBSET Patches, ClusterStep(patches),
           NEW i \in Pairs
    PROVE  \/ obj'[Src(i)] \in {obj[Src(i)], NoObject, EmptyObject}
           \/ obj'[Src(i)].there /\ obj'[Src(i)].v = clock /\ clock \in held'[i]
<1>0. Src(i) \in Keys /\ \A j \in Pairs : Dst(j) \in Keys /\ Dst(j) # Src(i)
  BY PairKeys DEF Src, Dst
<1>1. ASSUME NEW k \in Keys, CreateFixture(k) \/ DeleteFixture(k)
      PROVE  obj'[Src(i)] \in {obj[Src(i)], NoObject, EmptyObject}
  BY <1>0, <1>1, StoreChanges DEF CreateFixture, DeleteFixture
<1>2. CASE WriteSource /\ obj[Src(next)].there
  <2>1. PICK o \in Object : o.v = clock /\ o.there /\ Store(Src(next), o)
    BY <1>2, WriteStores
  <2>2. next \in Pairs /\ Src(next) \in Keys /\ held' = [held EXCEPT ![next] = @ \cup {clock}]
    BY <1>2, WriteStores, PairKeys
  <2>3. CASE i = next
    BY <2>1, <2>2, <2>3, StoreChanges DEF ClusterTypeOK
  <2>4. CASE i # next
    <3>1. Src(i) # Src(next)
      BY <2>4 DEF Src
    <3>. QED BY <1>0, <2>1, <2>2, <3>1, StoreChanges
  <2>. QED BY <2>3, <2>4
<1>3. ASSUME NEW r \in patches, PatchLands(r)
      PROVE  obj'[Src(i)] = obj[Src(i)]
  <2>1. r.i \in Pairs /\ \E o \in Object : Store(Dst(r.i), o)
    BY <1>3, PatchStores
  <2>. QED BY <1>0, <2>1, StoreChanges
<1>4. CASE \/ DeliverEvent \/ Relist \/ UNCHANGED clusterVars
           \/ StartRound \/ (WriteSource /\ ~obj[Src(next)].there)
  BY <1>4 DEF DeliverEvent, Relist, clusterVars, StartRound, WriteSource
<1>. QED BY <1>1, <1>2, <1>3, <1>4 DEF ClusterStep, Harness

\* A destination is left alone, deleted, created empty where there was none, or
\* patched.
LEMMA NewDestination ==
    ASSUME ClusterTypeOK, NEW patches \in SUBSET Patches, ClusterStep(patches),
           NEW i \in Pairs
    PROVE  \/ obj'[Dst(i)] \in {obj[Dst(i)], NoObject}
           \/ obj'[Dst(i)] = EmptyObject /\ ~obj[Dst(i)].there
           \/ \E r \in patches :
                /\ r.i = i /\ PatchLands(r)
                /\ obj'[Dst(i)] = [there |-> TRUE, v |-> r.v, t |-> [val |-> r.v, at |-> r.at]]
<1>0. Dst(i) \in Keys /\ \A j \in Pairs : Src(j) \in Keys /\ Src(j) # Dst(i)
  BY PairKeys DEF Src, Dst
<1>1. ASSUME NEW k \in Keys, CreateFixture(k) \/ DeleteFixture(k)
      PROVE  \/ obj'[Dst(i)] \in {obj[Dst(i)], NoObject}
             \/ obj'[Dst(i)] = EmptyObject /\ ~obj[Dst(i)].there
  BY <1>0, <1>1, StoreChanges DEF CreateFixture, DeleteFixture
<1>2. CASE WriteSource /\ obj[Src(next)].there
  <2>1. next \in Pairs /\ \E o \in Object : Store(Src(next), o)
    BY <1>2, WriteStores
  <2>. QED BY <1>0, <2>1, StoreChanges
<1>3. ASSUME NEW r \in patches, PatchLands(r)
      PROVE  \/ obj'[Dst(i)] = obj[Dst(i)]
             \/ /\ r.i = i
                /\ obj'[Dst(i)] = [there |-> TRUE, v |-> r.v, t |-> [val |-> r.v, at |-> r.at]]
  <2>1. r.i \in Pairs /\ Dst(r.i) \in Keys
    BY <1>3, PatchStores, PairKeys
  <2>2. r.i # i => Dst(r.i) # Dst(i)
    BY DEF Dst
  <2>. QED BY <1>0, <1>3, <2>1, <2>2, PatchStores, StoreChanges
<1>4. CASE \/ DeliverEvent \/ Relist \/ UNCHANGED clusterVars
           \/ StartRound \/ (WriteSource /\ ~obj[Src(next)].there)
  BY <1>4 DEF DeliverEvent, Relist, clusterVars, StartRound, WriteSource
<1>. QED BY <1>1, <1>2, <1>3, <1>4 DEF ClusterStep, Harness

\* A delete goes on record, and what was on record stays there.
LEMMA DeleteRecords ==
    ASSUME ClusterTypeOK, NEW j \in Keys, DeleteFixture(j)
    PROVE  Deleted(j)' /\ \A k \in Keys : Deleted(k) => Deleted(k)'
<1>1. deletes \in Seq(Keys) /\ deletes' = Append(deletes, j)
  BY DEF ClusterTypeOK, DeleteFixture
<1>2. /\ Len(deletes) + 1 \in DOMAIN deletes' /\ deletes'[Len(deletes) + 1] = j
      /\ \A n \in DOMAIN deletes : n \in DOMAIN deletes' /\ deletes'[n] = deletes[n]
  BY <1>1
<1>. QED BY <1>2 DEF Deleted

\* An object is left alone, or stands afterwards, or has been deleted.
LEMMA NewObject ==
    ASSUME ClusterTypeOK, NEW patches \in SUBSET Patches, ClusterStep(patches),
           NEW k \in Keys
    PROVE  \/ obj'[k] = obj[k]
           \/ obj'[k].there
           \/ obj'[k] = NoObject /\ Deleted(k)'
<1>1. ASSUME NEW j \in Keys, CreateFixture(j)
      PROVE  obj'[k] = obj[k] \/ obj'[k].there
  BY <1>1, StoreChanges DEF CreateFixture, EmptyObject
<1>2. ASSUME NEW j \in Keys, DeleteFixture(j)
      PROVE  obj'[k] = obj[k] \/ (obj'[k] = NoObject /\ Deleted(k)')
  <2>1. Deleted(j)'
    BY <1>2, DeleteRecords
  <2>. QED BY <1>2, <2>1, StoreChanges DEF DeleteFixture
<1>3. CASE WriteSource /\ obj[Src(next)].there
  BY <1>3, WriteStores, PairKeys, StoreChanges
<1>4. ASSUME NEW r \in patches, PatchLands(r)
      PROVE  obj'[k] = obj[k] \/ obj'[k].there
  <2>1. Dst(r.i) \in Keys /\ \E o \in Object : o.there /\ Store(Dst(r.i), o)
    BY <1>4, PatchStores, PairKeys
  <2>. QED BY <2>1, StoreChanges
<1>5. CASE \/ DeliverEvent \/ Relist \/ UNCHANGED clusterVars
           \/ StartRound \/ (WriteSource /\ ~obj[Src(next)].there)
  BY <1>5 DEF DeliverEvent, Relist, clusterVars, StartRound, WriteSource
<1>. QED BY <1>1, <1>2, <1>3, <1>4, <1>5 DEF ClusterStep, Harness

\* Time, the history of a source and the record of deletes only grow.
Grows ==
    /\ \A i \in Pairs : held[i] \subseteq held'[i]
    /\ clock =< clock'
    /\ \A k \in Keys : Deleted(k) => Deleted(k)'

\* They grow on every step of the cluster and the harness.
LEMMA ClusterGrows ==
    ASSUME ClusterTypeOK, NEW patches \in SUBSET Patches, ClusterStep(patches)
    PROVE  Grows
<1>1. clock \in Nat
  BY ClusterConstants DEF ClusterTypeOK
<1>2. CASE WriteSource
  BY <1>1, <1>2 DEF WriteSource, Grows, ClusterTypeOK, Deleted
<1>3. CASE StartRound
  BY <1>1, <1>3 DEF StartRound, Grows, Deleted
<1>4. ASSUME NEW k \in Keys, CreateFixture(k) \/ DeleteFixture(k) PROVE Grows
  <2>1. UNCHANGED <<clock, held>>
    BY <1>4 DEF CreateFixture, DeleteFixture
  <2>2. CASE CreateFixture(k)
    BY <1>1, <2>1, <2>2 DEF CreateFixture, Grows, Deleted
  <2>3. CASE DeleteFixture(k)
    BY <1>1, <2>1, <2>3, DeleteRecords DEF Grows
  <2>. QED BY <1>4, <2>2, <2>3
<1>5. CASE DeliverEvent \/ Relist \/ UNCHANGED clusterVars
           \/ \E r \in patches : PatchLands(r)
  <2>1. UNCHANGED <<clock, held, deletes>>
    BY <1>5 DEF DeliverEvent, Relist, clusterVars, PatchLands
  <2>. QED BY <1>1, <2>1 DEF Grows, Deleted
<1>. QED BY <1>2, <1>3, <1>4, <1>5 DEF ClusterStep, Harness

-----------------------------------------------------------------------------
(***************************************************************************)
(* Where every value comes from.                                           *)
(***************************************************************************)

\* No source has held a value from the future.
HeldInv == \A i \in Pairs : held[i] \subseteq 1 .. clock

\* A copy of a source carries nothing, or a value the source has held.
SourceCopy(o, past) == o.v = NoField \/ o.v \in past
SourcesInv ==
    \A i \in Pairs : \A n \in At(Src(i)) : SourceCopy(Copy(Src(i), n), held[i])

\* An object that is not there carries nothing.
Bare(o) == o.there \/ o = NoObject
BareInv == \A k \in Keys : \A n \in At(k) : Bare(Copy(k, n))

\* Where nothing was missing at the start, an object is missing nowhere until
\* somebody deletes that one.
Standing(k) == \A n \in At(k) : Copy(k, n).there
StandingInv == \A k \in Keys : Deleted(k) \/ Standing(k)

\* Of two copies of one source, the one nearer the apiserver is the newer.
Before(a, b) == a.v # NoField /\ b.v # NoField => a.v =< b.v
OrderInv ==
    \A i \in Pairs : \A m, n \in At(Src(i)) :
        m =< n => Before(Copy(Src(i), m), Copy(Src(i), n))

ClusterInv == ClusterTypeOK /\ HeldInv /\ SourcesInv /\ BareInv /\ OrderInv

\* What a source has held stays a set of values written up to now.
LEMMA HeldStep ==
    ASSUME ClusterTypeOK, HeldInv, NEW patches \in SUBSET Patches, ClusterStep(patches)
    PROVE  HeldInv'
<1>1. CASE WriteSource
  BY <1>1 DEF WriteSource, HeldInv, ClusterTypeOK
<1>2. CASE StartRound
  BY <1>2 DEF StartRound, HeldInv, ClusterTypeOK
<1>3. ASSUME NEW k \in Keys, CreateFixture(k) \/ DeleteFixture(k) PROVE HeldInv'
  BY <1>3 DEF CreateFixture, DeleteFixture, HeldInv
<1>4. CASE DeliverEvent \/ Relist \/ UNCHANGED clusterVars
           \/ \E r \in patches : PatchLands(r)
  BY <1>4 DEF DeliverEvent, Relist, clusterVars, PatchLands, HeldInv
<1>. QED BY <1>1, <1>2, <1>3, <1>4 DEF ClusterStep, Harness

\* Events and relists deliver copies of a source, and a copy is of a state it was in.
LEMMA SourcesStep ==
    ASSUME ClusterTypeOK, SourcesInv, NEW patches \in SUBSET Patches, ClusterStep(patches)
    PROVE  SourcesInv'
<1>. SUFFICES ASSUME NEW i \in Pairs, NEW n \in At(Src(i))'
              PROVE  SourceCopy(Copy(Src(i), n)', held'[i])
  BY DEF SourcesInv, Src
<1>1. Src(i) \in Keys /\ held[i] \subseteq held'[i]
  BY PairKeys, ClusterGrows DEF Grows
<1>2. ASSUME NEW m \in At(Src(i)) PROVE SourceCopy(Copy(Src(i), m), held'[i])
  BY <1>1 DEF SourcesInv, SourceCopy
<1>3. SourceCopy(obj[Src(i)], held'[i])
  BY <1>1, <1>2, CopyEnds
<1>4. SourceCopy(obj'[Src(i)], held'[i])
  BY <1>3, NewSource DEF SourceCopy, NoObject, EmptyObject
<1>. QED BY <1>1, <1>2, <1>4, CopyOrigin

\* No step leaves a copy of a missing object that says more than that it is missing.
LEMMA BareStep ==
    ASSUME ClusterTypeOK, BareInv, NEW patches \in SUBSET Patches, ClusterStep(patches)
    PROVE  BareInv'
<1>. SUFFICES ASSUME NEW k \in Keys, NEW n \in At(k)' PROVE Bare(Copy(k, n)')
  BY DEF BareInv
<1>1. Bare(obj[k])
  BY CopyEnds DEF BareInv
<1>2. Bare(obj'[k])
  BY <1>1, NewObject DEF Bare
<1>. QED BY <1>2, CopyOrigin DEF BareInv

\* Only a delete makes an object missing, or a copy of it.
LEMMA StandingStep ==
    ASSUME ClusterTypeOK, StandingInv, NEW patches \in SUBSET Patches, ClusterStep(patches)
    PROVE  StandingInv'
<1>. SUFFICES ASSUME NEW k \in Keys, ~Deleted(k)', NEW n \in At(k)'
              PROVE  (Copy(k, n)').there
  BY DEF StandingInv, Standing
<1>1. ~Deleted(k)
  BY ClusterGrows DEF Grows
<1>2. \A m \in At(k) : Copy(k, m).there
  BY <1>1 DEF StandingInv, Standing
<1>3. obj'[k].there
  BY <1>1, <1>2, CopyEnds, NewObject
<1>. QED BY <1>2, <1>3, CopyOrigin

\* A value no later than now that no copy of a source is older than stays so.
Behind(x, i) ==
    \A n \in At(Src(i)) : Copy(Src(i), n).v # NoField => x =< Copy(Src(i), n).v

\* ... the same of a value x of this state and the copies of the next.
BehindNext(x, i) ==
    \A n \in At(Src(i))' : (Copy(Src(i), n)').v # NoField => x =< (Copy(Src(i), n)').v

\* A value behind every copy of a source stays behind: what is written is later.
LEMMA BehindStep ==
    ASSUME ClusterTypeOK, NEW patches \in SUBSET Patches, ClusterStep(patches),
           NEW i \in Pairs, NEW x, Behind(x, i), x =< clock
    PROVE  BehindNext(x, i)
<1>. SUFFICES ASSUME NEW n \in At(Src(i))', (Copy(Src(i), n)').v # NoField
              PROVE  x =< (Copy(Src(i), n)').v
  BY DEF BehindNext
<1>1. Src(i) \in Keys
  BY PairKeys
<1>2. obj[Src(i)].v # NoField => x =< obj[Src(i)].v
  BY <1>1, CopyEnds DEF Behind
<1>3. obj'[Src(i)].v # NoField => x =< obj'[Src(i)].v
  BY <1>2, NewSource DEF NoObject, EmptyObject
<1>. QED BY <1>1, <1>3, CopyOrigin DEF Behind

\* The copies of a source never overtake one another: events are delivered in order,
\* and a relist takes what the apiserver holds now.
LEMMA OrderStep ==
    ASSUME ClusterTypeOK, HeldInv, SourcesInv, OrderInv,
           NEW patches \in SUBSET Patches, ClusterStep(patches)
    PROVE  OrderInv'
<1>. SUFFICES ASSUME NEW i \in Pairs, NEW m \in At(Src(i))', NEW n \in At(Src(i))', m =< n
              PROVE  Before(Copy(Src(i), m)', Copy(Src(i), n)')
  BY DEF OrderInv, Src
<1>0. Src(i) \in Keys /\ clock \in Nat
  BY PairKeys, ClusterConstants DEF ClusterTypeOK
<1>1. CASE Copy(Src(i), n)' = obj'[Src(i)]
  <2>1. CASE Copy(Src(i), m)' = obj'[Src(i)]
    <3>1. ClusterTypeOK'
      BY ClusterTypeStep
    <3>2. obj'[Src(i)].v \in Nat
      BY <1>0, <3>1, ClusterConstants DEF ClusterTypeOK, Object, Values, NoField
    <3>. QED BY <1>1, <2>1, <3>2 DEF Before
  <2>2. ASSUME NEW p \in At(Src(i)), Copy(Src(i), m)' = Copy(Src(i), p)
        PROVE  Before(Copy(Src(i), p), obj'[Src(i)])
    <3>1. p =< Len(watch) + 1 /\ Len(watch) + 1 \in At(Src(i))
          /\ Copy(Src(i), Len(watch) + 1) = obj[Src(i)]
      BY <1>0, CopyEnds
    <3>2. Before(Copy(Src(i), p), obj[Src(i)])
      BY <3>1 DEF OrderInv
    <3>3. Copy(Src(i), p).v # NoField => Copy(Src(i), p).v =< clock
      BY <1>0 DEF SourcesInv, SourceCopy, HeldInv
    <3>. QED BY <3>2, <3>3, NewSource DEF Before, NoObject, EmptyObject
  <2>. QED BY <1>0, <1>1, <2>1, <2>2, CopyOrigin
<1>2. ASSUME NEW p \in At(Src(i)), NEW q \in At(Src(i)), p =< q,
             Copy(Src(i), m)' = Copy(Src(i), p), Copy(Src(i), n)' = Copy(Src(i), q)
      PROVE  Before(Copy(Src(i), m)', Copy(Src(i), n)')
  BY <1>2 DEF OrderInv
<1>. QED BY <1>0, <1>1, <1>2, CopyOrder

\* Every step keeps what is known of the cluster.
LEMMA ClusterInvStep ==
    ASSUME ClusterInv, NEW patches \in SUBSET Patches, ClusterStep(patches)
    PROVE  ClusterInv'
BY ClusterTypeStep, HeldStep, SourcesStep, BareStep, OrderStep DEF ClusterInv

\* ... and it holds at the start.
LEMMA ClusterInvInit ==
    ASSUME ClusterInit
    PROVE  ClusterInv
<1>1. ClusterTypeOK /\ cache = obj /\ watch = << >>
      /\ \A k \in Keys : obj[k] \in {NoObject, EmptyObject}
  BY ClusterInitFacts
<1>2. \A k \in Keys : \A n \in At(k) : Copy(k, n) \in {NoObject, EmptyObject}
  BY <1>1 DEF At, Copy
<1>3. \A k \in Keys : \A n \in At(k) : Copy(k, n).v = NoField
  BY <1>2 DEF NoObject, EmptyObject
<1>4. \A i \in Pairs : \A n \in At(Src(i)) : Copy(Src(i), n).v = NoField
  BY <1>3, PairKeys
<1>5. HeldInv
  BY DEF ClusterInit, HeldInv
<1>6. SourcesInv /\ OrderInv
  BY <1>4 DEF SourcesInv, SourceCopy, OrderInv, Before
<1>7. BareInv
  BY <1>2 DEF BareInv, Bare, EmptyObject
<1>. QED BY <1>1, <1>5, <1>6, <1>7 DEF ClusterInv

\* What an arm reads in the informer's store of a source is nothing, or a value
\* the source has held; no copy of the source is older, and nothing that was
\* behind every copy is newer.
LEMMA CacheIsOldest ==
    ASSUME ClusterInv, NEW i \in Pairs
    PROVE  /\ cache[Src(i)] \in Object
           /\ cache[Src(i)].v # NoField => /\ cache[Src(i)].v \in held[i]
                                           /\ Behind(cache[Src(i)].v, i)
           /\ \A x : Behind(x, i) /\ cache[Src(i)].v # NoField => x =< cache[Src(i)].v
<1>1. /\ Src(i) \in Keys /\ 0 \in At(Src(i)) /\ Copy(Src(i), 0) = cache[Src(i)]
      /\ \A n \in At(Src(i)) : 0 =< n
  BY PairKeys, CopyEnds DEF ClusterInv
<1>2. cache[Src(i)] \in Object
  BY <1>1 DEF ClusterInv, ClusterTypeOK
<1>3. cache[Src(i)].v # NoField => cache[Src(i)].v \in held[i]
  BY <1>1 DEF ClusterInv, SourcesInv, SourceCopy
<1>4. cache[Src(i)].v # NoField => Behind(cache[Src(i)].v, i)
  BY <1>1 DEF ClusterInv, OrderInv, Before, Behind
<1>5. \A x : Behind(x, i) /\ cache[Src(i)].v # NoField => x =< cache[Src(i)].v
  BY <1>1 DEF Behind
<1>. QED BY <1>2, <1>3, <1>4, <1>5

-----------------------------------------------------------------------------
(***************************************************************************)
(* What a destination may say.                                             *)
(***************************************************************************)

\* A dated value: one from the source's past, with an instant less than a
\* millisecond before its origin or after it, up to now.
Dated(v, at, past, now) == v \in past /\ at \in v - (Milli - 1) .. now

AllDated(patches) == \A r \in patches : Dated(r.v, r.at, held[r.i], clock)

\* Nothing, or a dated value under its own stamp.
GoodDestination(d, past, now) ==
    \/ d.v = NoField /\ d.t = NoStamp
    \/ Dated(d.v, d.t.at, past, now) /\ d.t.val = d.v

DestinationsInv ==
    \A i \in Pairs : GoodDestination(obj[Dst(i)], held[i], clock)

\* A dated value stays dated.
LEMMA DatedGrows ==
    ASSUME ClusterTypeOK, ClusterTypeOK', Grows, NEW i \in Pairs, NEW v, NEW at,
           Dated(v, at, held[i], clock)
    PROVE  Dated(v, at, held'[i], clock')
<1>1. v \in held'[i]
  BY DEF Dated, Grows
<1>2. clock \in Nat /\ clock' \in Nat /\ v \in Nat
  BY ClusterConstants DEF ClusterTypeOK, Dated, Values
<1>3. at \in v - (Milli - 1) .. clock'
  BY <1>2 DEF Dated, Grows
<1>. QED BY <1>1, <1>3 DEF Dated

\* ... and so do requests in flight, for which this says it once.
LEMMA AllDatedGrows ==
    ASSUME ClusterTypeOK, NEW patches \in SUBSET Patches, ClusterStep(patches),
           NEW some \in SUBSET Patches, AllDated(some)
    PROVE  \A r \in some : Dated(r.v, r.at, held'[r.i], clock')
BY ClusterTypeStep, ClusterGrows, DatedGrows DEF AllDated, Patches

\* An arm whose requests in flight are all dated keeps every destination good.
LEMMA DestinationsStep ==
    ASSUME ClusterTypeOK, DestinationsInv,
           NEW patches \in SUBSET Patches, AllDated(patches), ClusterStep(patches)
    PROVE  DestinationsInv'
<1>. SUFFICES ASSUME NEW i \in Pairs
              PROVE  GoodDestination(obj'[Dst(i)], held'[i], clock')
  BY DEF DestinationsInv, Dst
<1>1. ClusterTypeOK' /\ Grows
  BY ClusterTypeStep, ClusterGrows
<1>2. CASE obj'[Dst(i)] = obj[Dst(i)]
  BY <1>1, <1>2, DatedGrows DEF DestinationsInv, GoodDestination
<1>3. CASE obj'[Dst(i)] \in {NoObject, EmptyObject}
  BY <1>3 DEF GoodDestination, NoObject, EmptyObject
<1>4. ASSUME NEW r \in patches, r.i = i,
             obj'[Dst(i)] = [there |-> TRUE, v |-> r.v, t |-> [val |-> r.v, at |-> r.at]]
      PROVE  GoodDestination(obj'[Dst(i)], held'[i], clock')
  BY <1>4, AllDatedGrows DEF GoodDestination
<1>. QED BY <1>2, <1>3, <1>4, NewDestination

\* A good destination never shows a value beside another value's stamp, nor
\* a stamp from the future or a millisecond before the value.
LEMMA GoodIsDated ==
    ASSUME HeldInv, NEW i \in Pairs, NEW d, GoodDestination(d, held[i], clock)
    PROVE  \/ d.v = NoField /\ d.t = NoStamp
           \/ d.v # NoField /\ d.t.val = d.v /\ d.t.at \in After(d.v)
<1>1. \A x \in held[i] : x # NoField
  BY DEF HeldInv, NoField
<1>. QED BY <1>1 DEF GoodDestination, Dated, After

-----------------------------------------------------------------------------
(***************************************************************************)
(* RelayPromise.                                                           *)
(***************************************************************************)

\* The destinations, as the promise sees them.
Destination == [i \in Pairs |-> obj[Dst(i)]]

\* A write to a destination changes that one, and a write to a source none.
LEMMA OneDestination ==
    ASSUME ClusterTypeOK, NEW i \in Pairs, NEW o, Store(Dst(i), o)
    PROVE  Destination' = [Destination EXCEPT ![i] = o]
<1>1. \A j \in Pairs : obj'[Dst(j)] = IF j = i THEN o ELSE obj[Dst(j)]
  <2>1. Dst(i) \in Keys /\ \A j \in Pairs : Dst(j) \in Keys /\ (j # i => Dst(j) # Dst(i))
    BY PairKeys DEF Dst
  <2>. QED BY <2>1, StoreChanges
<1>. QED BY <1>1 DEF Destination, Dst

\* The other half: a write to a source leaves every destination alone.
LEMMA NoDestination ==
    ASSUME ClusterTypeOK, NEW i \in Pairs, NEW o, Store(Src(i), o)
    PROVE  Destination' = Destination
<1>1. Src(i) \in Keys /\ \A j \in Pairs : Dst(j) \in Keys /\ Dst(j) # Src(i)
  BY PairKeys DEF Src, Dst
<1>2. \A j \in Pairs : obj'[Dst(j)] = obj[Dst(j)]
  BY <1>1, StoreChanges
<1>. QED BY <1>2 DEF Destination, Dst

\* What the promise does not see is a stutter.
LEMMA PromiseStutter ==
    ASSUME UNCHANGED <<Destination, clock, held>>
    PROVE  [Promise!Next]_(Promise!promiseVars)
BY DEF Promise!promiseVars, Destination

\* A fixture that comes or goes is seen on the destination side, and only there.
LEMMA FixtureStep ==
    ASSUME ClusterTypeOK, NEW k \in Keys, CreateFixture(k) \/ DeleteFixture(k)
    PROVE  [Promise!Next]_(Promise!promiseVars)
<1>1. PICK i \in Pairs : k = Src(i) \/ k = Dst(i)
  BY DEF Keys, Src, Dst
<1>2. UNCHANGED <<clock, held>>
  BY DEF CreateFixture, DeleteFixture
<1>3. CASE k = Src(i)
  BY <1>2, <1>3, NoDestination, PromiseStutter DEF CreateFixture, DeleteFixture
<1>4. CASE k = Dst(i) /\ CreateFixture(k)
  <2>1. Store(Dst(i), Promise!Blank) /\ ~obj[Dst(i)].there
    BY <1>4 DEF CreateFixture, EmptyObject, NoStamp, NoField, Promise!Blank
  <2>2. Promise!Appear(i)
    BY <1>2, <2>1, OneDestination DEF Destination, Promise!Appear
  <2>. QED BY <2>2 DEF Promise!Next
<1>5. CASE k = Dst(i) /\ DeleteFixture(k)
  <2>1. Store(Dst(i), Promise!None) /\ obj[Dst(i)].there
    BY <1>5 DEF DeleteFixture, NoObject, NoStamp, NoField, Promise!None
  <2>2. Promise!Vanish(i)
    BY <1>2, <2>1, OneDestination DEF Destination, Promise!Vanish
  <2>. QED BY <2>2 DEF Promise!Next
<1>. QED BY <1>1, <1>3, <1>4, <1>5

\* A harness step is a step of the promise, or one it does not see.
LEMMA HarnessIsHarness ==
    ASSUME ClusterTypeOK, Harness
    PROVE  [Promise!Next]_(Promise!promiseVars)
<1>1. CASE \E k \in Keys : CreateFixture(k) \/ DeleteFixture(k)
  BY <1>1, FixtureStep
<1>2. CASE StartRound
  BY <1>2 DEF StartRound, Promise!Encode, Promise!Next
<1>3. CASE WriteSource /\ ~obj[Src(next)].there
  BY <1>3, PromiseStutter DEF WriteSource, Destination, Dst
<1>4. CASE WriteSource /\ obj[Src(next)].there
  <2>1. next \in Pairs /\ held' = [held EXCEPT ![next] = @ \cup {clock}]
        /\ \E o \in Object : Store(Src(next), o)
    BY <1>4, WriteStores
  <2>2. Destination' = Destination
    BY <2>1, NoDestination
  <2>3. Promise!Publish(next)
    BY <1>4, <2>1, <2>2 DEF WriteSource, Promise!Publish, Destination
  <2>. QED BY <2>1, <2>3 DEF Promise!Next
<1>. QED BY <1>1, <1>2, <1>3, <1>4 DEF Harness

\* A PATCH that carries a value of its source's past, stamped no later than
\* now, is Relay when it lands.
LEMMA PatchIsRelay ==
    ASSUME ClusterTypeOK, NEW r \in Patches, r.v \in held[r.i], r.at =< clock, PatchLands(r)
    PROVE  [Promise!Next]_(Promise!promiseVars)
<1>1. r.i \in Pairs /\ r.at \in 0 .. clock
  BY ClusterConstants DEF Patches, ClusterTypeOK
<1>2. Store(Dst(r.i), [there |-> TRUE, v |-> r.v, t |-> [val |-> r.v, at |-> r.at]])
  BY PatchStores
<1>3. Destination' = [Destination EXCEPT ![r.i] =
                        [there |-> TRUE, v |-> r.v, t |-> [val |-> r.v, at |-> r.at]]]
  BY <1>1, <1>2, OneDestination
<1>4. Destination[r.i].there /\ UNCHANGED <<held, clock>>
  BY <1>1 DEF Destination, PatchLands
<1>5. Promise!Relay(r.i)
  BY <1>1, <1>3, <1>4 DEF Promise!Relay, Destination
<1>. QED BY <1>1, <1>5 DEF Promise!Next

\* An arm whose requests in flight carry nothing but values of their source's
\* past, stamped no later than now, takes only steps the promise allows.
LEMMA PromiseStep ==
    ASSUME ClusterTypeOK, NEW patches \in SUBSET Patches, ClusterStep(patches),
           \A r \in patches : r.v \in held[r.i] /\ r.at =< clock
    PROVE  [Promise!Next]_(Promise!promiseVars)
<1>1. CASE Harness
  BY <1>1, HarnessIsHarness
<1>2. CASE DeliverEvent \/ Relist \/ UNCHANGED clusterVars
  <2>1. UNCHANGED <<obj, clock, held>>
    BY <1>2 DEF DeliverEvent, Relist, clusterVars
  <2>. QED BY <2>1, PromiseStutter DEF Destination, Dst
<1>3. ASSUME NEW r \in patches, PatchLands(r)
      PROVE  [Promise!Next]_(Promise!promiseVars)
  BY <1>3, PatchIsRelay
<1>. QED BY <1>1, <1>2, <1>3 DEF ClusterStep

\* It starts where the promise starts.
LEMMA PromiseInit ==
    ASSUME ClusterInit
    PROVE  Promise!Init /\ DestinationsInv
<1>1. \A i \in Pairs : obj[Dst(i)] \in {NoObject, EmptyObject}
  BY ClusterInitFacts, PairKeys
<1>2. NoObject = Promise!None /\ EmptyObject = Promise!Blank
  BY DEF NoObject, EmptyObject, NoStamp, NoField, Promise!None, Promise!Blank
<1>3. Promise!Init
  BY <1>1, <1>2 DEF ClusterInit, Promise!Init
<1>4. DestinationsInv
  BY <1>1 DEF DestinationsInv, GoodDestination, NoObject, EmptyObject
<1>. QED BY <1>3, <1>4
=============================================================================
