------------------------------ MODULE Cluster ------------------------------
(***************************************************************************)
(* What every arm of the benchmark runs against: the relay pairs in the    *)
(* apiserver, the harness that creates, writes and deletes them, and one   *)
(* informer that follows them.  The arms (CRRelay, PerseidRelay,           *)
(* FusedRelay) extend this module and say what a delivered event wakes.    *)
(*                                                                         *)
(* The clock is the number of values the harness has encoded so far.       *)
(* EncodeValue(seq, now) renders a fresh value from the instant it is      *)
(* called, to the nanosecond, so a value IS its origin instant: value x    *)
(* was encoded when the clock became x.  An operator's stamp counts whole  *)
(* milliseconds, Milli ticks of the clock, and is cut off to the last one. *)
(*                                                                         *)
(* Operators named Definition_Slip: see the header of CRRelay.             *)
(***************************************************************************)
EXTENDS Integers, Sequences

CONSTANTS
    N,           \* relay pairs the run is about (-n)
    Milli,       \* ticks of the clock in a millisecond
    MaxRounds,   \* bound: values the harness encodes
    MaxDeletes   \* bound: fixtures the harness deletes

ASSUME ClusterAssumption ==
    /\ N \in Nat \ {0}
    /\ Milli \in Nat \ {0}
    /\ MaxRounds \in Nat
    /\ MaxDeletes \in Nat

VARIABLES
    obj,      \* the ConfigMaps in the apiserver, by fixture key
    cache,    \* what the informer's store holds for them
    watch,    \* the events the informer has not delivered yet, oldest first
    clock,    \* values encoded so far, and therefore the current instant
    next,     \* the pair the round in progress writes next; N when none is
    held,     \* history: the values each source has ever held
    deletes   \* history: the fixtures deleted, in order; at most MaxDeletes

clusterVars == <<obj, cache, watch, clock, next, held, deletes>>

Pairs == 0 .. N - 1
Src(i) == <<i, "src">>
Dst(i) == <<i, "dst">>
Keys == Pairs \X {"src", "dst"}

Values == 1 .. MaxRounds
NoField == 0                     \* a ConfigMap with no data.v

\* An operator's clock, UnixMilli() of arm A and now() of B and B2: the last
\* whole millisecond.
Millis == clock - (clock % Milli)

\* data.t is "<value>@<Millis>"; val = NoField when there is no stamp.
Stamp == [val: Values \cup {NoField}, at: 0 .. MaxRounds]
NoStamp == [val |-> NoField, at |-> 0]

Object == [there: BOOLEAN, v: Values \cup {NoField}, t: Stamp]
NoObject == [there |-> FALSE, v |-> NoField, t |-> NoStamp]
EmptyObject == [there |-> TRUE, v |-> NoField, t |-> NoStamp]

Event == [key: Keys, obj: Object]

ClusterTypeOK ==
    /\ obj \in [Keys -> Object]
    /\ cache \in [Keys -> Object]
    /\ watch \in Seq(Event)
    /\ clock \in 0 .. MaxRounds
    /\ next \in 0 .. N
    /\ next < N => clock # 0
    /\ held \in [Pairs -> SUBSET Values]
    /\ deletes \in Seq(Keys) /\ Len(deletes) =< MaxDeletes

(***************************************************************************)
(* The apiserver.                                                          *)
(***************************************************************************)

\* Every accepted write is one new version and one event on the watch.
Store(k, o) ==
    /\ obj' = [obj EXCEPT ![k] = o]
    /\ watch' = Append(watch, [key |-> k, obj |-> o])

\* A merge patch that names both fields replaces both at once, or neither.
Patched(o, val, stamp) == [o EXCEPT !.v = val, !.t = stamp]

(***************************************************************************)
(* The harness: Fixtures, and SetSource called by Load round by round.     *)
(***************************************************************************)

\* Fixtures creates src-i before dst-i, pair by pair, and takes AlreadyExists
\* for an answer.  A fixture is born with no data.
CreateFixture(k) ==
    /\ ~obj[k].there
    /\ \A j \in Keys : j[1] < k[1] => obj[j].there
    /\ k[2] = "dst" => obj[Src(k[1])].there
    /\ Store(k, EmptyObject)
    /\ UNCHANGED <<cache, clock, next, held, deletes>>

\* A later Fixtures call with a smaller n deletes the pairs above it in the
\* order the apiserver lists them, which is by name: dst-i before src-i.
DeleteFixture(k) ==
    /\ Len(deletes) < MaxDeletes
    /\ obj[k].there
    /\ k[2] = "src" => ~obj[Dst(k[1])].there
    /\ Store(k, NoObject)
    /\ deletes' = Append(deletes, k)
    /\ UNCHANGED <<cache, clock, next, held>>

\* Load encodes one value per tick, and only when the previous round is over.
StartRound ==
    /\ next = N
    /\ clock < MaxRounds
    /\ clock' = clock + 1
    /\ next' = 0
    /\ UNCHANGED <<obj, cache, watch, held, deletes>>

\* One Get and Update of SetSource.  A missing source is an error that ends
\* the round with the later pairs unwritten.
WriteSource ==
    /\ next < N
    /\ \/ /\ obj[Src(next)].there
          /\ Store(Src(next), [obj[Src(next)] EXCEPT !.v = clock])
          /\ held' = [held EXCEPT ![next] = @ \cup {clock}]
          /\ next' = next + 1
       \/ /\ ~obj[Src(next)].there
          /\ next' = N
          /\ UNCHANGED <<obj, watch, held>>
    /\ UNCHANGED <<cache, clock, deletes>>

Harness ==
    \/ \E k \in Keys : CreateFixture(k) \/ DeleteFixture(k)
    \/ StartRound
    \/ WriteSource

(***************************************************************************)
(* The informer.                                                           *)
(***************************************************************************)

\* One watch event reaches the store, and the arm's handler for its key.
DeliverEvent ==
    /\ watch # << >>
    /\ cache' = [cache EXCEPT ![Head(watch).key] = Head(watch).obj]
    /\ watch' = Tail(watch)
    /\ UNCHANGED <<obj, clock, next, held, deletes>>

Relist_BehindOneWrite ==
    /\ cache' = [k \in Keys |-> IF k[2] = "src" /\ obj[k].v > 1
                               THEN [obj[k] EXCEPT !.v = @ - 1] ELSE obj[k]]
    /\ watch' = << >>
    /\ UNCHANGED <<obj, clock, next, held, deletes>>

\* The watch is lost and the reflector lists again: the store jumps to the
\* apiserver's state and the events in between are never seen one by one.
Relist ==
    /\ cache' = obj
    /\ watch' = << >>
    /\ UNCHANGED <<obj, clock, next, held, deletes>>

\* The keys a relist notifies about: what is listed, and what is now gone.
Relisted == {k \in Keys : obj[k].there \/ cache[k].there}

\* The arm starts against some prefix of the fixtures, all still empty.
ClusterInit ==
    /\ \E n \in 0 .. 2 * N :
         obj = [k \in Keys |->
                  IF 2 * k[1] + (IF k[2] = "src" THEN 0 ELSE 1) < n
                  THEN EmptyObject ELSE NoObject]
    /\ cache = obj
    /\ watch = << >>
    /\ clock = 0
    /\ next = N
    /\ held = [i \in Pairs |-> {}]
    /\ deletes = << >>

\* Fixture k has been deleted at some time.
Deleted(k) == \E n \in DOMAIN deletes : deletes[n] = k

\* A stamp read off the clock after value v was in hand: nothing later than
\* now, and nothing a millisecond or more before the value's origin.
After(v) == v - (Milli - 1) .. clock

\* What the relay is for: the destination says what the source says.
ConvergedPair(i) ==
    (obj[Src(i)].there /\ obj[Src(i)].v # NoField /\ obj[Dst(i)].there)
      => obj[Dst(i)].v = obj[Src(i)].v

\* No arm does anything to a destination but what RelayPromise allows, whatever
\* its caches held, its requests met on their way or its process lived through.
Promise == INSTANCE RelayPromise WITH
    Pairs <- Pairs,
    destination <- [i \in Pairs |-> obj[Dst(i)]],
    held <- held,
    clock <- clock
KeepsPromise == Promise!Spec
============================================================================
