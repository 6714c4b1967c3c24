------------------------------ MODULE CRRelay ------------------------------
(***************************************************************************)
(* Arm A: a controller-runtime manager relaying data.v from src-i to       *)
(* dst-i.  N = 1 is one manager of arms A1 and A2 (which run N of them,    *)
(* sharing nothing); N > 1 is the single manager of arm A3, one informer   *)
(* and one worker for every pair.                                          *)
(*                                                                         *)
(* Reconcile is split where something can happen in between: after the     *)
(* workqueue hands out a key, between the two cached reads, before the     *)
(* clock is read, and while the PATCH is in flight.                        *)
(*                                                                         *)
(* Operators named Definition_Slip are what Definition would be with one   *)
(* plausible mistake; no action uses them, and the mutation runs of        *)
(* PROJECT.json put them in Definition's place to see a property notice.   *)
(***************************************************************************)
EXTENDS Cluster

CONSTANT MaxHiccups    \* bound: resyncs, relists, failed PATCHes and restarts

ASSUME HiccupAssumption == MaxHiccups \in Nat

VARIABLES
    dirty,    \* the workqueue: keys to reconcile, each at most once
    work,     \* the worker's local state
    orphans,  \* PATCHes whose client gave up and which may still land
    hiccups

armVars == <<dirty, work, orphans, hiccups>>
vars == <<obj, cache, watch, clock, next, held, deletes,
          dirty, work, orphans, hiccups>>

Request == [i: Pairs, v: Values, at: 0 .. MaxRounds]

Idle == [pc |-> "idle", key |-> Src(0), want |-> NoField, at |-> 0]

\* The PATCH the worker has sent.
Sent == [i |-> work.key[1], v |-> work.want, at |-> work.at]

\* work.want is a value of the source whenever a step past the first read
\* depends on it.
TypeOK ==
    /\ ClusterTypeOK
    /\ dirty \in SUBSET Keys
    /\ work \in [pc: {"idle", "src", "dst", "stamp", "wait"}, key: Keys,
                 want: Values \cup {NoField}, at: 0 .. MaxRounds]
    /\ work.pc \in {"dst", "stamp", "wait"} => work.want \in Values
    /\ orphans \in SUBSET Request
    /\ hiccups \in 0 .. MaxHiccups

\* The request lands: both fields in one merge patch, whatever the
\* destination holds by now, since the patch names no resourceVersion.
Lands(r) ==
    Store(Dst(r.i), Patched(obj[Dst(r.i)], r.v, [val |-> r.v, at |-> r.at]))

(***************************************************************************)
(* Reconcile, on the one worker.                                           *)
(***************************************************************************)

\* The workqueue hands a key out once; an event for it during the pass makes
\* it dirty again.
Take(k) ==
    /\ work.pc = "idle"
    /\ k \in dirty
    /\ dirty' = dirty \ {k}
    /\ work' = [Idle EXCEPT !.pc = "src", !.key = k]
    /\ UNCHANGED <<orphans, hiccups>>
    /\ UNCHANGED clusterVars

ReadSource_NoFieldCheck ==
    LET s == cache[Src(work.key[1])] IN
    /\ work.pc = "src"
    /\ work' = IF s.there THEN [work EXCEPT !.pc = "dst", !.want = s.v] ELSE Idle
    /\ UNCHANGED <<dirty, orphans, hiccups>>
    /\ UNCHANGED clusterVars

\* The pair is the key's: either side waking reconciles src-i to dst-i.  A
\* source that is absent, or has no data.v, ends the pass with no error.
ReadSource ==
    LET s == cache[Src(work.key[1])] IN
    /\ work.pc = "src"
    /\ work' = IF s.there /\ s.v # NoField
               THEN [work EXCEPT !.pc = "dst", !.want = s.v]
               ELSE Idle
    /\ UNCHANGED <<dirty, orphans, hiccups>>
    /\ UNCHANGED clusterVars

ReadDestination_NoIdempotenceGuard ==
    LET d == cache[Dst(work.key[1])] IN
    /\ work.pc = "dst"
    /\ work' = IF d.there THEN [work EXCEPT !.pc = "stamp"] ELSE Idle
    /\ UNCHANGED <<dirty, orphans, hiccups>>
    /\ UNCHANGED clusterVars

\* An absent destination, or one that carries the value, ends the pass.
ReadDestination ==
    LET d == cache[Dst(work.key[1])] IN
    /\ work.pc = "dst"
    /\ work' = IF d.there /\ d.v # work.want
               THEN [work EXCEPT !.pc = "stamp"]
               ELSE Idle
    /\ UNCHANGED <<dirty, orphans, hiccups>>
    /\ UNCHANGED clusterVars

SendPatch_StampsOnlyTheUnstamped ==
    LET t == cache[Dst(work.key[1])].t IN
    /\ work.pc = "stamp"
    /\ work' = [work EXCEPT !.pc = "wait", !.at = IF t = NoStamp THEN Millis ELSE t.at]
    /\ UNCHANGED <<dirty, orphans, hiccups>>
    /\ UNCHANGED clusterVars

\* The clock is read on the line before the write is issued, in milliseconds.
SendPatch ==
    /\ work.pc = "stamp"
    /\ work' = [work EXCEPT !.pc = "wait", !.at = Millis]
    /\ UNCHANGED <<dirty, orphans, hiccups>>
    /\ UNCHANGED clusterVars

PatchSucceeds_Upsert ==
    /\ work.pc = "wait"
    /\ Lands(Sent)
    /\ work' = Idle
    /\ UNCHANGED <<dirty, orphans, hiccups>>
    /\ UNCHANGED <<cache, clock, next, held, deletes>>

PatchSucceeds ==
    /\ work.pc = "wait"
    /\ obj[Dst(work.key[1])].there
    /\ Lands(Sent)
    /\ work' = Idle
    /\ UNCHANGED <<dirty, orphans, hiccups>>
    /\ UNCHANGED <<cache, clock, next, held, deletes>>

\* An error from Reconcile puts the key back on the queue.
Requeue == dirty' = dirty \cup {work.key}

\* The destination was deleted behind the cache.
PatchNotFound ==
    /\ work.pc = "wait"
    /\ ~obj[Dst(work.key[1])].there
    /\ work' = Idle
    /\ Requeue
    /\ UNCHANGED <<orphans, hiccups>>
    /\ UNCHANGED clusterVars

\* The client sees an error: the request was refused, or it was applied and
\* the answer lost, or it is still on its way.
PatchFails ==
    /\ work.pc = "wait"
    /\ hiccups < MaxHiccups
    /\ hiccups' = hiccups + 1
    /\ work' = Idle
    /\ Requeue
    /\ \/ UNCHANGED orphans /\ UNCHANGED clusterVars
       \/ /\ obj[Dst(work.key[1])].there
          /\ Lands(Sent)
          /\ UNCHANGED <<cache, clock, next, held, deletes, orphans>>
       \/ orphans' = orphans \cup {Sent} /\ UNCHANGED clusterVars

(***************************************************************************)
(* The manager around it: informer, resync, restart.                       *)
(***************************************************************************)

Deliver_SourceEventsOnly ==
    /\ DeliverEvent
    /\ dirty' = IF Head(watch).key[2] = "src"
                THEN dirty \cup {Head(watch).key} ELSE dirty
    /\ UNCHANGED <<work, orphans, hiccups>>

\* An event for either member of the pair passes the predicate.
Deliver ==
    /\ DeliverEvent
    /\ dirty' = dirty \cup {Head(watch).key}
    /\ UNCHANGED <<work, orphans, hiccups>>

WatchLost ==
    /\ hiccups < MaxHiccups
    /\ hiccups' = hiccups + 1
    /\ Relist
    /\ dirty' = dirty \cup Relisted
    /\ UNCHANGED <<work, orphans>>

\* SyncPeriod: every cached object is handed to the handlers again.
Resync ==
    /\ hiccups < MaxHiccups
    /\ hiccups' = hiccups + 1
    /\ dirty' = dirty \cup {k \in Keys : cache[k].there}
    /\ UNCHANGED <<work, orphans>>
    /\ UNCHANGED clusterVars

\* The process dies and the pod restarts it: cache and queue are rebuilt from
\* a list, and a PATCH it had sent may still be on its way.
Restart ==
    /\ hiccups < MaxHiccups
    /\ hiccups' = hiccups + 1
    /\ Relist
    /\ dirty' = {k \in Keys : obj[k].there}
    /\ orphans' \in IF work.pc = "wait" THEN {orphans, orphans \cup {Sent}}
                    ELSE {orphans}
    /\ work' = Idle

\* A PATCH nobody waits for any more reaches the apiserver.
OrphanLands(r) ==
    /\ r \in orphans
    /\ orphans' = orphans \ {r}
    /\ \/ obj[Dst(r.i)].there /\ Lands(r)
       \/ ~obj[Dst(r.i)].there /\ UNCHANGED <<obj, watch>>
    /\ UNCHANGED <<cache, clock, next, held, deletes, dirty, work, hiccups>>

HarnessStep == Harness /\ UNCHANGED armVars

Reconcile ==
    \/ \E k \in Keys : Take(k)
    \/ ReadSource
    \/ ReadDestination
    \/ SendPatch
    \/ PatchSucceeds
    \/ PatchNotFound
    \/ PatchFails

Init ==
    /\ ClusterInit
    /\ dirty = {k \in Keys : obj[k].there}
    /\ work = Idle
    /\ orphans = {}
    /\ hiccups = 0

Next ==
    \/ HarnessStep
    \/ Reconcile
    \/ Deliver
    \/ WatchLost
    \/ Resync
    \/ Restart
    \/ \E r \in orphans : OrphanLands(r)

\* The worker and the watch make progress and the workqueue is FIFO, so no
\* key is passed over for ever.  Nothing is asked of the harness, of the
\* resync, or of an orphan.
Fairness ==
    /\ \A k \in Keys : SF_vars(Take(k))
    /\ WF_vars(ReadSource) /\ WF_vars(ReadDestination) /\ WF_vars(SendPatch)
    /\ WF_vars(PatchSucceeds) /\ WF_vars(PatchNotFound)
    /\ WF_vars(Deliver)

Spec == Init /\ [][Next]_vars
FairSpec == Spec /\ Fairness

(***************************************************************************)
(* Properties.                                                             *)
(***************************************************************************)

\* A destination never shows a value beside the stamp of another one, and a
\* stamp is less than a millisecond earlier than the origin of the value it
\* dates, and no later than now: value and stamp leave in one PATCH, the clock
\* is read after the source was, and every way a PATCH can land keeps them
\* together.  It is what the harness's `stale` counter rests on for this arm.
\* That the stamp is not earlier at all, which the harness's reading of a
\* negative reaction asks (measure.go:112), is false of a stamp in
\* milliseconds: a value relayed within the millisecond it was written in.
StampDatesItsValue ==
    \A i \in Pairs :
        LET d == obj[Dst(i)] IN
        \/ d.v = NoField /\ d.t = NoStamp
        \/ d.v # NoField /\ d.t.val = d.v /\ d.t.at \in After(d.v)

\* The only step that puts an older value into a destination that already
\* carries a newer one is a PATCH outliving the client that sent it: within
\* one life of the worker a stale cache delays a value, it never undoes one.
OnlyOrphansRegress ==
    [][\A i \in Pairs :
          (obj[Dst(i)].there /\ obj'[Dst(i)].there
             /\ obj'[Dst(i)].v < obj[Dst(i)].v)
          => \E r \in orphans : r.i = i /\ r \notin orphans']_vars

\* Whatever was lost, delayed or restarted, once the harness stops every pair
\* that exists ends converged, with no help from the resync period, and the
\* manager stops issuing PATCHes: its own writes wake it, and the idempotence
\* guard is what ends that loop.
Settles == <>[](work.pc # "wait" /\ \A i \in Pairs : ConvergedPair(i))
============================================================================
