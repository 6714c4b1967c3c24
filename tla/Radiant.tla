------------------------------ MODULE Radiant ------------------------------
(***************************************************************************)
(* The host arms B and B2 run on, as their steps and the README of the     *)
(* repository describe it; its own source is not in the repository.        *)
(*                                                                         *)
(* A program is Running (its next pass is the next poll tick) or parked on *)
(* a resume, which the host evaluates without running the step.  The wake  *)
(* subscription exists only while the program is parked: it is taken when  *)
(* the park begins, the resume is then evaluated once before the first     *)
(* tick (Parking), and from there on a delivered event leaves a hint in a  *)
(* channel of one slot.  Obligations a pass declared are serviced later,   *)
(* one at a time, in no promised order; one may be dropped.                *)
(*                                                                         *)
(* Operators named Definition_Slip: see the header of CRRelay.             *)
(***************************************************************************)
EXTENDS Cluster

CONSTANTS
    MaxHiccups,  \* bound: unknown answers, dropped obligations, relists
    MaxLag       \* bound: undelivered events past which no obligation is serviced

ASSUME HostAssumption == MaxHiccups \in Nat /\ MaxLag \in Nat \ {0}

VARIABLES
    phase,    \* "Running" | "Parking" | "Parked" | "Terminated"
    hint,     \* the wake channel holds a hint
    oblig,    \* obligations declared and not yet serviced
    hiccups

hostVars == <<phase, hint, oblig, hiccups>>

Obligation == [i: Pairs, v: Values, at: 0 .. MaxRounds]

HostTypeOK ==
    /\ ClusterTypeOK
    /\ phase \in {"Running", "Parking", "Parked", "Terminated"}
    /\ hint \in BOOLEAN
    /\ oblig \in SUBSET Obligation
    /\ hiccups \in 0 .. MaxHiccups

HostInit ==
    /\ ClusterInit
    /\ phase = "Running"
    /\ hint = FALSE
    /\ oblig = {}
    /\ hiccups = 0

Subscribed == phase \in {"Parking", "Parked"}

Hiccup == hiccups < MaxHiccups /\ hiccups' = hiccups + 1

(***************************************************************************)
(* Events reach the store first and the wake feed after it.                *)
(***************************************************************************)

HostDeliver_SourcesOnly(watched) ==
    /\ DeliverEvent
    /\ hint' = (hint \/ (Subscribed /\ Head(watch).key \in watched
                                    /\ Head(watch).key[2] = "src"))
    /\ UNCHANGED <<phase, oblig, hiccups>>

HostDeliver(watched) ==
    /\ DeliverEvent
    /\ hint' = (hint \/ (Subscribed /\ Head(watch).key \in watched))
    /\ UNCHANGED <<phase, oblig, hiccups>>

HostRelist(watched) ==
    /\ Hiccup
    /\ Relist
    /\ hint' = (hint \/ (Subscribed /\ Relisted \cap watched # {}))
    /\ UNCHANGED <<phase, oblig>>

(***************************************************************************)
(* Obligations.                                                            *)
(***************************************************************************)

Perform_TwoWrites(r) ==
    /\ r \in oblig
    /\ Len(watch) < MaxLag
    /\ obj[Dst(r.i)].there
    /\ Store(Dst(r.i), [obj[Dst(r.i)] EXCEPT !.v = r.v])
    /\ oblig' = oblig \ {r}
    /\ UNCHANGED <<cache, clock, next, held, deletes, phase, hint, hiccups>>

Perform_Upsert(r) ==
    /\ r \in oblig
    /\ Len(watch) < MaxLag
    /\ Store(Dst(r.i), Patched(EmptyObject, r.v, [val |-> r.v, at |-> r.at]))
    /\ oblig' = oblig \ {r}
    /\ UNCHANGED <<cache, clock, next, held, deletes, phase, hint, hiccups>>

\* ensure-all is one merge patch on one object.
Perform(r) ==
    /\ r \in oblig
    /\ Len(watch) < MaxLag
    /\ obj[Dst(r.i)].there
    /\ Store(Dst(r.i), Patched(obj[Dst(r.i)], r.v, [val |-> r.v, at |-> r.at]))
    /\ oblig' = oblig \ {r}
    /\ UNCHANGED <<cache, clock, next, held, deletes, phase, hint, hiccups>>

\* There is nothing to patch.
Refuse(r) ==
    /\ r \in oblig
    /\ ~obj[Dst(r.i)].there
    /\ oblig' = oblig \ {r}
    /\ UNCHANGED <<phase, hint, hiccups>>
    /\ UNCHANGED clusterVars

\* The step cannot see this, by contract.
Drop(r) ==
    /\ r \in oblig
    /\ Hiccup
    /\ oblig' = oblig \ {r}
    /\ UNCHANGED <<phase, hint>>
    /\ UNCHANGED clusterVars

(***************************************************************************)
(* Parking; holds is the resume evaluated against the store.               *)
(***************************************************************************)

\* Leaving a park cancels the subscription, and the hint with it.
Awake == phase' = "Running" /\ hint' = FALSE

ParkCheck_Skipped(holds) ==
    /\ phase = "Parking"
    /\ phase' = "Parked" /\ UNCHANGED hint
    /\ UNCHANGED <<oblig, hiccups>>
    /\ UNCHANGED clusterVars

\* The check before the first tick.
ParkCheck(holds) ==
    /\ phase = "Parking"
    /\ \/ holds /\ Awake
       \/ ~holds /\ phase' = "Parked" /\ UNCHANGED hint
    /\ UNCHANGED <<oblig, hiccups>>
    /\ UNCHANGED clusterVars

\* A hint is consumed by evaluating the resume.
WakeByIndex(holds) ==
    /\ phase = "Parked"
    /\ hint
    /\ \/ holds /\ Awake
       \/ ~holds /\ hint' = FALSE /\ UNCHANGED phase
    /\ UNCHANGED <<oblig, hiccups>>
    /\ UNCHANGED clusterVars

\* The poll tick evaluates the resume of a parked program too.
WakeByPoll(holds) ==
    /\ phase = "Parked"
    /\ holds
    /\ Awake
    /\ UNCHANGED <<oblig, hiccups>>
    /\ UNCHANGED clusterVars

\* The backstop runs a pass whatever the resume says.
Backstop ==
    /\ phase = "Parked"
    /\ Awake
    /\ UNCHANGED <<oblig, hiccups>>
    /\ UNCHANGED clusterVars
============================================================================
