----------------------------- MODULE FusedRelay -----------------------------
(***************************************************************************)
(* Arm B2: one Perseid whose step relays every pair in one pass and parks  *)
(* on one comparison of two collections.  The pass reads the clock once,   *)
(* before its first observation.                                           *)
(*                                                                         *)
(* Operators named Definition_Slip: see the header of CRRelay.             *)
(***************************************************************************)
EXTENDS Radiant, FiniteSets

CONSTANT Count    \* RELAY_COUNT: the pairs the step walks; 0 stands for an unusable one

ASSUME CountAssumption == Count \in 0 .. N

VARIABLE pass    \* the pass in progress

vars == <<obj, cache, watch, clock, next, held, deletes,
          phase, hint, oblig, hiccups, pass>>

NoPass == [pc |-> "out", i |-> 0, want |-> NoField, stamp |-> 0, wrote |-> FALSE]

TypeOK ==
    /\ HostTypeOK
    /\ pass \in [pc: {"out", "src", "dst"}, i: 0 .. N, want: Values \cup {NoField},
                 stamp: 0 .. MaxRounds, wrote: BOOLEAN]
    /\ pass.pc = "dst" => pass.want \in Values /\ pass.i \in Pairs
    /\ pass.pc # "out" => phase = "Running"

\* The pairs that have a fixture on one side, in name order, and what the
\* resume's Fields() renders of them.
Listed(side) == {i \in Pairs : cache[<<i, side>>].there}
Position(side, i) == Cardinality({j \in Listed(side) : j =< i})
Fields(side) == {<<Position(side, i), cache[<<i, side>>].v>> : i \in Listed(side)}

ResumeHolds_FirstPairOnly == cache[Src(0)].v # cache[Dst(0)].v

\* Fields(src) != Fields(dst): both collections in name order, element by
\* element, over every labelled fixture.
ResumeHolds == Fields("src") # Fields("dst")

\* The next pair, with what the pass already knows.
NextPair == [pass EXCEPT !.pc = "src", !.i = @ + 1, !.want = NoField]

\* An unusable RELAY_COUNT yields for ever.  now() is read here, once, in
\* milliseconds.
BeginPass ==
    /\ phase = "Running"
    /\ pass.pc = "out"
    /\ Count > 0
    /\ pass' = [NoPass EXCEPT !.pc = "src", !.stamp = Millis]
    /\ UNCHANGED hostVars
    /\ UNCHANGED clusterVars

ReadSource_NullIsAValue ==
    LET s == cache[Src(pass.i)] IN
    /\ pass.pc = "src"
    /\ pass.i < Count
    /\ pass' = [pass EXCEPT !.pc = "dst", !.want = s.v]
    /\ UNCHANGED hostVars
    /\ UNCHANGED clusterVars

\* A source that is absent, or has no field, is passed over.
ReadSource ==
    LET s == cache[Src(pass.i)] IN
    /\ pass.pc = "src"
    /\ pass.i < Count
    /\ pass' = IF s.there /\ s.v # NoField
               THEN [pass EXCEPT !.pc = "dst", !.want = s.v]
               ELSE NextPair
    /\ UNCHANGED hostVars
    /\ UNCHANGED clusterVars

ReadDestination_LastPairsObject ==
    LET d == cache[Dst(pass.i)] IN
    /\ pass.pc = "dst"
    /\ \/ /\ d.v # pass.want
          /\ oblig' = oblig \cup {[i |-> N - 1, v |-> pass.want, at |-> pass.stamp]}
          /\ pass' = [NextPair EXCEPT !.wrote = TRUE]
       \/ /\ d.v = pass.want
          /\ pass' = NextPair
          /\ UNCHANGED oblig
    /\ UNCHANGED <<phase, hint, hiccups>>
    /\ UNCHANGED clusterVars

\* An absent destination counts as one with no value.
ReadDestination ==
    LET d == cache[Dst(pass.i)] IN
    /\ pass.pc = "dst"
    /\ \/ /\ d.v # pass.want
          /\ oblig' = oblig \cup {[i |-> pass.i, v |-> pass.want, at |-> pass.stamp]}
          /\ pass' = [NextPair EXCEPT !.wrote = TRUE]
       \/ /\ d.v = pass.want
          /\ pass' = NextPair
          /\ UNCHANGED oblig
    /\ UNCHANGED <<phase, hint, hiccups>>
    /\ UNCHANGED clusterVars

\* An unknown answer passes the pair over, on either side.
Unknown ==
    /\ pass.pc \in {"src", "dst"}
    /\ pass.i < Count
    /\ Hiccup
    /\ pass' = NextPair
    /\ UNCHANGED <<phase, hint, oblig>>
    /\ UNCHANGED clusterVars

\* Any write means yield, not park.
EndPass ==
    /\ pass.pc = "src"
    /\ pass.i = Count
    /\ pass' = NoPass
    /\ phase' = IF pass.wrote THEN "Running" ELSE "Parking"
    /\ UNCHANGED <<hint, oblig, hiccups>>
    /\ UNCHANGED clusterVars

Step == BeginPass \/ ReadSource \/ ReadDestination \/ Unknown \/ EndPass

Host ==
    /\ \/ HostDeliver(Keys)
       \/ HostRelist(Keys)
       \/ \E r \in oblig : Perform(r) \/ Refuse(r) \/ Drop(r)
       \/ ParkCheck(ResumeHolds)
       \/ WakeByIndex(ResumeHolds)
       \/ WakeByPoll(ResumeHolds)
       \/ Backstop
    /\ UNCHANGED pass

HarnessStep == Harness /\ UNCHANGED hostVars /\ UNCHANGED pass

Init ==
    /\ HostInit
    /\ \A k \in Keys : obj[k].there
    /\ pass = NoPass

Next == HarnessStep \/ Step \/ Host

\* The host services what was declared for each object, whatever the others do.
ServiceFor(i) ==
    /\ \E r \in oblig : r.i = i /\ (Perform(r) \/ Refuse(r))
    /\ UNCHANGED pass

\* Passes, the watch, the park loop and the servicing of obligations go on; a
\* parked program is woken by the index alone.
Progress ==
    /\ WF_vars(BeginPass \/ ReadSource \/ ReadDestination \/ EndPass)
    /\ WF_vars(HostDeliver(Keys) /\ UNCHANGED pass)
    /\ WF_vars(ParkCheck(ResumeHolds) /\ UNCHANGED pass)
    /\ \A i \in Pairs : SF_vars(ServiceFor(i))

Spec == Init /\ [][Next]_vars
IndexSpec == Spec /\ Progress /\ WF_vars(WakeByIndex(ResumeHolds) /\ UNCHANGED pass)

(***************************************************************************)
(* Properties.                                                             *)
(***************************************************************************)

\* No change to any pair is slept through: whenever the resume of the parked
\* program holds in the host's store, a hint is waiting in its channel.
NoLostWake == phase = "Parked" /\ ResumeHolds => hint

\* Once the harness stops, every pair the step walks ends converged, and the
\* program stops declaring writes as long as it has every destination.
Settles ==
    <>[](/\ \A i \in 0 .. Count - 1 : ConvergedPair(i)
         /\ (\A i \in Pairs : obj[Dst(i)].there) => oblig = {})

\* "the operator stamped a clock earlier than the harness's write instant,
\* which on a single host cannot happen" (measure.go): no stamp is earlier
\* than the origin of the value it dates.
NoNegativeReaction == \A i \in Pairs : obj[Dst(i)].t.at >= obj[Dst(i)].v
=============================================================================
