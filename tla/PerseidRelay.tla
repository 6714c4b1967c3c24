---------------------------- MODULE PerseidRelay ----------------------------
(***************************************************************************)
(* Arm B: one Perseid whose step relays data.v of one pair, Mine, and      *)
(* parks when the pair agrees.  The N programs of the arm share nothing    *)
(* but the host's informer.                                                *)
(*                                                                         *)
(* run() is split at its observations: the store may change between any    *)
(* two of them.  What follows the last observation is one action.          *)
(*                                                                         *)
(* Operators named Definition_Slip: see the header of CRRelay.             *)
(***************************************************************************)
EXTENDS Radiant

CONSTANT Mine    \* the pair spec.config names

ASSUME ProgramAssumption == Mine \in Pairs

VARIABLES
    pass,    \* the pass in progress: where it is, and what it wants
    host     \* the radiant and the spec it runs with, fixed from the start:
             \* `configured`, spec.config reached the guest's environment;
             \* `narrows`, it splits path#field, where an older host answers
             \* absent; `wakes`, what it can be relied on to wake a park by

vars == <<obj, cache, watch, clock, next, held, deletes,
          phase, hint, oblig, hiccups, pass, host>>

NoPass == [pc |-> "out", want |-> NoField]

TypeOK ==
    /\ HostTypeOK
    /\ pass \in [pc: {"out", "src", "srcObj", "dst", "dstObj"},
                 want: Values \cup {NoField}]
    /\ pass.pc \in {"dst", "dstObj"} => pass.want \in Values
    /\ pass.pc # "out" => phase = "Running" /\ host.configured
    /\ host \in [configured: BOOLEAN, narrows: BOOLEAN, wakes: {"index", "poll"}]

\* What a narrowed read answers: the field, or absent for a missing field, a
\* missing object and a host that does not split the path alike.
Narrowed(o) == IF host.narrows /\ o.there THEN o.v ELSE NoField

\* Get(src, "data.v") != Get(dst, "data.v"), on the host's store.
ResumeHolds_OnlyUnset == cache[Dst(Mine)].v = NoField

ResumeHolds == cache[Src(Mine)].v # cache[Dst(Mine)].v

\* A yield changes nothing but where the program is.
Yield == pass' = NoPass /\ UNCHANGED <<phase, hint, oblig>>

WantsNext(v, pc) ==
    /\ pass' = [pc |-> pc, want |-> v]
    /\ UNCHANGED <<phase, hint, oblig>>

\* The end of a pass that knows what it wants: declare one obligation dated
\* now, in milliseconds, and yield, or park.
Decide(have) ==
    /\ pass' = NoPass
    /\ \/ /\ have # pass.want
          /\ oblig' = oblig \cup {[i |-> Mine, v |-> pass.want, at |-> Millis]}
          /\ UNCHANGED <<phase, hint>>
       \/ /\ have = pass.want
          /\ phase' = "Parking"
          /\ UNCHANGED <<hint, oblig>>

\* A pass begins on a poll tick.  Without its config a step yields at once.
BeginPass ==
    /\ phase = "Running"
    /\ pass.pc = "out"
    /\ host.configured
    /\ pass' = [NoPass EXCEPT !.pc = "src"]
    /\ UNCHANGED hostVars
    /\ UNCHANGED <<clusterVars, host>>

ReadSourceField ==
    LET v == Narrowed(cache[Src(Mine)]) IN
    /\ pass.pc = "src"
    /\ \/ v # NoField /\ WantsNext(v, "dst")
       \/ v = NoField /\ WantsNext(NoField, "srcObj")
    /\ UNCHANGED hiccups
    /\ UNCHANGED <<clusterVars, host>>

ReadSourceObject_NoFieldCheck ==
    LET s == cache[Src(Mine)] IN
    /\ pass.pc = "srcObj"
    /\ WantsNext(s.v, "dst")
    /\ UNCHANGED hiccups
    /\ UNCHANGED <<clusterVars, host>>

\* The second look tells a missing object, which is terminal, from a missing
\* field, which is the ordinary state before the first write.
ReadSourceObject ==
    LET s == cache[Src(Mine)] IN
    /\ pass.pc = "srcObj"
    /\ \/ s.there /\ s.v # NoField /\ WantsNext(s.v, "dst")
       \/ s.there /\ s.v = NoField /\ Yield
       \/ /\ ~s.there
          /\ phase' = "Terminated"
          /\ pass' = NoPass
          /\ UNCHANGED <<hint, oblig>>
    /\ UNCHANGED hiccups
    /\ UNCHANGED <<clusterVars, host>>

ReadDestinationField ==
    LET v == Narrowed(cache[Dst(Mine)]) IN
    /\ pass.pc = "dst"
    /\ \/ v # NoField /\ Decide(v)
       \/ v = NoField /\ WantsNext(pass.want, "dstObj")
    /\ UNCHANGED hiccups
    /\ UNCHANGED <<clusterVars, host>>

ReadDestinationObject_TerminatesOnAbsent ==
    /\ pass.pc = "dstObj"
    /\ \/ cache[Dst(Mine)].there /\ Decide(cache[Dst(Mine)].v)
       \/ ~cache[Dst(Mine)].there /\ phase' = "Terminated" /\ pass' = NoPass
                                  /\ UNCHANGED <<hint, oblig>>
    /\ UNCHANGED hiccups
    /\ UNCHANGED <<clusterVars, host>>

\* An absent destination and one with no value are both not converged yet.
ReadDestinationObject ==
    /\ pass.pc = "dstObj"
    /\ Decide(cache[Dst(Mine)].v)
    /\ UNCHANGED hiccups
    /\ UNCHANGED <<clusterVars, host>>

\* An observation answers unknown.  Every read yields on it but the last,
\* which takes it for an empty destination.
Unknown ==
    /\ Hiccup
    /\ \/ pass.pc \in {"src", "srcObj", "dst"} /\ Yield
       \/ pass.pc = "dstObj" /\ Decide(NoField)
    /\ UNCHANGED <<clusterVars, host>>

Step ==
    \/ BeginPass
    \/ ReadSourceField
    \/ ReadSourceObject
    \/ ReadDestinationField
    \/ ReadDestinationObject
    \/ Unknown

Watched == {Src(Mine), Dst(Mine)}

Host ==
    /\ \/ HostDeliver(Watched)
       \/ HostRelist(Watched)
       \/ \E r \in oblig : Perform(r) \/ Refuse(r) \/ Drop(r)
       \/ ParkCheck(ResumeHolds)
       \/ WakeByIndex(ResumeHolds)
       \/ WakeByPoll(ResumeHolds)
       \/ Backstop
    /\ UNCHANGED <<pass, host>>

HarnessStep == Harness /\ UNCHANGED <<hostVars, pass, host>>

\* The program is created once its fixtures exist, which is the order every
\* ladder runs the harness in.
Init ==
    /\ HostInit
    /\ \A k \in Keys : obj[k].there
    /\ pass = NoPass
    /\ host \in [configured: BOOLEAN, narrows: BOOLEAN, wakes: {"index", "poll"}]

Next == HarnessStep \/ Step \/ Host

\* Passes, the watch, the park loop and the servicing of obligations go on.  A
\* parked program is woken by the index alone, or by the poll alone (the
\* README reports eleven hours of the latter); the backstop is never needed.
Progress ==
    /\ WF_vars(BeginPass \/ ReadSourceField \/ ReadSourceObject
                 \/ ReadDestinationField \/ ReadDestinationObject)
    /\ WF_vars(HostDeliver(Watched) /\ UNCHANGED <<pass, host>>)
    /\ WF_vars(ParkCheck(ResumeHolds) /\ UNCHANGED <<pass, host>>)
    /\ SF_vars((\E r \in oblig : Perform(r) \/ Refuse(r)) /\ UNCHANGED <<pass, host>>)
    /\ WF_vars(\/ /\ host.wakes = "index"
                  /\ WakeByIndex(ResumeHolds) /\ UNCHANGED <<pass, host>>
               \/ /\ host.wakes = "poll"
                  /\ WakeByPoll(ResumeHolds) /\ UNCHANGED <<pass, host>>)

Spec == Init /\ [][Next]_vars
FairSpec == Spec /\ Progress

(***************************************************************************)
(* Properties.                                                             *)
(***************************************************************************)

\* A destination never shows a value beside the stamp of another one, nor a
\* stamp from the future or from a millisecond or more before the value's
\* origin: ensureAll is one write and now() is read after the source was.
StampDatesItsValue ==
    LET d == obj[Dst(Mine)] IN
    \/ d.v = NoField /\ d.t = NoStamp
    \/ d.v # NoField /\ d.t.val = d.v /\ d.t.at \in After(d.v)

\* Terminated is for ever, so a program only gets there when somebody deleted
\* its own source: a source that is merely empty, a destination that is gone,
\* an unknown answer or a host that does not narrow reads never takes it there.
TerminatedMeansDeleted == phase = "Terminated" => Deleted(Src(Mine))

\* No change is slept through: whenever a parked program's resume holds in
\* the host's store, a hint is waiting in its channel.
NoLostWake == phase = "Parked" /\ ResumeHolds => hint

\* Once the harness stops, the pair ends converged, whichever of its two
\* wakes the host can be relied on for, unless its program was terminated or
\* never knew its pair; and the program stops declaring writes as long as it
\* has a destination to write to.
Settles ==
    <>[](/\ ConvergedPair(Mine) \/ phase = "Terminated" \/ ~host.configured
         /\ obj[Dst(Mine)].there => oblig = {})
=============================================================================
