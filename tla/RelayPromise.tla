---------------------------- MODULE RelayPromise ----------------------------
(***************************************************************************)
(* What every arm promises, with no cluster, no informer, no queue and no  *)
(* host: a relay may at any time put into an existing destination a value  *)
(* its source has held, together with a stamp naming that value and dated  *)
(* no later than now, in one write.  Nothing else ever writes a            *)
(* destination.  An arm implements it with its destination objects for     *)
(* `destination` and the history of its sources for `held`.                *)
(***************************************************************************)
EXTENDS Integers

CONSTANT Pairs

VARIABLES
    destination,   \* what stands at the destination of each pair
    held,          \* the values each source has held
    clock          \* the values encoded so far; a value is its own origin

promiseVars == <<destination, held, clock>>

\* No object, and an object as it is born.
None == [there |-> FALSE, v |-> 0, t |-> [val |-> 0, at |-> 0]]
Blank == [there |-> TRUE, v |-> 0, t |-> [val |-> 0, at |-> 0]]

\* The harness makes and removes destinations.
Appear(i) ==
    /\ ~destination[i].there
    /\ destination' = [destination EXCEPT ![i] = Blank]
    /\ UNCHANGED <<held, clock>>

Vanish(i) ==
    /\ destination[i].there
    /\ destination' = [destination EXCEPT ![i] = None]
    /\ UNCHANGED <<held, clock>>

\* A new value is encoded, and reaches a source.
Encode == clock' = clock + 1 /\ UNCHANGED <<destination, held>>

Publish(i) ==
    /\ held' = [held EXCEPT ![i] = @ \cup {clock}]
    /\ UNCHANGED <<destination, clock>>

\* The one thing a relay may do.
Relay(i) ==
    /\ destination[i].there
    /\ \E x \in held[i], c \in 0 .. clock :
         destination' = [destination EXCEPT
                           ![i] = [there |-> TRUE, v |-> x, t |-> [val |-> x, at |-> c]]]
    /\ UNCHANGED <<held, clock>>

Init ==
    /\ destination \in [Pairs -> {None, Blank}]
    /\ held = [i \in Pairs |-> {}]
    /\ clock = 0

Next ==
    \/ Encode
    \/ \E i \in Pairs : Appear(i) \/ Vanish(i) \/ Publish(i) \/ Relay(i)

Spec == Init /\ [][Next]_promiseVars
=============================================================================
