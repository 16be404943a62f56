---------------------------- MODULE EventEffects ----------------------------
(***************************************************************************)
(* What applying an inbox promises, with no runs, no locks and no retries: *)
(* events arrive, and each has its effect at once and once, after the ones *)
(* its installation made before it for the same aggregate and after what   *)
(* it depends on.  An installation may be closed, and loses then some of   *)
(* its last events that had no effect.                                     *)
(***************************************************************************)
EXTENDS Integers, FiniteSets

CONSTANTS
    Event, Device, DeviceOf, SeqOf, AggregateOf, DependsOn,
    KeepsNothing   \* events that have no effect but to be done with

VARIABLES
    arrival,     \* of each event, its place among the arrivals; 0 before
    effects,     \* of each event, how many times it had its effect
    withdrawn,   \* events set aside
    closed       \* installations nothing more arrives from

vars == <<arrival, effects, withdrawn, closed>>

Arrived == {e \in Event : arrival[e] > 0}
InEffect == {e \in Event : effects[e] > 0}

Init ==
    /\ arrival = [e \in Event |-> 0] /\ effects = [e \in Event |-> 0]
    /\ withdrawn = {} /\ closed = {}

Arrive(e) ==
    /\ e \notin Arrived /\ DeviceOf[e] \notin closed
    /\ arrival' = [arrival EXCEPT ![e] = Cardinality(Arrived) + 1]
    /\ UNCHANGED <<effects, withdrawn, closed>>

\* The events that go before one, as far as they had arrived when it arrived.
Before(e) ==
    {f \in Arrived : /\ DeviceOf[f] = DeviceOf[e] /\ SeqOf[f] < SeqOf[e]
                     /\ AggregateOf[f] = AggregateOf[e]
                     /\ arrival[f] < arrival[e]}

\* Even an event that was withdrawn, if its effect was under way.
TakeEffect(e) ==
    /\ e \in Arrived \ InEffect
    /\ Before(e) \subseteq InEffect \cup withdrawn
    /\ e \in KeepsNothing \/ \A a \in DependsOn[e] : \E f \in InEffect : AggregateOf[f] = a
    /\ effects' = [effects EXCEPT ![e] = 1]
    /\ UNCHANGED <<arrival, withdrawn, closed>>

Withdrawable(d) == {e \in Arrived \ (InEffect \cup withdrawn) : DeviceOf[e] = d}

\* From one of them on.
Close(d) ==
    /\ d \notin closed
    /\ closed' = closed \cup {d}
    /\ \E lost \in SUBSET Withdrawable(d) :
        /\ \A e \in lost, f \in Withdrawable(d) : SeqOf[f] > SeqOf[e] => f \in lost
        /\ withdrawn' = withdrawn \cup lost
    /\ UNCHANGED <<arrival, effects>>

Next ==
    \/ \E e \in Event : Arrive(e) \/ TakeEffect(e)
    \/ \E d \in Device : Close(d)

Spec == Init /\ [][Next]_vars
=============================================================================
