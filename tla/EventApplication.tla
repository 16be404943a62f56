-------------------------- MODULE EventApplication --------------------------
(***************************************************************************)
(* How the cloud applies the events of its inbox.                          *)
(*                                                                         *)
(* A run of the task applies, one transaction each, the events that are    *)
(* due, the earliest of its aggregate first; two runs may overlap.  An     *)
(* event that fails is tried again later, and quarantined at its last      *)
(* attempt, until an administrator releases it.  Meanwhile events arrive,  *)
(* some of them ahead of the ones before them, a push whose chain is       *)
(* broken sets aside the events its installation has beyond a hole, and    *)
(* somebody closes the alert of quarantined events by hand.                *)
(*                                                                         *)
(* A transaction is as many steps as it has moments another one can tell   *)
(* apart: it reads what is committed (read committed), and holds its       *)
(* locks, from its first step to its last, which commits it.               *)
(***************************************************************************)
EXTENDS Integers, FiniteSets

CONSTANTS
    Event, Device, Aggregate,
    DeviceOf, SeqOf, OccurredAt, AggregateOf,   \* of each event, given when it was created
    DependsOn,      \* dependenciesOf: the aggregates that must have been applied before
    KeepsNothing,   \* events whose fact the cloud does not keep
    Attachable,     \* events that may come ahead of the ones before, attached to a request
    Breakable,      \* installations that may push a broken chain
    Closable,       \* installations whose alert may be closed by hand
    Runs,           \* runs of the task that may overlap: WORKER_CONCURRENCY is 2
    MaxAttempts,    \* MAX_ATTEMPTS
    Limit,          \* EVENTS_PER_RUN
    MaxReleases,    \* bound: quarantined events an administrator releases
    MaxCrashes,     \* bound: runs that end before their time
    NoEvent

ASSUME EventsAssumption ==
    /\ IsFiniteSet(Event) /\ NoEvent \notin Event
    /\ Device \subseteq Int \* an id's place among the ids, by code units
    /\ DeviceOf \in [Event -> Device]
    /\ SeqOf \in [Event -> Nat \ {0}]
    /\ OccurredAt \in [Event -> Nat]
    /\ AggregateOf \in [Event -> Aggregate]
    /\ DependsOn \in [Event -> SUBSET Aggregate]
    /\ \A e, f \in Event : DeviceOf[e] = DeviceOf[f] /\ SeqOf[e] = SeqOf[f] => e = f
ASSUME BoundsAssumption ==
    /\ MaxAttempts \in Nat \ {0} /\ Limit \in Nat \ {0}
    /\ MaxReleases \in Nat /\ MaxCrashes \in Nat

VARIABLES
    \* the inbox: the rows, and of each one
    held,
    applied,       \* applied_at is set
    quarantined,   \* quarantined_at is set
    waiting,       \* next_attempt_at is in the future
    attempts,
    receivedAt,    \* received_at, as the number of events received until then; 0 before
    \* the rest of the cloud's database
    recorded,      \* how many times what the event says was recorded
    refused,       \* events set aside
    revoked,       \* installations revoked
    alerts,        \* installations with an open events_quarantined alert
    dismissed,     \* auxiliary: events whose alert was closed by hand, and none opened since
    \* the queue and the runs
    queued,        \* a job of the task waits for a worker
    pc, todo, attempted, current,
    newAlert,      \* the run's transaction found no open alert and inserted one
    releasing,     \* events whose release holds its aggregate and waits for its installation
    \* what happened so far
    releases, crashes

inboxVars == <<held, applied, quarantined, waiting, attempts, receivedAt>>
cloudVars == <<recorded, refused, revoked, alerts, dismissed>>
runVars == <<pc, todo, attempted, current, newAlert>>
counters == <<releases, crashes>>
vars == <<inboxVars, cloudVars, queued, runVars, releasing, counters>>

PcLabels == {"idle", "running", "applying", "failed", "locking", "quarantining"}

\* A run in a transaction that holds an aggregate.
InTransaction(r) == pc[r] \in {"applying", "locking", "quarantining"}

TypeOK ==
    /\ applied \subseteq held /\ held \subseteq Event
    /\ quarantined \subseteq held /\ waiting \subseteq held
    /\ attempts \in [Event -> 0..MaxAttempts]
    /\ receivedAt \in [Event -> Nat]
    /\ recorded \in [Event -> Nat]
    /\ refused \subseteq Event /\ revoked \subseteq Device /\ alerts \subseteq Device
    /\ dismissed \subseteq Event
    /\ queued \in BOOLEAN
    /\ pc \in [Runs -> PcLabels]
    /\ todo \in [Runs -> SUBSET Aggregate]
    /\ attempted \in [Runs -> 0..Limit]
    /\ current \in [Runs -> Event \cup {NoEvent}]
    /\ newAlert \in [Runs -> BOOLEAN]
    /\ releasing \subseteq quarantined
    /\ releases \in 0..MaxReleases /\ crashes \in 0..MaxCrashes

-----------------------------------------------------------------------------
(* The order in which the events of an aggregate are applied *)

\* An installation's events among some events, up to one of them.
OwnUpTo(e, events) ==
    {f \in events : DeviceOf[f] = DeviceOf[e] /\ SeqOf[f] <= SeqOf[e]}

\* Faulty: the instant the event itself reports.
LatestIsItsOwn(e, events, instant) == instant[e]

\* The latest instant an installation reported up to one of its events.
Latest(e, events, instant) ==
    instant[CHOOSE f \in OwnUpTo(e, events) :
        \A g \in OwnUpTo(e, events) : instant[g] <= instant[f]]

\* inCreationOrder, as a relation between two of the events given.
CreatedBefore(e, f, events) ==
    LET occurred(x) == Latest(x, events, OccurredAt)
        received(x) == Latest(x, events, receivedAt)
    IN  \/ occurred(e) < occurred(f)
        \/ /\ occurred(e) = occurred(f)
           /\ \/ received(e) < received(f)
              \/ received(e) = received(f) /\ DeviceOf[e] < DeviceOf[f]
              \/ /\ received(e) = received(f)
                 /\ DeviceOf[e] = DeviceOf[f] /\ SeqOf[e] < SeqOf[f]

Earliest(events) ==
    CHOOSE e \in events : \A f \in events \ {e} : CreatedBefore(e, f, events)

UnappliedEventsOf(a) == {e \in held \ applied : AggregateOf[e] = a}

\* nextEventToApply: the aggregate waits while its earliest event does.
HasEventDue(a) ==
    /\ UnappliedEventsOf(a) # {}
    /\ Earliest(UnappliedEventsOf(a)) \notin quarantined \cup waiting

IsNextDue(e) ==
    /\ e \in UnappliedEventsOf(AggregateOf[e])
    /\ HasEventDue(AggregateOf[e])
    /\ e = Earliest(UnappliedEventsOf(AggregateOf[e]))

\* Faulty: only what never failed.
PendingAggregatesNeverTried ==
    {AggregateOf[e] : e \in {f \in held \ (applied \cup quarantined) : attempts[f] = 0}}

PendingAggregates == {AggregateOf[e] : e \in held \ (applied \cup quarantined)}

\* Faulty: an event of the aggregate was received.
AggregateAppliedWhenHeld(a) == \E e \in held : AggregateOf[e] = a

AggregateApplied(a) == \E e \in applied : AggregateOf[e] = a

-----------------------------------------------------------------------------
(* Locks: an aggregate's, tried by runs and waited for by releases, and an
   installation's quarantines *)

\* Faulty: runs take no lock.
AggregateLockedByReleases(a) == \E e \in releasing : AggregateOf[e] = a

AggregateLocked(a) ==
    \/ \E r \in Runs : InTransaction(r) /\ AggregateOf[current[r]] = a
    \/ \E e \in releasing : AggregateOf[e] = a

\* Faulty: nobody takes it.
DeviceQuarantinesNeverLocked(d) == FALSE

DeviceQuarantinesLocked(d) ==
    \E r \in Runs : pc[r] = "quarantining" /\ DeviceOf[current[r]] = d

-----------------------------------------------------------------------------
Init ==
    /\ held = {} /\ applied = {} /\ quarantined = {} /\ waiting = {}
    /\ attempts = [e \in Event |-> 0] /\ receivedAt = [e \in Event |-> 0]
    /\ recorded = [e \in Event |-> 0]
    /\ refused = {} /\ revoked = {} /\ alerts = {} /\ dismissed = {}
    /\ queued = FALSE
    /\ pc = [r \in Runs |-> "idle"]
    /\ todo = [r \in Runs |-> {}]
    /\ attempted = [r \in Runs |-> 0]
    /\ current = [r \in Runs |-> NoEvent]
    /\ newAlert = [r \in Runs |-> FALSE]
    /\ releasing = {}
    /\ releases = 0 /\ crashes = 0

-----------------------------------------------------------------------------
(* The inbox receives, and refuses *)

Received == {e \in Event : receivedAt[e] > 0}

\* A push brings the first event of its installation that is not held; an attachment, any.
Receive(e) ==
    /\ e \notin Received
    /\ DeviceOf[e] \notin revoked
    /\ \/ e \in Attachable
       \/ \A f \in Event : DeviceOf[f] = DeviceOf[e] /\ SeqOf[f] < SeqOf[e] => f \in held
    /\ held' = held \cup {e}
    /\ receivedAt' = [receivedAt EXCEPT ![e] = Cardinality(Received) + 1]
    /\ queued' = TRUE
    /\ UNCHANGED <<applied, quarantined, waiting, attempts, cloudVars, runVars, releasing,
                   counters>>

\* The events an installation has beyond a hole.
BeyondHole(d) ==
    {e \in held : /\ DeviceOf[e] = d
                  /\ \E n \in 1..SeqOf[e] : \A f \in held :
                        ~(DeviceOf[f] = d /\ SeqOf[f] = n)}

\* A push whose chain is broken: the delete waits for the rows that a release locked, and
\* leaves the ones that were applied by then.
RefuseBrokenChain(d) ==
    LET dropped == BeyondHole(d) \ applied
    IN  /\ d \in Breakable \ revoked
        /\ BeyondHole(d) \cap releasing = {}
        /\ refused' = refused \cup BeyondHole(d)
        /\ held' = held \ dropped
        /\ quarantined' = quarantined \ dropped
        /\ waiting' = waiting \ dropped
        /\ revoked' = revoked \cup {d}
    /\ UNCHANGED <<applied, attempts, receivedAt, recorded, alerts, dismissed, queued, runVars,
                   releasing, counters>>

\* The time of an event's next attempt comes.
RetryComes(e) ==
    /\ e \in waiting
    /\ waiting' = waiting \ {e}
    /\ UNCHANGED <<held, applied, quarantined, attempts, receivedAt, cloudVars, queued, runVars,
                   releasing, counters>>

-----------------------------------------------------------------------------
(* A run of the task *)

\* Every minute. Of the jobs that wait one is kept: the next minute brings another.
EnqueueEveryMinute ==
    /\ ~queued
    /\ queued' = TRUE
    /\ UNCHANGED <<inboxVars, cloudVars, runVars, releasing, counters>>

StartRun(r) ==
    /\ pc[r] = "idle" /\ queued
    /\ queued' = FALSE
    /\ pc' = [pc EXCEPT ![r] = "running"]
    /\ todo' = [todo EXCEPT ![r] = PendingAggregates]
    /\ attempted' = [attempted EXCEPT ![r] = 0]
    /\ UNCHANGED <<inboxVars, cloudVars, current, newAlert, releasing, counters>>

Going(r) == pc[r] = "running" /\ attempted[r] < Limit

\* Busy, or nothing due: the run is done with the aggregate.
SkipAggregate(r) ==
    /\ Going(r)
    /\ \E a \in todo[r] :
        /\ AggregateLocked(a) \/ ~HasEventDue(a)
        /\ todo' = [todo EXCEPT ![r] = @ \ {a}]
    /\ UNCHANGED <<inboxVars, cloudVars, queued, pc, attempted, current, newAlert, releasing,
                   counters>>

\* The transaction takes the aggregate and reads which event it applies.
BeginApply(r) ==
    /\ Going(r)
    /\ \E a \in todo[r] :
        /\ ~AggregateLocked(a) /\ HasEventDue(a)
        /\ current' = [current EXCEPT ![r] = Earliest(UnappliedEventsOf(a))]
    /\ pc' = [pc EXCEPT ![r] = "applying"]
    /\ UNCHANGED <<inboxVars, cloudVars, queued, todo, attempted, newAlert, releasing, counters>>

\* markApplied: the row, if it is still there.
MarkApplied(e) == applied \cup ({e} \cap held)

\* The fact is recorded and the event marked in one transaction, and the run goes on.
CommitApply(r) ==
    LET e == current[r]
    IN  /\ pc[r] = "applying"
        /\ e \in KeepsNothing \/ \A a \in DependsOn[e] : AggregateApplied(a)
        /\ recorded' = IF e \in KeepsNothing THEN recorded ELSE [recorded EXCEPT ![e] = @ + 1]
        /\ applied' = MarkApplied(e)
        /\ pc' = [pc EXCEPT ![r] = "running"]
        /\ attempted' = [attempted EXCEPT ![r] = @ + 1]
        /\ current' = [current EXCEPT ![r] = NoEvent]
    /\ UNCHANGED <<held, quarantined, waiting, attempts, receivedAt, refused, revoked, alerts,
                   dismissed, queued, todo, newAlert, releasing, counters>>

\* Unreadable, a dependency missing or not recorded: all of it is rolled back.
FailApply(r) ==
    LET e == current[r]
    IN  /\ pc[r] = "applying"
        /\ pc' = [pc EXCEPT ![r] = "failed"]
        /\ attempted' = [attempted EXCEPT ![r] = @ + 1]
        /\ todo' = [todo EXCEPT ![r] = @ \ {AggregateOf[e]}]
    /\ UNCHANGED <<inboxVars, cloudVars, queued, current, newAlert, releasing, counters>>

\* Faulty: whatever happened to the event since it failed.
CountsWhateverHappened(e) == ~AggregateLocked(AggregateOf[e])

\* Faulty: the event is still the next, though its retry has not come.
CountsWhileWaiting(e) ==
    /\ ~AggregateLocked(AggregateOf[e])
    /\ e \in UnappliedEventsOf(AggregateOf[e]) \ quarantined
    /\ e = Earliest(UnappliedEventsOf(AggregateOf[e]))

\* recordFailure, in a transaction of its own: the failure counts while nobody else has the
\* aggregate and the event is still the one that is due.
Counts(e) == ~AggregateLocked(AggregateOf[e]) /\ IsNextDue(e)

DropObsoleteFailure(r) ==
    /\ pc[r] = "failed" /\ ~Counts(current[r])
    /\ pc' = [pc EXCEPT ![r] = "running"]
    /\ current' = [current EXCEPT ![r] = NoEvent]
    /\ UNCHANGED <<inboxVars, cloudVars, queued, todo, attempted, newAlert, releasing, counters>>

RecordRetry(r) ==
    LET e == current[r]
    IN  /\ pc[r] = "failed" /\ Counts(e)
        /\ attempts[e] + 1 < MaxAttempts
        /\ attempts' = [attempts EXCEPT ![e] = @ + 1]
        /\ waiting' = waiting \cup {e}
        /\ pc' = [pc EXCEPT ![r] = "running"]
        /\ current' = [current EXCEPT ![r] = NoEvent]
    /\ UNCHANGED <<held, applied, quarantined, receivedAt, cloudVars, queued, todo, attempted,
                   newAlert, releasing, counters>>

\* The last attempt: the transaction keeps the aggregate and waits for the installation's lock.
BeginQuarantine(r) ==
    /\ pc[r] = "failed" /\ Counts(current[r])
    /\ attempts[current[r]] + 1 >= MaxAttempts
    /\ pc' = [pc EXCEPT ![r] = "locking"]
    /\ UNCHANGED <<inboxVars, cloudVars, queued, todo, attempted, current, newAlert, releasing,
                   counters>>

EventsOf(d) == {e \in Event : DeviceOf[e] = d}

\* lockDeviceQuarantines, and openAlert, which inserts an alert unless another is open.
OpenAlert(r) ==
    LET d == DeviceOf[current[r]]
    IN  /\ pc[r] = "locking"
        /\ ~DeviceQuarantinesLocked(d)
        /\ pc' = [pc EXCEPT ![r] = "quarantining"]
        /\ newAlert' = [newAlert EXCEPT ![r] = d \notin alerts]
        /\ dismissed' = dismissed \ {current[r]}
    /\ UNCHANGED <<inboxVars, recorded, refused, revoked, alerts, queued, todo, attempted, current,
                   releasing, counters>>

\* openAlertId looks for the other one, and throws when it was closed meanwhile: the run ends,
\* and nothing of the attempt is recorded.  Closed after that, it is not missed.
LoseAlert(r) ==
    /\ pc[r] = "quarantining" /\ ~newAlert[r] /\ DeviceOf[current[r]] \notin alerts
    /\ pc' = [pc EXCEPT ![r] = "idle"]
    /\ todo' = [todo EXCEPT ![r] = {}]
    /\ attempted' = [attempted EXCEPT ![r] = 0]
    /\ current' = [current EXCEPT ![r] = NoEvent]
    /\ UNCHANGED <<inboxVars, cloudVars, queued, newAlert, releasing, counters>>

\* The row, if it is still there, is quarantined.
CommitQuarantine(r) ==
    LET e == current[r]
    IN  /\ pc[r] = "quarantining"
        /\ quarantined' = quarantined \cup ({e} \cap held)
        /\ attempts' = IF e \in held THEN [attempts EXCEPT ![e] = @ + 1] ELSE attempts
        /\ alerts' = IF newAlert[r] THEN alerts \cup {DeviceOf[e]} ELSE alerts
        /\ dismissed' = IF newAlert[r] THEN dismissed \ EventsOf(DeviceOf[e]) ELSE dismissed
        /\ newAlert' = [newAlert EXCEPT ![r] = FALSE]
        /\ pc' = [pc EXCEPT ![r] = "running"]
        /\ current' = [current EXCEPT ![r] = NoEvent]
    /\ UNCHANGED <<held, applied, waiting, receivedAt, recorded, refused, revoked, queued, todo,
                   attempted, releasing, counters>>

\* A run that used all of its allowance queues another one.
EndRun(r) ==
    /\ pc[r] = "running"
    /\ todo[r] = {} \/ attempted[r] = Limit
    /\ pc' = [pc EXCEPT ![r] = "idle"]
    /\ todo' = [todo EXCEPT ![r] = {}]
    /\ queued' = (queued \/ attempted[r] = Limit)
    /\ attempted' = [attempted EXCEPT ![r] = 0]
    /\ UNCHANGED <<inboxVars, cloudVars, current, newAlert, releasing, counters>>

\* The worker's process or its connection ends, and its transaction with it.
Crash(r) ==
    /\ crashes < MaxCrashes /\ pc[r] # "idle"
    /\ crashes' = crashes + 1
    /\ pc' = [pc EXCEPT ![r] = "idle"]
    /\ todo' = [todo EXCEPT ![r] = {}]
    /\ attempted' = [attempted EXCEPT ![r] = 0]
    /\ current' = [current EXCEPT ![r] = NoEvent]
    /\ newAlert' = [newAlert EXCEPT ![r] = FALSE]
    /\ UNCHANGED <<inboxVars, cloudVars, queued, releasing, releases>>

-----------------------------------------------------------------------------
(* releaseQuarantinedEvent *)

\* The release waits for the aggregate and takes the row; nothing is released otherwise.
BeginRelease(e) ==
    /\ releases < MaxReleases
    /\ e \in quarantined \ applied
    /\ ~AggregateLocked(AggregateOf[e])
    /\ releasing' = releasing \cup {e}
    /\ releases' = releases + 1
    /\ UNCHANGED <<inboxVars, cloudVars, queued, runVars, crashes>>

\* Faulty: the attempts go on from where they were.
NewSeriesContinues(e) == attempts

\* releasedForNewSeries
NewSeries(e) == [attempts EXCEPT ![e] = 0]

\* deviceHasQuarantinedEvents, once an event is released.
HasQuarantinedBesides(e) ==
    \E f \in quarantined \ (applied \cup {e}) : DeviceOf[f] = DeviceOf[e]

\* A new series of attempts, and no alert when nothing of the installation is quarantined.
CommitRelease(e) ==
    /\ e \in releasing
    /\ ~DeviceQuarantinesLocked(DeviceOf[e])
    /\ releasing' = releasing \ {e}
    /\ quarantined' = quarantined \ {e}
    /\ waiting' = waiting \ {e}
    /\ attempts' = NewSeries(e)
    /\ alerts' = IF HasQuarantinedBesides(e) THEN alerts ELSE alerts \ {DeviceOf[e]}
    /\ UNCHANGED <<held, applied, receivedAt, recorded, refused, revoked, dismissed, queued,
                   runVars, releases, crashes>>

-----------------------------------------------------------------------------
(* The back office *)

\* closeAlert: an open alert is closed by hand, whatever is quarantined and without the
\* installation's lock.
CloseAlert(d) ==
    /\ d \in Closable \cap alerts
    /\ alerts' = alerts \ {d}
    /\ dismissed' = dismissed \cup EventsOf(d)
    /\ UNCHANGED <<inboxVars, recorded, refused, revoked, queued, runVars, releasing, counters>>

-----------------------------------------------------------------------------
RunStep(r) ==
    \/ StartRun(r) \/ SkipAggregate(r) \/ BeginApply(r) \/ CommitApply(r) \/ FailApply(r)
    \/ DropObsoleteFailure(r) \/ RecordRetry(r)
    \/ BeginQuarantine(r) \/ OpenAlert(r) \/ LoseAlert(r)
    \/ CommitQuarantine(r) \/ EndRun(r)

Next ==
    \/ \E e \in Event : Receive(e) \/ RetryComes(e) \/ BeginRelease(e) \/ CommitRelease(e)
    \/ \E d \in Device : RefuseBrokenChain(d) \/ CloseAlert(d)
    \/ EnqueueEveryMinute
    \/ \E r \in Runs : RunStep(r) \/ Crash(r)

\* Every failure of a run is recorded in the end: the transactions of another run, which make it
\* obsolete, do not meet it at every one of the runs a minute apart.
Fairness ==
    /\ WF_vars(EnqueueEveryMinute)
    /\ \A e \in Event : WF_vars(RetryComes(e)) /\ WF_vars(CommitRelease(e))
    /\ \A r \in Runs : WF_vars(RunStep(r)) /\ SF_vars(RecordRetry(r) \/ BeginQuarantine(r))

Spec == Init /\ [][Next]_vars
FairSpec == Spec /\ Fairness

-----------------------------------------------------------------------------
(* Properties *)

\* However runs overlap, fail or end, what an event says is recorded at most once, and an event
\* that is held is marked as applied exactly when it is recorded (apply-pending-events.ts,
\* applyNextEvent: the aggregate's lock, the read and the marking in one transaction).
AppliedOnce ==
    /\ \A e \in Event : recorded[e] <= 1
    /\ \A e \in held \ KeepsNothing : e \in applied <=> recorded[e] = 1

\* An event is never applied before one that its installation created earlier for the same
\* aggregate and that the cloud had received when it received it: neither a clock set back, nor
\* a retry, a quarantine or an event of another installation changes that (creation-order.ts).
OwnSequenceKept ==
    \A e \in applied, f \in held :
        /\ DeviceOf[e] = DeviceOf[f] /\ SeqOf[f] < SeqOf[e]
        /\ AggregateOf[e] = AggregateOf[f]
        /\ receivedAt[f] < receivedAt[e]
        => f \in applied

\* What is recorded was recorded after what it depends on, which a retry, an early attachment
\* or a refused push does not change (applyEvent: aggregateApplied of each dependency).
DependenciesApplied ==
    \A e \in Event \ KeepsNothing :
        recorded[e] > 0 => \A a \in DependsOn[e] : \E f \in applied : AggregateOf[f] = a

\* Two runs that fail on the same event count one failure, and none until its retry comes.
RetriesAreSpaced ==
    [][\A e \in Event : attempts'[e] > attempts[e] => e \notin waiting]_vars

\* No event is quarantined without the alert that tells so, though releases of its installation
\* clear it at the same time (lock-device-quarantines.ts), unless somebody closed that alert by
\* hand (close-alert.ts) after the quarantine looked for it; the next alert of the installation
\* stands for such an event too.
QuarantinedIsAlerted ==
    \A e \in quarantined : DeviceOf[e] \in alerts <=> e \notin dismissed

\* An alert stays open only for an event that is quarantined, unless a refused push set the
\* event aside.
AlertHasReason ==
    \A d \in alerts : d \in revoked \/ \E e \in quarantined \ applied : DeviceOf[e] = d

\* An event that was received is in the end applied or set aside, or it waits behind one that is
\* quarantined.
EverythingSettles ==
    \A e \in Event : e \in held ~>
        \/ e \in applied \/ e \notin held
        \/ Earliest(UnappliedEventsOf(AggregateOf[e])) \in quarantined

-----------------------------------------------------------------------------
(* The inductive invariant: TypeOK and the safety properties, with what ties
   the transactions under way to the database *)

\* What was received is held unless it was set aside.
ReceivedIsKept ==
    /\ held \subseteq Received
    /\ \A e \in Received \ held : DeviceOf[e] \in revoked
    /\ \A e \in Event : recorded[e] > 0 => e \in Received \ KeepsNothing
    /\ \A e \in Event : receivedAt[e] <= Cardinality(Received)

\* The locks exclude runs and releases from each other's aggregates.
Exclusion ==
    /\ \A r, q \in Runs :
        InTransaction(r) /\ InTransaction(q) /\ AggregateOf[current[r]] = AggregateOf[current[q]]
        => r = q
    /\ \A r \in Runs, e \in releasing :
        InTransaction(r) => AggregateOf[current[r]] # AggregateOf[e]
    /\ \A e, f \in releasing : AggregateOf[e] = AggregateOf[f] => e = f

\* What a run knows of the event it has at hand stays true while its transaction lasts.
RunsKnowTheirEvents ==
    \A r \in Runs :
        /\ InTransaction(r) \/ pc[r] = "failed" => current[r] \in Received
        /\ InTransaction(r) => current[r] \notin applied \cup quarantined \cup waiting
        /\ pc[r] = "applying" => recorded[current[r]] = 0 /\ attempted[r] < Limit
        /\ pc[r] = "quarantining" /\ ~newAlert[r] =>
            (DeviceOf[current[r]] \in alerts <=> current[r] \notin dismissed)

\* What a run applies comes after every event of its own that OwnSequenceKept speaks of.
RunsKeepOwnSequence ==
    \A r \in Runs, f \in held :
        /\ pc[r] = "applying"
        /\ DeviceOf[current[r]] = DeviceOf[f] /\ SeqOf[f] < SeqOf[current[r]]
        /\ AggregateOf[current[r]] = AggregateOf[f]
        /\ receivedAt[f] < receivedAt[current[r]]
        => f \in applied

\* The last attempt quarantines.
AttemptsLeft ==
    /\ \A e \in Event \ quarantined : e \in held \/ e \notin Received => attempts[e] < MaxAttempts
    /\ quarantined \cap applied = {}

IInv ==
    /\ TypeOK /\ ReceivedIsKept /\ Exclusion /\ RunsKnowTheirEvents /\ AttemptsLeft
    /\ AppliedOnce /\ QuarantinedIsAlerted /\ AlertHasReason
    /\ OwnSequenceKept /\ RunsKeepOwnSequence

-----------------------------------------------------------------------------
\* What the comment of setAsideHeldEventsAbove says (sync-ports.ts): an event the cloud derived
\* something from stays held.
RecordedStaysHeld == \A e \in Event : recorded[e] > 0 => e \in held

-----------------------------------------------------------------------------
\* Refinement: applying the inbox implements EventEffects (applyNextEvent): a run's lock, its
\* read and its commit come to one step, whatever other runs, releases, retries and refused
\* pushes do in between.  What keeps a fact has its effect when the fact is recorded, what keeps
\* none when it is marked.
Abstract == INSTANCE EventEffects WITH
    arrival <- receivedAt,
    effects <- [e \in Event |->
        IF e \notin KeepsNothing THEN recorded[e] ELSE IF e \in applied THEN 1 ELSE 0],
    withdrawn <- Received \ held,
    closed <- revoked

ImplementsEventEffects == Abstract!Spec
=============================================================================
