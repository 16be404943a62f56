----------------------- MODULE EventApplicationProofs -----------------------
(***************************************************************************)
(* For any events, installations, runs and bounds: the safety properties   *)
(* of EventApplication.  OwnSequenceKept rests on the creation order being *)
(* a strict total order, so that the earliest event is before all others.  *)
(***************************************************************************)
EXTENDS EventApplication, FiniteSetTheorems, WellFoundedInduction, TLAPS

-----------------------------------------------------------------------------
(* The creation order *)

\* A finite set that a strict order does not leave empty has a minimal element: what is below
\* an element grows strictly along the order.
LEMMA MinimalElement ==
    ASSUME NEW S, IsFiniteSet(S), S # {}, NEW R \in SUBSET (S \X S),
           \A x, y, z \in S : <<x, y>> \in R /\ <<y, z>> \in R => <<x, z>> \in R,
           \A x \in S : <<x, x>> \notin R
    PROVE  \E x \in S : \A y \in S : <<y, x>> \notin R
<1> DEFINE Below(x) == {y \in S : <<y, x>> \in R}
           Belows == {Below(x) : x \in S}
           Smaller == StrictSubsetOrdering(S)
<1>1. IsWellFoundedOn(Smaller, FiniteSubsetsOf(S))
  BY FS_StrictSubsetOrderingWellFounded
<1>2. Belows # {}
  <2>1. PICK x \in S : TRUE
    OBVIOUS
  <2>2. Below(x) \in Belows
    OBVIOUS
  <2> QED BY <2>2
<1>3. Belows \subseteq FiniteSubsetsOf(S)
  BY FS_Subset DEF FiniteSubsetsOf
<1>4. \E B \in Belows : \A C \in Belows : <<C, B>> \notin Smaller
  <2> HIDE DEF Belows, Smaller
  <2> QED BY <1>1, <1>2, <1>3, WFMin
<1>5. PICK x \in S : \A y \in S : <<Below(y), Below(x)>> \notin Smaller
  <2> HIDE DEF Below, Smaller
  <2> QED BY <1>4
<1>6. ASSUME NEW y \in S, <<y, x>> \in R PROVE FALSE
  <2>1. Below(y) \subseteq Below(x)
    BY <1>6
  <2>2. y \in Below(x) /\ y \notin Below(y)
    BY <1>6
  <2>3. <<Below(y), Below(x)>> \in Smaller
    BY <2>1, <2>2 DEF StrictSubsetOrdering
  <2> QED BY <2>3, <1>5
<1> QED BY <1>6

\* The latest instant is one that the installation reported, and no earlier than any.
LEMMA LatestSpec ==
    ASSUME NEW S \in SUBSET Event, NEW e \in S, NEW instant \in [Event -> Nat]
    PROVE  /\ Latest(e, S, instant) \in Nat
           /\ \A f \in OwnUpTo(e, S) : instant[f] <= Latest(e, S, instant)
           /\ \E f \in OwnUpTo(e, S) : Latest(e, S, instant) = instant[f]
<1> DEFINE Own == OwnUpTo(e, S)
           R == {p \in Own \X Own : instant[p[1]] > instant[p[2]]}
<1>1. e \in Own /\ Own \subseteq Event /\ IsFiniteSet(Own)
  BY EventsAssumption, FS_Subset DEF OwnUpTo
<1>2. \E x \in Own : \A y \in Own : <<y, x>> \notin R
  <2>1. \A x, y, z \in Own : <<x, y>> \in R /\ <<y, z>> \in R => <<x, z>> \in R
    <3> SUFFICES ASSUME NEW x \in Own, NEW y \in Own, NEW z \in Own,
                        instant[x] > instant[y], instant[y] > instant[z]
                 PROVE  instant[x] > instant[z]
      OBVIOUS
    <3>1. instant[x] \in Nat /\ instant[y] \in Nat /\ instant[z] \in Nat
      BY <1>1
    <3> QED BY <3>1
  <2>2. \A x \in Own : <<x, x>> \notin R
    BY <1>1
  <2>3. R \in SUBSET (Own \X Own) /\ Own # {}
    BY <1>1
  <2> HIDE DEF R, Own
  <2> QED BY <1>1, <2>1, <2>2, <2>3, MinimalElement
<1>3. \E f \in Own : \A g \in Own : instant[g] <= instant[f]
  <2>1. PICK f \in Own : \A g \in Own : <<g, f>> \notin R
    BY <1>2
  <2>2. ASSUME NEW g \in Own PROVE instant[g] <= instant[f]
    <3>1. instant[f] \in Nat /\ instant[g] \in Nat
      BY <1>1
    <3>2. ~(instant[g] > instant[f])
      BY <2>1
    <3> QED BY <3>1, <3>2
  <2> QED BY <2>2
<1>4. PICK f \in Own : /\ Latest(e, S, instant) = instant[f]
                       /\ \A g \in Own : instant[g] <= instant[f]
  BY <1>3 DEF Latest
<1> QED BY <1>1, <1>4

\* An installation's events are placed in its own sequence.
LEMMA LatestIsMonotone ==
    ASSUME NEW S \in SUBSET Event, NEW e \in S, NEW f \in S, NEW instant \in [Event -> Nat],
           DeviceOf[e] = DeviceOf[f], SeqOf[f] < SeqOf[e]
    PROVE  Latest(f, S, instant) <= Latest(e, S, instant)
<1>1. PICK g \in OwnUpTo(f, S) : Latest(f, S, instant) = instant[g]
  BY LatestSpec
<1>2. g \in OwnUpTo(e, S)
  <2>1. g \in S /\ DeviceOf[g] = DeviceOf[f] /\ SeqOf[g] <= SeqOf[f]
    BY <1>1 DEF OwnUpTo
  <2>2. SeqOf[g] \in Nat /\ SeqOf[f] \in Nat /\ SeqOf[e] \in Nat
    BY <2>1, EventsAssumption
  <2> QED BY <2>1, <2>2 DEF OwnUpTo
<1> QED BY <1>1, <1>2, LatestSpec

LEMMA OwnSequenceOrder ==
    ASSUME NEW S \in SUBSET Event, NEW e \in S, NEW f \in S, receivedAt \in [Event -> Nat],
           DeviceOf[e] = DeviceOf[f], SeqOf[f] < SeqOf[e]
    PROVE  ~CreatedBefore(e, f, S)
<1>1. /\ Latest(f, S, OccurredAt) <= Latest(e, S, OccurredAt)
      /\ Latest(f, S, receivedAt) <= Latest(e, S, receivedAt)
  BY LatestIsMonotone, EventsAssumption
<1>2. /\ Latest(f, S, OccurredAt) \in Nat /\ Latest(e, S, OccurredAt) \in Nat
      /\ Latest(f, S, receivedAt) \in Nat /\ Latest(e, S, receivedAt) \in Nat
  BY LatestSpec, EventsAssumption
<1>3. SeqOf[f] \in Nat /\ SeqOf[e] \in Nat /\ DeviceOf[e] \in Int /\ DeviceOf[f] \in Int
  BY EventsAssumption
<1> QED BY <1>1, <1>2, <1>3 DEF CreatedBefore

\* The earliest of some events is before all the others.
LEMMA EarliestSpec ==
    ASSUME NEW S \in SUBSET Event, S # {}, receivedAt \in [Event -> Nat]
    PROVE  /\ Earliest(S) \in S
           /\ \A f \in S \ {Earliest(S)} : CreatedBefore(Earliest(S), f, S)
<1> DEFINE occurred(x) == Latest(x, S, OccurredAt)
           received(x) == Latest(x, S, receivedAt)
           R == {p \in S \X S : CreatedBefore(p[1], p[2], S)}
<1>1. \A x \in S : /\ occurred(x) \in Nat /\ received(x) \in Nat
                   /\ DeviceOf[x] \in Int /\ SeqOf[x] \in Nat
  BY LatestSpec, EventsAssumption
<1>2. \A x, y \in S : CreatedBefore(x, y, S) <=>
        \/ occurred(x) < occurred(y)
        \/ /\ occurred(x) = occurred(y)
           /\ \/ received(x) < received(y)
              \/ received(x) = received(y) /\ DeviceOf[x] < DeviceOf[y]
              \/ /\ received(x) = received(y)
                 /\ DeviceOf[x] = DeviceOf[y] /\ SeqOf[x] < SeqOf[y]
  BY DEF CreatedBefore
<1>3. \A x, y \in S : x # y => CreatedBefore(x, y, S) \/ CreatedBefore(y, x, S)
  <2> HIDE DEF occurred, received
  <2>1. \A x, y \in S : DeviceOf[x] = DeviceOf[y] /\ SeqOf[x] = SeqOf[y] => x = y
    BY EventsAssumption
  <2> QED BY <1>1, <1>2, <2>1
<1>4. \E x \in S : \A y \in S : <<y, x>> \notin R
  <2>1. \A x, y, z \in S : CreatedBefore(x, y, S) /\ CreatedBefore(y, z, S)
                           => CreatedBefore(x, z, S)
    <3> HIDE DEF occurred, received
    <3> QED BY <1>1, <1>2
  <2>2. \A x \in S : ~CreatedBefore(x, x, S)
    <3> HIDE DEF occurred, received
    <3> QED BY <1>1, <1>2
  <2>3. R \in SUBSET (S \X S) /\ IsFiniteSet(S)
    BY EventsAssumption, FS_Subset
  <2>4. \A x, y, z \in S : <<x, y>> \in R /\ <<y, z>> \in R => <<x, z>> \in R
    BY <2>1
  <2>5. \A x \in S : <<x, x>> \notin R
    BY <2>2
  <2> HIDE DEF R
  <2> QED BY <2>3, <2>4, <2>5, MinimalElement
<1>5. \E x \in S : \A y \in S \ {x} : CreatedBefore(x, y, S)
  BY <1>3, <1>4
<1> QED BY <1>5 DEF Earliest

-----------------------------------------------------------------------------
(* What the actions that read a queue, a lock or a count do *)

\* An event that arrives is received last.
LEMMA ReceptionCounted ==
    ASSUME IInv, NEW e \in Event, Receive(e)
    PROVE  /\ Received' = Received \cup {e}
           /\ Cardinality(Received) \in Nat /\ Cardinality(Received') = Cardinality(Received) + 1
           /\ \A f \in Received :
                receivedAt'[f] = receivedAt[f] /\ ~(receivedAt'[e] < receivedAt'[f])
           /\ receivedAt' \in [Event -> Nat]
           /\ \A f \in Event : receivedAt'[f] <= Cardinality(Received')
<1>1. IsFiniteSet(Received) /\ Cardinality(Received) \in Nat
  BY EventsAssumption, FS_Subset, FS_CardinalityType DEF Received
<1>2. e \notin Received /\ receivedAt' = [receivedAt EXCEPT ![e] = Cardinality(Received) + 1]
  BY DEF Receive
<1>3. receivedAt \in [Event -> Nat] /\ \A f \in Event : receivedAt[f] <= Cardinality(Received)
  BY DEF IInv, TypeOK, ReceivedIsKept
<1>4. Received' = Received \cup {e}
  BY <1>1, <1>2, <1>3 DEF Received
<1>5. Cardinality(Received') = Cardinality(Received) + 1
  BY <1>1, <1>2, <1>4, FS_AddElement
<1>6. ASSUME NEW f \in Received
      PROVE  receivedAt'[f] = receivedAt[f] /\ ~(receivedAt'[e] < receivedAt'[f])
  <2>1. f \in Event /\ f # e /\ receivedAt[f] \in Nat /\ receivedAt[f] <= Cardinality(Received)
    BY <1>2, <1>3 DEF Received
  <2> QED BY <1>1, <1>2, <1>3, <2>1
<1>7. receivedAt' \in [Event -> Nat]
  BY <1>1, <1>2, <1>3
<1>8. ASSUME NEW f \in Event PROVE receivedAt'[f] <= Cardinality(Received')
  <2>1. receivedAt[f] \in Nat /\ receivedAt[f] <= Cardinality(Received)
    BY <1>3
  <2> QED BY <1>1, <1>2, <1>3, <1>5, <2>1
<1> QED BY <1>1, <1>4, <1>5, <1>6, <1>7, <1>8

\* What a run takes up is the earliest of a free aggregate, held and due.
LEMMA BeginsWithEarliest ==
    ASSUME IInv, NEW r \in Runs, BeginApply(r)
    PROVE  \E e \in held \ applied :
              /\ current' = [current EXCEPT ![r] = e]
              /\ ~AggregateLocked(AggregateOf[e])
              /\ e \notin quarantined \cup waiting
              /\ \A f \in UnappliedEventsOf(AggregateOf[e]) \ {e} :
                    CreatedBefore(e, f, UnappliedEventsOf(AggregateOf[e]))
<1>1. PICK a \in todo[r] : /\ ~AggregateLocked(a) /\ HasEventDue(a)
                           /\ current' = [current EXCEPT ![r] = Earliest(UnappliedEventsOf(a))]
  BY DEF BeginApply
<1> DEFINE e == Earliest(UnappliedEventsOf(a))
<1>2. UnappliedEventsOf(a) \in SUBSET Event /\ receivedAt \in [Event -> Nat]
  BY DEF IInv, TypeOK, UnappliedEventsOf
<1>3. e \in UnappliedEventsOf(a) /\ \A f \in UnappliedEventsOf(a) \ {e} :
        CreatedBefore(e, f, UnappliedEventsOf(a))
  BY <1>1, <1>2, EarliestSpec DEF HasEventDue
<1>4. e \in held \ applied /\ AggregateOf[e] = a
  BY <1>3 DEF UnappliedEventsOf
<1>5. e \notin quarantined \cup waiting
  BY <1>1 DEF HasEventDue
<1> HIDE DEF e
<1> QED BY <1>1, <1>3, <1>4, <1>5 DEF e

LEMMA CountedIsDue ==
    ASSUME IInv, NEW e, Counts(e)
    PROVE  ~AggregateLocked(AggregateOf[e]) /\ e \in held \ (applied \cup quarantined \cup waiting)
BY DEF Counts, IsNextDue, HasEventDue, UnappliedEventsOf

-----------------------------------------------------------------------------
(* Each action keeps the inductive invariant *)

\* An event arrives.
LEMMA ReceiveKeepsIInv ==
    ASSUME IInv, NEW e \in Event, Receive(e) PROVE IInv'
<1>1. TypeOK'
  <2>1. receivedAt' \in [Event -> Nat]
    BY ReceptionCounted
  <2> QED BY <2>1 DEF Receive, IInv, TypeOK, cloudVars, runVars, counters
<1>2. ReceivedIsKept'
  <2>1. held' = held \cup {e} /\ recorded' = recorded /\ revoked' = revoked
    BY DEF Receive, cloudVars
  <2>2. \A f \in Event : receivedAt'[f] <= Cardinality(Received')
    BY ReceptionCounted
  <2>3. Received' = Received \cup {e}
    BY ReceptionCounted
  <2> QED BY <2>1, <2>2, <2>3 DEF IInv, ReceivedIsKept
<1>3. RunsKnowTheirEvents'
  BY DEF IInv, RunsKnowTheirEvents, Receive, InTransaction, Received, cloudVars, runVars
<1>4. AttemptsLeft'
  BY DEF IInv, AttemptsLeft, Receive, Received
<1>5. AppliedOnce'
  BY DEF IInv, AppliedOnce, Receive, TypeOK, ReceivedIsKept, cloudVars
<1>6. OwnSequenceKept'
  <2>1. held' = held \cup {e} /\ applied' = applied /\ e \notin Received
    BY DEF Receive
  <2>2. applied \subseteq held /\ held \subseteq Received
    BY DEF IInv, TypeOK, ReceivedIsKept
  <2>3. \A f, g \in Received : receivedAt'[f] = receivedAt[f] /\ ~(receivedAt'[e] < receivedAt'[g])
    BY ReceptionCounted
  <2> QED BY <2>1, <2>2, <2>3 DEF IInv, OwnSequenceKept
<1>7. RunsKeepOwnSequence'
  <2>1. /\ held' = held \cup {e} /\ applied' = applied /\ e \notin Received
        /\ pc' = pc /\ current' = current
    BY DEF Receive, runVars
  <2>2. held \subseteq Received
    BY DEF IInv, ReceivedIsKept
  <2>3. \A f, g \in Received : receivedAt'[f] = receivedAt[f] /\ ~(receivedAt'[e] < receivedAt'[g])
    BY ReceptionCounted
  <2>4. \A r \in Runs : pc[r] = "applying" => current[r] \in Received
    BY DEF IInv, RunsKnowTheirEvents, InTransaction
  <2> QED BY <2>1, <2>2, <2>3, <2>4 DEF IInv, RunsKeepOwnSequence
<1>8. Exclusion' /\ QuarantinedIsAlerted' /\ AlertHasReason'
  BY DEF IInv, Exclusion, QuarantinedIsAlerted, AlertHasReason, InTransaction, Receive,
          cloudVars, runVars
<1> QED BY <1>1, <1>2, <1>3, <1>4, <1>5, <1>6, <1>7, <1>8 DEF IInv

\* The time of a retry comes.
LEMMA RetryComesKeepsIInv ==
    ASSUME IInv, NEW e \in Event, RetryComes(e) PROVE IInv'
<1>1. TypeOK'
  BY DEF IInv, TypeOK, RetryComes, cloudVars, runVars, counters
<1>2. RunsKnowTheirEvents'
  BY DEF IInv, RunsKnowTheirEvents, RetryComes, InTransaction, Received, cloudVars, runVars
<1>3. /\ ReceivedIsKept' /\ Exclusion' /\ AttemptsLeft' /\ AppliedOnce'
      /\ QuarantinedIsAlerted' /\ AlertHasReason' /\ OwnSequenceKept' /\ RunsKeepOwnSequence'
  BY DEF IInv, ReceivedIsKept, Exclusion, AttemptsLeft, AppliedOnce, QuarantinedIsAlerted,
          AlertHasReason, OwnSequenceKept, RunsKeepOwnSequence, Received, InTransaction,
          RetryComes, cloudVars, runVars
<1> QED BY <1>1, <1>2, <1>3 DEF IInv

\* A release takes the aggregate.
LEMMA BeginReleaseKeepsIInv ==
    ASSUME IInv, NEW e \in Event, BeginRelease(e) PROVE IInv'
<1>1. TypeOK'
  BY BoundsAssumption DEF IInv, TypeOK, BeginRelease, inboxVars, cloudVars, runVars
<1>2. Exclusion'
  BY DEF IInv, Exclusion, BeginRelease, AggregateLocked, InTransaction, runVars
<1>3. /\ ReceivedIsKept' /\ RunsKnowTheirEvents' /\ AttemptsLeft' /\ AppliedOnce'
      /\ QuarantinedIsAlerted' /\ AlertHasReason' /\ OwnSequenceKept' /\ RunsKeepOwnSequence'
  BY DEF IInv, ReceivedIsKept, RunsKnowTheirEvents, AttemptsLeft, AppliedOnce,
          QuarantinedIsAlerted, AlertHasReason, OwnSequenceKept, RunsKeepOwnSequence, Received,
          InTransaction, BeginRelease, inboxVars, cloudVars, runVars
<1> QED BY <1>1, <1>2, <1>3 DEF IInv

\* A release commits.
LEMMA CommitReleaseKeepsIInv ==
    ASSUME IInv, NEW e \in Event, CommitRelease(e) PROVE IInv'
<1>1. TypeOK'
  <2>1. attempts' \in [Event -> 0..MaxAttempts]
    BY BoundsAssumption DEF CommitRelease, NewSeries, IInv, TypeOK
  <2> QED BY <2>1 DEF CommitRelease, IInv, TypeOK, runVars
<1>2. Exclusion'
  BY DEF IInv, Exclusion, CommitRelease, InTransaction, runVars
<1>3. RunsKnowTheirEvents'
  BY DEF IInv, RunsKnowTheirEvents, CommitRelease, InTransaction, Received,
          DeviceQuarantinesLocked, runVars
<1>4. AttemptsLeft'
  BY BoundsAssumption DEF IInv, AttemptsLeft, CommitRelease, TypeOK, Received, NewSeries
<1>5. QuarantinedIsAlerted'
  BY DEF IInv, QuarantinedIsAlerted, CommitRelease, AttemptsLeft, HasQuarantinedBesides
<1>6. AlertHasReason'
  BY DEF IInv, AlertHasReason, CommitRelease, HasQuarantinedBesides
<1>7. ReceivedIsKept' /\ AppliedOnce' /\ OwnSequenceKept' /\ RunsKeepOwnSequence'
  BY DEF IInv, ReceivedIsKept, AppliedOnce, OwnSequenceKept, RunsKeepOwnSequence, Received,
          CommitRelease, runVars
<1> QED BY <1>1, <1>2, <1>3, <1>4, <1>5, <1>6, <1>7 DEF IInv

\* A refused push sets events aside.
LEMMA RefuseBrokenChainKeepsIInv ==
    ASSUME IInv, NEW d \in Device, RefuseBrokenChain(d) PROVE IInv'
<1>1. TypeOK'
  <2>1. BeyondHole(d) \subseteq held
    BY DEF BeyondHole
  <2> QED BY <2>1 DEF RefuseBrokenChain, IInv, TypeOK, runVars, counters
<1>2. ReceivedIsKept'
  BY DEF IInv, ReceivedIsKept, RefuseBrokenChain, Received, BeyondHole
<1>3. RunsKnowTheirEvents'
  BY DEF IInv, RunsKnowTheirEvents, RefuseBrokenChain, InTransaction, Received, runVars
<1>4. AttemptsLeft'
  BY DEF IInv, AttemptsLeft, RefuseBrokenChain, TypeOK, Received, ReceivedIsKept
<1>5. AppliedOnce'
  BY DEF IInv, AppliedOnce, RefuseBrokenChain
<1>6. QuarantinedIsAlerted'
  BY DEF IInv, QuarantinedIsAlerted, RefuseBrokenChain
<1>7. AlertHasReason'
  BY DEF IInv, AlertHasReason, RefuseBrokenChain, BeyondHole
<1>8. OwnSequenceKept'
  BY DEF IInv, OwnSequenceKept, RefuseBrokenChain
<1>9. RunsKeepOwnSequence'
  BY DEF IInv, RunsKeepOwnSequence, RefuseBrokenChain, runVars
<1>10. Exclusion'
  BY DEF IInv, Exclusion, InTransaction, RefuseBrokenChain, runVars
<1> QED BY <1>1, <1>2, <1>3, <1>4, <1>5, <1>6, <1>7, <1>8, <1>9, <1>10 DEF IInv

\* The crontab queues a job.
LEMMA EnqueueEveryMinuteKeepsIInv ==
    ASSUME IInv, EnqueueEveryMinute PROVE IInv'
<1>1. TypeOK'
  BY DEF IInv, TypeOK, EnqueueEveryMinute, inboxVars, cloudVars, runVars, counters
<1>2. /\ ReceivedIsKept' /\ Exclusion' /\ RunsKnowTheirEvents' /\ AttemptsLeft'
      /\ AppliedOnce' /\ QuarantinedIsAlerted' /\ AlertHasReason'
      /\ OwnSequenceKept' /\ RunsKeepOwnSequence'
  BY DEF IInv, ReceivedIsKept, Exclusion, RunsKnowTheirEvents, AttemptsLeft, AppliedOnce,
          QuarantinedIsAlerted, AlertHasReason, OwnSequenceKept, RunsKeepOwnSequence, Received,
          InTransaction, EnqueueEveryMinute, inboxVars, cloudVars, runVars
<1> QED BY <1>1, <1>2 DEF IInv

\* A run starts.
LEMMA StartRunKeepsIInv ==
    ASSUME IInv, NEW r \in Runs, StartRun(r) PROVE IInv'
<1>1. TypeOK'
  <2>1. PendingAggregates \subseteq Aggregate
    BY EventsAssumption DEF PendingAggregates, IInv, TypeOK
  <2>2. todo' \in [Runs -> SUBSET Aggregate]
    BY <2>1 DEF StartRun, IInv, TypeOK
  <2>3. attempted' \in [Runs -> 0..Limit]
    BY BoundsAssumption DEF StartRun, IInv, TypeOK
  <2> QED BY <2>2, <2>3, BoundsAssumption
         DEF StartRun, IInv, TypeOK, inboxVars, cloudVars, counters, PcLabels
<1>2. Exclusion'
  BY DEF IInv, Exclusion, StartRun, InTransaction
<1>3. RunsKnowTheirEvents'
  BY DEF IInv, RunsKnowTheirEvents, StartRun, InTransaction, Received, inboxVars, cloudVars
<1>4. RunsKeepOwnSequence'
  BY DEF IInv, RunsKeepOwnSequence, StartRun, inboxVars
<1>5. /\ ReceivedIsKept' /\ AttemptsLeft' /\ AppliedOnce'
      /\ QuarantinedIsAlerted' /\ AlertHasReason' /\ OwnSequenceKept'
  BY DEF IInv, ReceivedIsKept, AttemptsLeft, AppliedOnce, QuarantinedIsAlerted, AlertHasReason,
          OwnSequenceKept, Received, StartRun, inboxVars, cloudVars
<1> QED BY <1>1, <1>2, <1>3, <1>4, <1>5 DEF IInv

\* A run is done with an aggregate.
LEMMA SkipAggregateKeepsIInv ==
    ASSUME IInv, NEW r \in Runs, SkipAggregate(r) PROVE IInv'
<1>1. TypeOK'
  BY DEF IInv, TypeOK, SkipAggregate, inboxVars, cloudVars, counters
<1>2. /\ ReceivedIsKept' /\ Exclusion' /\ RunsKnowTheirEvents' /\ AttemptsLeft'
      /\ AppliedOnce' /\ QuarantinedIsAlerted' /\ AlertHasReason'
      /\ OwnSequenceKept' /\ RunsKeepOwnSequence'
  BY DEF IInv, ReceivedIsKept, Exclusion, RunsKnowTheirEvents, AttemptsLeft, AppliedOnce,
          QuarantinedIsAlerted, AlertHasReason, OwnSequenceKept, RunsKeepOwnSequence, Received,
          InTransaction, SkipAggregate, inboxVars, cloudVars
<1> QED BY <1>1, <1>2 DEF IInv

\* A run takes up an event.
LEMMA BeginApplyKeepsIInv ==
    ASSUME IInv, NEW r \in Runs, BeginApply(r) PROVE IInv'
<1>1. TypeOK'
  <2>1. current' \in [Runs -> Event \cup {NoEvent}]
    BY BeginsWithEarliest DEF IInv, TypeOK
  <2> QED BY <2>1 DEF BeginApply, IInv, TypeOK, inboxVars, cloudVars, counters, PcLabels
<1>2. Exclusion'
  <2>1. PICK e \in held :
          /\ current' = [current EXCEPT ![r] = e]
          /\ ~AggregateLocked(AggregateOf[e])
    BY BeginsWithEarliest
  <2>2. pc' = [pc EXCEPT ![r] = "applying"] /\ pc[r] = "running" /\ releasing' = releasing
    BY DEF BeginApply, Going
  <2> QED BY <2>1, <2>2 DEF IInv, TypeOK, Exclusion, InTransaction, AggregateLocked
<1>3. RunsKnowTheirEvents'
  <2>1. PICK e \in held \ applied :
          /\ current' = [current EXCEPT ![r] = e] /\ e \notin quarantined \cup waiting
    BY BeginsWithEarliest
  <2>2. e \in Received /\ recorded[e] = 0
    <3>1. /\ e \in Event /\ recorded[e] \in Nat /\ recorded[e] <= 1
          /\ (e \notin KeepsNothing => recorded[e] # 1)
      BY <2>1 DEF IInv, TypeOK, AppliedOnce
    <3> QED BY <2>1, <3>1 DEF IInv, ReceivedIsKept
  <2>3. pc' = [pc EXCEPT ![r] = "applying"] /\ attempted[r] < Limit
    BY DEF BeginApply, Going
  <2> QED BY <2>1, <2>2, <2>3
         DEF BeginApply, IInv, TypeOK, RunsKnowTheirEvents, InTransaction, Received, inboxVars,
                                 cloudVars
<1>4. RunsKeepOwnSequence'
  <2>1. PICK e \in held \ applied :
          /\ current' = [current EXCEPT ![r] = e]
          /\ \A f \in UnappliedEventsOf(AggregateOf[e]) \ {e} :
                CreatedBefore(e, f, UnappliedEventsOf(AggregateOf[e]))
    BY BeginsWithEarliest
  <2>2. ASSUME NEW f \in held, DeviceOf[e] = DeviceOf[f], SeqOf[f] < SeqOf[e],
               AggregateOf[e] = AggregateOf[f], f \notin applied
        PROVE  FALSE
    <3>1. /\ UnappliedEventsOf(AggregateOf[e]) \in SUBSET Event
          /\ e \in UnappliedEventsOf(AggregateOf[e]) /\ f \in UnappliedEventsOf(AggregateOf[e])
          /\ receivedAt \in [Event -> Nat]
      BY <2>1, <2>2 DEF UnappliedEventsOf, IInv, TypeOK
    <3>2. f # e
      BY <2>2, <3>1, EventsAssumption
    <3> QED BY <2>1, <2>2, <3>1, <3>2, OwnSequenceOrder
  <2>3. pc' = [pc EXCEPT ![r] = "applying"]
    BY DEF BeginApply
  <2> QED BY <2>1, <2>2, <2>3 DEF BeginApply, IInv, TypeOK, RunsKeepOwnSequence, inboxVars
<1>5. /\ ReceivedIsKept' /\ AttemptsLeft' /\ AppliedOnce'
      /\ QuarantinedIsAlerted' /\ AlertHasReason' /\ OwnSequenceKept'
  BY DEF IInv, ReceivedIsKept, AttemptsLeft, AppliedOnce, QuarantinedIsAlerted, AlertHasReason,
          OwnSequenceKept, Received, BeginApply, inboxVars, cloudVars
<1> QED BY <1>1, <1>2, <1>3, <1>4, <1>5 DEF IInv

\* A run applies its event.
LEMMA CommitApplyKeepsIInv ==
    ASSUME IInv, NEW r \in Runs, CommitApply(r) PROVE IInv'
<1>1. TypeOK'
  <2>1. current[r] \in Event /\ attempted[r] < Limit
    BY DEF CommitApply, IInv, RunsKnowTheirEvents, Received, InTransaction
  <2>2. recorded' \in [Event -> Nat]
    BY <2>1 DEF CommitApply, IInv, TypeOK
  <2>3. attempted' \in [Runs -> 0..Limit]
    BY <2>1, BoundsAssumption DEF CommitApply, IInv, TypeOK
  <2>4. applied' \subseteq held'
    BY DEF CommitApply, MarkApplied, IInv, TypeOK
  <2> QED BY <2>2, <2>3, <2>4 DEF CommitApply, IInv, TypeOK, counters, PcLabels
<1>2. ReceivedIsKept'
  BY DEF IInv, ReceivedIsKept, CommitApply, RunsKnowTheirEvents, Received, InTransaction
<1>3. Exclusion'
  BY DEF IInv, Exclusion, CommitApply, TypeOK, InTransaction
<1>4. RunsKnowTheirEvents'
  BY DEF IInv, RunsKnowTheirEvents, CommitApply, TypeOK, Exclusion, InTransaction, Received,
          MarkApplied
<1>5. AttemptsLeft'
  BY DEF IInv, AttemptsLeft, CommitApply, RunsKnowTheirEvents, InTransaction, Received,
          MarkApplied
<1>6. AppliedOnce'
  BY DEF IInv, AppliedOnce, CommitApply, TypeOK, RunsKnowTheirEvents, MarkApplied
<1>7. AlertHasReason'
  BY DEF IInv, AlertHasReason, CommitApply, RunsKnowTheirEvents, InTransaction, MarkApplied
<1>8. OwnSequenceKept'
  BY DEF IInv, OwnSequenceKept, CommitApply, RunsKeepOwnSequence, MarkApplied
<1>9. RunsKeepOwnSequence'
  BY DEF IInv, RunsKeepOwnSequence, CommitApply, TypeOK, MarkApplied
<1>10. QuarantinedIsAlerted'
  BY DEF IInv, QuarantinedIsAlerted, CommitApply
<1> QED BY <1>1, <1>2, <1>3, <1>4, <1>5, <1>6, <1>7, <1>8, <1>9, <1>10 DEF IInv

\* The event fails.
LEMMA FailApplyKeepsIInv ==
    ASSUME IInv, NEW r \in Runs, FailApply(r) PROVE IInv'
<1>1. TypeOK'
  <2>1. current[r] \in Event /\ attempted[r] < Limit
    BY DEF FailApply, IInv, RunsKnowTheirEvents, Received, InTransaction
  <2>2. attempted' \in [Runs -> 0..Limit]
    BY <2>1, BoundsAssumption DEF FailApply, IInv, TypeOK
  <2>3. todo' \in [Runs -> SUBSET Aggregate]
    BY DEF FailApply, IInv, TypeOK
  <2> QED BY <2>2, <2>3 DEF FailApply, IInv, TypeOK, inboxVars, cloudVars, counters, PcLabels
<1>2. Exclusion'
  BY DEF IInv, Exclusion, FailApply, InTransaction
<1>3. RunsKnowTheirEvents'
  BY DEF IInv, RunsKnowTheirEvents, FailApply, TypeOK, InTransaction, Received, inboxVars,
          cloudVars, counters
<1>4. RunsKeepOwnSequence'
  BY DEF IInv, RunsKeepOwnSequence, FailApply, inboxVars
<1>5. /\ ReceivedIsKept' /\ AttemptsLeft' /\ AppliedOnce'
      /\ QuarantinedIsAlerted' /\ AlertHasReason' /\ OwnSequenceKept'
  BY DEF IInv, ReceivedIsKept, AttemptsLeft, AppliedOnce, QuarantinedIsAlerted, AlertHasReason,
          OwnSequenceKept, Received, FailApply, inboxVars, cloudVars
<1> QED BY <1>1, <1>2, <1>3, <1>4, <1>5 DEF IInv

\* A failure does not count any more.
LEMMA DropObsoleteFailureKeepsIInv ==
    ASSUME IInv, NEW r \in Runs, DropObsoleteFailure(r) PROVE IInv'
<1>1. TypeOK'
  BY DEF IInv, TypeOK, DropObsoleteFailure, PcLabels, inboxVars, cloudVars, counters
<1>2. Exclusion'
  BY DEF IInv, Exclusion, DropObsoleteFailure, InTransaction
<1>3. RunsKnowTheirEvents'
  BY DEF IInv, RunsKnowTheirEvents, DropObsoleteFailure, TypeOK, InTransaction, Received,
          inboxVars, cloudVars
<1>4. RunsKeepOwnSequence'
  BY DEF IInv, RunsKeepOwnSequence, DropObsoleteFailure, inboxVars
<1>5. /\ ReceivedIsKept' /\ AttemptsLeft' /\ AppliedOnce'
      /\ QuarantinedIsAlerted' /\ AlertHasReason' /\ OwnSequenceKept'
  BY DEF IInv, ReceivedIsKept, AttemptsLeft, AppliedOnce, QuarantinedIsAlerted, AlertHasReason,
          OwnSequenceKept, Received, DropObsoleteFailure, inboxVars, cloudVars
<1> QED BY <1>1, <1>2, <1>3, <1>4, <1>5 DEF IInv

\* A failure is recorded.
LEMMA RecordRetryKeepsIInv ==
    ASSUME IInv, NEW r \in Runs, RecordRetry(r) PROVE IInv'
<1>1. TypeOK'
  <2>1. current[r] \in held
    BY CountedIsDue DEF RecordRetry
  <2>2. attempts' \in [Event -> 0..MaxAttempts]
    BY <2>1, BoundsAssumption DEF RecordRetry, IInv, TypeOK
  <2>3. waiting' \subseteq held'
    BY <2>1 DEF RecordRetry, IInv, TypeOK
  <2> QED BY <2>2, <2>3 DEF RecordRetry, IInv, TypeOK, cloudVars, counters, PcLabels
<1>2. Exclusion'
  BY DEF IInv, Exclusion, RecordRetry, InTransaction
<1>3. RunsKnowTheirEvents'
  BY DEF IInv, TypeOK, RunsKnowTheirEvents, RecordRetry, InTransaction, Received, Counts,
          AggregateLocked, cloudVars
<1>4. AttemptsLeft'
  BY EventsAssumption, BoundsAssumption DEF IInv, AttemptsLeft, RecordRetry, TypeOK,
          RunsKnowTheirEvents, InTransaction, Received, ReceivedIsKept, Exclusion, MarkApplied,
          NewSeries, cloudVars, counters
<1>5. RunsKeepOwnSequence'
  BY DEF IInv, RunsKeepOwnSequence, RecordRetry
<1>6. /\ ReceivedIsKept' /\ AppliedOnce'
      /\ QuarantinedIsAlerted' /\ AlertHasReason' /\ OwnSequenceKept'
  BY DEF IInv, ReceivedIsKept, AppliedOnce, QuarantinedIsAlerted, AlertHasReason,
          OwnSequenceKept, Received, RecordRetry, cloudVars
<1> QED BY <1>1, <1>2, <1>3, <1>4, <1>5, <1>6 DEF IInv

\* The last failure takes the aggregate.
LEMMA BeginQuarantineKeepsIInv ==
    ASSUME IInv, NEW r \in Runs, BeginQuarantine(r) PROVE IInv'
<1>1. TypeOK'
  BY DEF IInv, TypeOK, BeginQuarantine, PcLabels, inboxVars, cloudVars, counters
<1>2. Exclusion'
  BY DEF IInv, Exclusion, BeginQuarantine, AggregateLocked, InTransaction, Counts
<1>3. RunsKnowTheirEvents'
  <2>1. current[r] \notin applied \cup quarantined \cup waiting /\ current[r] \in held
    BY CountedIsDue DEF BeginQuarantine
  <2> QED BY <2>1
         DEF BeginQuarantine, IInv, TypeOK, RunsKnowTheirEvents, InTransaction, Received,
             inboxVars, cloudVars
<1>4. RunsKeepOwnSequence'
  BY DEF IInv, RunsKeepOwnSequence, BeginQuarantine, inboxVars
<1>5. /\ ReceivedIsKept' /\ AttemptsLeft' /\ AppliedOnce'
      /\ QuarantinedIsAlerted' /\ AlertHasReason' /\ OwnSequenceKept'
  BY DEF IInv, ReceivedIsKept, AttemptsLeft, AppliedOnce, QuarantinedIsAlerted, AlertHasReason,
          OwnSequenceKept, Received, BeginQuarantine, inboxVars, cloudVars
<1> QED BY <1>1, <1>2, <1>3, <1>4, <1>5 DEF IInv

\* It takes the quarantines of the installation and opens the alert, or meets one that is open.
LEMMA OpenAlertKeepsIInv ==
    ASSUME IInv, NEW r \in Runs, OpenAlert(r) PROVE IInv'
<1>1. TypeOK'
  BY DEF IInv, TypeOK, OpenAlert, PcLabels, inboxVars, counters
<1>2. Exclusion'
  BY DEF IInv, Exclusion, OpenAlert, InTransaction
<1>3. RunsKnowTheirEvents'
  BY DEF IInv, TypeOK, RunsKnowTheirEvents, Exclusion, OpenAlert, InTransaction, Received,
          inboxVars
<1>4. RunsKeepOwnSequence'
  BY DEF IInv, RunsKeepOwnSequence, OpenAlert, inboxVars
<1>5. QuarantinedIsAlerted'
  BY DEF IInv, QuarantinedIsAlerted, RunsKnowTheirEvents, OpenAlert, InTransaction, inboxVars
<1>6. ReceivedIsKept' /\ AttemptsLeft' /\ AppliedOnce' /\ AlertHasReason' /\ OwnSequenceKept'
  BY DEF IInv, ReceivedIsKept, AttemptsLeft, AppliedOnce, AlertHasReason, OwnSequenceKept,
          Received, OpenAlert, inboxVars
<1> QED BY <1>1, <1>2, <1>3, <1>4, <1>5, <1>6 DEF IInv

\* The alert it met is not found any more, and the run ends.
LEMMA LoseAlertKeepsIInv ==
    ASSUME IInv, NEW r \in Runs, LoseAlert(r) PROVE IInv'
<1>1. TypeOK'
  BY BoundsAssumption DEF IInv, TypeOK, LoseAlert, PcLabels, inboxVars, cloudVars, counters
<1>2. Exclusion'
  BY DEF IInv, Exclusion, LoseAlert, TypeOK, InTransaction
<1>3. RunsKnowTheirEvents'
  BY DEF IInv, RunsKnowTheirEvents, LoseAlert, TypeOK, InTransaction, Received, inboxVars,
          cloudVars
<1>4. RunsKeepOwnSequence'
  BY DEF IInv, RunsKeepOwnSequence, LoseAlert, TypeOK, inboxVars
<1>5. /\ ReceivedIsKept' /\ AttemptsLeft' /\ AppliedOnce'
      /\ QuarantinedIsAlerted' /\ AlertHasReason' /\ OwnSequenceKept'
  BY DEF IInv, ReceivedIsKept, AttemptsLeft, AppliedOnce, QuarantinedIsAlerted, AlertHasReason,
          OwnSequenceKept, Received, LoseAlert, inboxVars, cloudVars
<1> QED BY <1>1, <1>2, <1>3, <1>4, <1>5 DEF IInv

\* Somebody closes the alert: what stood for its events is on record as closed.
LEMMA CloseAlertKeepsIInv ==
    ASSUME IInv, NEW d \in Device, CloseAlert(d) PROVE IInv'
<1>1. TypeOK'
  BY DEF IInv, TypeOK, CloseAlert, EventsOf, inboxVars, runVars, counters
<1>2. RunsKnowTheirEvents'
  <2>1. \A r \in Runs : InTransaction(r) => current[r] \in Event
    BY DEF IInv, RunsKnowTheirEvents, Received
  <2> QED BY <2>1
         DEF IInv, RunsKnowTheirEvents, CloseAlert, EventsOf, InTransaction, Received, inboxVars,
             runVars
<1>3. QuarantinedIsAlerted'
  BY DEF IInv, TypeOK, QuarantinedIsAlerted, CloseAlert, EventsOf, inboxVars
<1>4. AlertHasReason'
  BY DEF IInv, AlertHasReason, CloseAlert, inboxVars
<1>5. /\ ReceivedIsKept' /\ Exclusion' /\ AttemptsLeft' /\ AppliedOnce' /\ OwnSequenceKept'
      /\ RunsKeepOwnSequence'
  BY DEF IInv, ReceivedIsKept, Exclusion, AttemptsLeft, AppliedOnce, OwnSequenceKept,
          RunsKeepOwnSequence, Received, InTransaction, CloseAlert, inboxVars, runVars
<1> QED BY <1>1, <1>2, <1>3, <1>4, <1>5 DEF IInv

\* The event is quarantined.
LEMMA CommitQuarantineKeepsIInv ==
    ASSUME IInv, NEW r \in Runs, CommitQuarantine(r) PROVE IInv'
<1>1. TypeOK'
  <2>1. current[r] \in Event /\ current[r] \notin quarantined
    BY DEF CommitQuarantine, IInv, RunsKnowTheirEvents, Received, InTransaction
  <2>2. attempts' \in [Event -> 0..MaxAttempts]
    BY <2>1, BoundsAssumption DEF CommitQuarantine, IInv, TypeOK, AttemptsLeft
  <2>3. alerts' \subseteq Device
    <3>1. DeviceOf[current[r]] \in Device
      BY <2>1, EventsAssumption
    <3> QED BY <3>1 DEF CommitQuarantine, IInv, TypeOK
  <2> QED BY <2>2, <2>3 DEF CommitQuarantine, IInv, TypeOK, counters, PcLabels
<1>2. Exclusion'
  BY DEF IInv, Exclusion, CommitQuarantine, TypeOK, InTransaction
<1>3. RunsKnowTheirEvents'
  <2>1. \A q \in Runs : InTransaction(q) => current[q] \in Event
    BY DEF IInv, RunsKnowTheirEvents, Received
  <2> QED BY <2>1
         DEF IInv, RunsKnowTheirEvents, CommitQuarantine, TypeOK, Exclusion, InTransaction,
             Received, EventsOf
<1>4. AttemptsLeft'
  BY DEF IInv, AttemptsLeft, CommitQuarantine, RunsKnowTheirEvents, InTransaction, Received
<1>5. QuarantinedIsAlerted'
  BY DEF IInv, TypeOK, QuarantinedIsAlerted, CommitQuarantine, RunsKnowTheirEvents, EventsOf
<1>6. AlertHasReason'
  BY DEF IInv, AlertHasReason, CommitQuarantine, RunsKnowTheirEvents, ReceivedIsKept,
          InTransaction
<1>7. RunsKeepOwnSequence'
  BY DEF IInv, RunsKeepOwnSequence, CommitQuarantine
<1>8. ReceivedIsKept' /\ AppliedOnce' /\ OwnSequenceKept'
  BY DEF IInv, ReceivedIsKept, AppliedOnce, OwnSequenceKept, Received, CommitQuarantine
<1> QED BY <1>1, <1>2, <1>3, <1>4, <1>5, <1>6, <1>7, <1>8 DEF IInv

\* A run ends.
LEMMA EndRunKeepsIInv ==
    ASSUME IInv, NEW r \in Runs, EndRun(r) PROVE IInv'
<1>1. TypeOK'
  BY BoundsAssumption DEF IInv, TypeOK, EndRun, PcLabels, inboxVars, cloudVars, counters
<1>2. Exclusion'
  BY DEF IInv, Exclusion, EndRun, InTransaction
<1>3. RunsKnowTheirEvents'
  BY DEF IInv, RunsKnowTheirEvents, EndRun, InTransaction, Received, inboxVars, cloudVars
<1>4. RunsKeepOwnSequence'
  BY DEF IInv, RunsKeepOwnSequence, EndRun, inboxVars
<1>5. /\ ReceivedIsKept' /\ AttemptsLeft' /\ AppliedOnce'
      /\ QuarantinedIsAlerted' /\ AlertHasReason' /\ OwnSequenceKept'
  BY DEF IInv, ReceivedIsKept, AttemptsLeft, AppliedOnce, QuarantinedIsAlerted, AlertHasReason,
          OwnSequenceKept, Received, EndRun, inboxVars, cloudVars
<1> QED BY <1>1, <1>2, <1>3, <1>4, <1>5 DEF IInv

\* A run ends before its time.
LEMMA CrashKeepsIInv ==
    ASSUME IInv, NEW r \in Runs, Crash(r) PROVE IInv'
<1>1. TypeOK'
  BY BoundsAssumption DEF IInv, TypeOK, Crash, PcLabels, inboxVars, cloudVars
<1>2. Exclusion'
  BY DEF IInv, Exclusion, Crash, TypeOK, InTransaction
<1>3. RunsKnowTheirEvents'
  BY DEF IInv, RunsKnowTheirEvents, Crash, TypeOK, InTransaction, Received, inboxVars, cloudVars
<1>4. RunsKeepOwnSequence'
  BY DEF IInv, RunsKeepOwnSequence, Crash, TypeOK, inboxVars
<1>5. /\ ReceivedIsKept' /\ AttemptsLeft' /\ AppliedOnce'
      /\ QuarantinedIsAlerted' /\ AlertHasReason' /\ OwnSequenceKept'
  BY DEF IInv, ReceivedIsKept, AttemptsLeft, AppliedOnce, QuarantinedIsAlerted, AlertHasReason,
          OwnSequenceKept, Received, Crash, inboxVars, cloudVars
<1> QED BY <1>1, <1>2, <1>3, <1>4, <1>5 DEF IInv

-----------------------------------------------------------------------------
LEMMA InitIInv == Init => IInv
<1> SUFFICES ASSUME Init PROVE IInv
  OBVIOUS
<1>1. TypeOK
  <2>1. attempts \in [Event -> 0..MaxAttempts]
    BY BoundsAssumption DEF Init
  <2>2. attempted \in [Runs -> 0..Limit] /\ releases \in 0..MaxReleases /\ crashes \in 0..MaxCrashes
    BY BoundsAssumption DEF Init
  <2>3. /\ todo \in [Runs -> SUBSET Aggregate] /\ pc \in [Runs -> PcLabels]
        /\ current \in [Runs -> Event \cup {NoEvent}] /\ newAlert \in [Runs -> BOOLEAN]
    BY DEF Init, PcLabels
  <2>4. receivedAt \in [Event -> Nat] /\ recorded \in [Event -> Nat]
    BY DEF Init
  <2> QED BY <2>1, <2>2, <2>3, <2>4 DEF Init, TypeOK
<1>2. Received = {} /\ Cardinality(Received) = 0
  BY FS_EmptySet DEF Init, Received
<1>3. ReceivedIsKept
  BY <1>2 DEF Init, ReceivedIsKept
<1>4. Exclusion /\ RunsKnowTheirEvents /\ RunsKeepOwnSequence
  BY DEF Init, Exclusion, RunsKnowTheirEvents, RunsKeepOwnSequence, InTransaction
<1>5. AttemptsLeft /\ AppliedOnce /\ QuarantinedIsAlerted /\ AlertHasReason /\ OwnSequenceKept
  BY BoundsAssumption
     DEF Init, AttemptsLeft, AppliedOnce, QuarantinedIsAlerted, AlertHasReason, OwnSequenceKept
<1> QED BY <1>1, <1>3, <1>4, <1>5 DEF IInv

LEMMA StepKeepsIInv == IInv /\ [Next]_vars => IInv'
<1> SUFFICES ASSUME IInv, [Next]_vars PROVE IInv'
  OBVIOUS
<1>1. ASSUME NEW e \in Event, Receive(e) \/ RetryComes(e) \/ BeginRelease(e) \/ CommitRelease(e)
      PROVE  IInv'
  BY <1>1, ReceiveKeepsIInv, RetryComesKeepsIInv, BeginReleaseKeepsIInv, CommitReleaseKeepsIInv
<1>2. ASSUME NEW d \in Device, RefuseBrokenChain(d) \/ CloseAlert(d) PROVE IInv'
  BY <1>2, RefuseBrokenChainKeepsIInv, CloseAlertKeepsIInv
<1>3. CASE EnqueueEveryMinute
  BY <1>3, EnqueueEveryMinuteKeepsIInv
<1>4. ASSUME NEW r \in Runs, RunStep(r) PROVE IInv'
  BY <1>4, StartRunKeepsIInv, SkipAggregateKeepsIInv, BeginApplyKeepsIInv, CommitApplyKeepsIInv,
     FailApplyKeepsIInv, DropObsoleteFailureKeepsIInv, RecordRetryKeepsIInv,
     BeginQuarantineKeepsIInv, OpenAlertKeepsIInv, LoseAlertKeepsIInv,
     CommitQuarantineKeepsIInv, EndRunKeepsIInv
     DEF RunStep
<1>5. ASSUME NEW r \in Runs, Crash(r) PROVE IInv'
  BY <1>5, CrashKeepsIInv
<1>6. CASE UNCHANGED vars
  <2> USE <1>6 DEF IInv, vars, inboxVars, cloudVars, runVars, counters
  <2>1. TypeOK'
    BY DEF TypeOK
  <2>2. ReceivedIsKept' /\ RunsKnowTheirEvents' /\ AttemptsLeft'
    BY DEF ReceivedIsKept, RunsKnowTheirEvents, AttemptsLeft, Received, InTransaction
  <2>3. Exclusion' /\ RunsKeepOwnSequence'
    BY DEF Exclusion, RunsKeepOwnSequence, InTransaction
  <2>4. AppliedOnce' /\ QuarantinedIsAlerted' /\ AlertHasReason' /\ OwnSequenceKept'
    BY DEF AppliedOnce, QuarantinedIsAlerted, AlertHasReason, OwnSequenceKept
  <2> QED BY <2>1, <2>2, <2>3, <2>4
<1> QED BY <1>1, <1>2, <1>3, <1>4, <1>5, <1>6 DEF Next

-----------------------------------------------------------------------------
(* The theorems, for any events, installations, runs, attempts and allowances *)

\* IInv is an invariant: the locks, the reads of a transaction and what it commits fit together
\* in every interleaving of runs, releases and refused pushes (apply-pending-events.ts).
THEOREM Inductive == Spec => []IInv
BY InitIInv, StepKeepsIInv, PTL DEF Spec

\* Every variable keeps its type; no run goes over its allowance, no event over its attempts.
THEOREM TypeCorrect == Spec => []TypeOK
<1>1. IInv => TypeOK
  BY DEF IInv
<1> QED BY <1>1, Inductive, PTL

\* What an event says is recorded at most once (applyNextEvent).
THEOREM RecordedOnce == Spec => []AppliedOnce
<1>1. IInv => AppliedOnce
  BY DEF IInv
<1> QED BY <1>1, Inductive, PTL

\* An installation's own events are applied in its order (creation-order.ts).
THEOREM InOwnSequence == Spec => []OwnSequenceKept
<1>1. IInv => OwnSequenceKept
  BY DEF IInv
<1> QED BY <1>1, Inductive, PTL

\* A quarantined event is alerted, whatever is released at the same time, unless somebody closed
\* its alert by hand (apply-pending-events.ts recordFailure, close-alert.ts).
THEOREM QuarantineAlerted == Spec => []QuarantinedIsAlerted
<1>1. IInv => QuarantinedIsAlerted
  BY DEF IInv
<1> QED BY <1>1, Inductive, PTL

\* An alert stands for an event that is quarantined.
THEOREM AlertJustified == Spec => []AlertHasReason
<1>1. IInv => AlertHasReason
  BY DEF IInv
<1> QED BY <1>1, Inductive, PTL

\* What a recorded event depends on was applied, and stays so (applyEvent).
THEOREM DependenciesFirst == Spec => []DependenciesApplied
<1>1. Init => DependenciesApplied
  BY DEF Init, DependenciesApplied
<1>2. IInv /\ DependenciesApplied /\ [Next]_vars => DependenciesApplied'
  <2> SUFFICES ASSUME IInv, DependenciesApplied, [Next]_vars PROVE DependenciesApplied'
    OBVIOUS
  <2>1. ASSUME NEW r \in Runs, CommitApply(r) PROVE DependenciesApplied'
    <3>1. recorded \in [Event -> Nat] /\ applied \subseteq applied'
      BY <2>1 DEF IInv, TypeOK, CommitApply, MarkApplied
    <3>2. current[r] \notin KeepsNothing =>
            \A a \in DependsOn[current[r]] : \E f \in applied : AggregateOf[f] = a
      BY <2>1 DEF CommitApply, AggregateApplied
    <3>3. \A e \in Event : (e = current[r] /\ e \notin KeepsNothing) \/ recorded'[e] = recorded[e]
      BY <2>1, <3>1 DEF CommitApply
    <3> QED BY <3>1, <3>2, <3>3 DEF DependenciesApplied
  <2>2. CASE UNCHANGED <<recorded, applied>>
    BY <2>2 DEF DependenciesApplied
  <2>3. (\A r \in Runs : ~CommitApply(r)) => UNCHANGED <<recorded, applied>>
    BY DEF Next, Receive, RetryComes, BeginRelease, CommitRelease, RefuseBrokenChain,
           EnqueueEveryMinute, RunStep, StartRun, SkipAggregate, BeginApply, FailApply,
           DropObsoleteFailure, RecordRetry, BeginQuarantine, OpenAlert, LoseAlert,
           CommitQuarantine, EndRun, Crash, CloseAlert, vars, inboxVars, cloudVars
  <2> QED BY <2>1, <2>2, <2>3
<1> QED BY <1>1, <1>2, Inductive, PTL DEF Spec

\* An attempt is counted only when its time has come, however runs overlap (recordFailure).
THEOREM RetriesSpaced == Spec => RetriesAreSpaced
<1>1. IInv /\ [Next]_vars => [\A e \in Event : attempts'[e] > attempts[e] => e \notin waiting]_vars
  <2> SUFFICES ASSUME IInv, [Next]_vars, NEW e \in Event, attempts'[e] > attempts[e]
               PROVE  e \notin waiting
    OBVIOUS
  <2>1. attempts \in [Event -> Nat] /\ attempts[e] \in Nat
    BY BoundsAssumption DEF IInv, TypeOK
  <2>2. ~UNCHANGED attempts
    BY <2>1
  <2>3. \/ \E f \in Event : CommitRelease(f)
        \/ \E r \in Runs : RecordRetry(r) \/ CommitQuarantine(r)
    BY <2>2 DEF Next, Receive, RetryComes, BeginRelease, RefuseBrokenChain,
           EnqueueEveryMinute, RunStep, StartRun, SkipAggregate, BeginApply, CommitApply, FailApply,
           DropObsoleteFailure, BeginQuarantine, OpenAlert, LoseAlert, EndRun, Crash,
           CloseAlert, vars, inboxVars
  <2>4. ASSUME NEW f \in Event, CommitRelease(f) PROVE FALSE
    BY <2>1, <2>4 DEF CommitRelease, NewSeries
  <2>5. ASSUME NEW r \in Runs, RecordRetry(r) PROVE e \notin waiting
    <3>1. current[r] \notin waiting
      BY <2>5, CountedIsDue DEF RecordRetry
    <3> QED BY <2>1, <2>5, <3>1 DEF RecordRetry
  <2>6. ASSUME NEW r \in Runs, CommitQuarantine(r) PROVE e \notin waiting
    <3>1. current[r] \notin waiting
      BY <2>6 DEF CommitQuarantine, IInv, RunsKnowTheirEvents, InTransaction
    <3> QED BY <2>1, <2>6, <3>1 DEF CommitQuarantine
  <2> QED BY <2>3, <2>4, <2>5, <2>6
<1> QED BY <1>1, Inductive, PTL DEF Spec, RetriesAreSpaced

-----------------------------------------------------------------------------
(* Applying the inbox implements EventEffects *)

\* The effects, as EventEffects counts them.
Effects ==
    [e \in Event |-> IF e \notin KeepsNothing THEN recorded[e] ELSE IF e \in applied THEN 1 ELSE 0]

\* An event that is held had its effect exactly when it is marked.
LEMMA EffectsOfHeld ==
    ASSUME IInv
    PROVE  /\ Abstract!InEffect \subseteq Event
           /\ \A f \in held : f \in Abstract!InEffect <=> f \in applied
           /\ applied \subseteq Abstract!InEffect
<1>1. \A f \in Event : f \in Abstract!InEffect <=>
            IF f \notin KeepsNothing THEN recorded[f] > 0 ELSE f \in applied
  BY DEF Abstract!InEffect
<1>2. recorded \in [Event -> Nat] /\ applied \subseteq held /\ held \subseteq Event
  BY DEF IInv, TypeOK
<1>3. \A f \in held \ KeepsNothing : recorded[f] <= 1 /\ (f \in applied <=> recorded[f] = 1)
  BY <1>2 DEF IInv, AppliedOnce
<1>4. \A f \in held \ KeepsNothing : f \in applied <=> recorded[f] > 0
  BY <1>2, <1>3
<1>5. Abstract!InEffect \subseteq Event
  BY DEF Abstract!InEffect
<1> QED BY <1>1, <1>2, <1>4, <1>5

LEMMA ReceiveArrives ==
    ASSUME IInv, NEW e \in Event, Receive(e) PROVE Abstract!Arrive(e)
<1>1. e \notin Received /\ DeviceOf[e] \notin revoked /\ held' = held \cup {e}
  BY DEF Receive
<1>2. Received' = Received \cup {e}
  BY ReceptionCounted
<1>3. (Received \ held)' = Received \ held
  BY <1>1, <1>2
<1>4. UNCHANGED <<recorded, applied, revoked>>
  BY DEF Receive, cloudVars
<1>5. receivedAt' = [receivedAt EXCEPT ![e] = Cardinality(Received) + 1]
  BY DEF Receive
<1>6. Effects' = Effects
  BY <1>4 DEF Effects
<1>7. Abstract!Arrived = Received
  BY DEF Abstract!Arrived, Received
<1>8. Abstract!Cardinality(Received) = Cardinality(Received)
  BY DEF Abstract!Cardinality, Cardinality, Abstract!IsFiniteSet, IsFiniteSet
<1> QED BY <1>1, <1>3, <1>4, <1>5, <1>6, <1>7, <1>8 DEF Abstract!Arrive, Effects

\* What goes before an event that a run applies is marked, or set aside.
LEMMA BeforeIsDone ==
    ASSUME IInv, NEW r \in Runs, CommitApply(r)
    PROVE  Abstract!Before(current[r]) \subseteq Abstract!InEffect \cup (Received \ held)
<1>1. SUFFICES ASSUME NEW f \in Abstract!Before(current[r]), f \in held PROVE f \in applied
  BY EffectsOfHeld DEF Abstract!Before, Abstract!Arrived, Received
<1>2. /\ DeviceOf[f] = DeviceOf[current[r]] /\ SeqOf[f] < SeqOf[current[r]]
      /\ AggregateOf[f] = AggregateOf[current[r]] /\ receivedAt[f] < receivedAt[current[r]]
  BY DEF Abstract!Before
<1> QED BY <1>1, <1>2 DEF IInv, RunsKeepOwnSequence, CommitApply

\* A commit is the effect; or, when the event keeps nothing and was set aside, nothing.
LEMMA CommitTakesEffect ==
    ASSUME IInv, NEW r \in Runs, CommitApply(r)
    PROVE  (\E e \in Event : Abstract!TakeEffect(e)) \/ UNCHANGED Abstract!vars
<1> PICK e \in Event : e = current[r]
  BY DEF CommitApply, IInv, RunsKnowTheirEvents, Received, InTransaction
<1>1. e \in Received /\ e \notin applied /\ recorded[e] = 0
  BY DEF CommitApply, IInv, RunsKnowTheirEvents, InTransaction, Received
<1>2. recorded \in [Event -> Nat]
  BY DEF IInv, TypeOK
<1>3. UNCHANGED <<held, receivedAt, revoked>> /\ applied' = applied \cup ({e} \cap held)
  BY DEF CommitApply, MarkApplied
<1>4. UNCHANGED Received
  BY <1>3 DEF Received
<1>5. CASE e \in KeepsNothing /\ e \notin held
  <2>1. UNCHANGED <<recorded, applied>>
    BY <1>3, <1>5 DEF CommitApply
  <2>2. UNCHANGED Effects
    BY <2>1 DEF Effects
  <2> QED BY <1>3, <1>4, <2>2 DEF Abstract!vars, Effects, Received
<1>6. CASE e \notin KeepsNothing \/ e \in held
  <2>1. e \notin Abstract!InEffect
    BY <1>1, <1>2 DEF Abstract!InEffect
  <2>2. e \in KeepsNothing \/ \A a \in DependsOn[e] : \E f \in Abstract!InEffect : AggregateOf[f] = a
    <3>1. e \in KeepsNothing \/ \A a \in DependsOn[e] : \E f \in applied : AggregateOf[f] = a
      BY DEF CommitApply, AggregateApplied
    <3> QED BY <3>1, EffectsOfHeld
  <2>3. Effects' = [Effects EXCEPT ![e] = 1]
    <3>1. CASE e \notin KeepsNothing
      <4>1. recorded' = [recorded EXCEPT ![e] = 1]
        BY <1>1, <3>1 DEF CommitApply
      <4>2. \A f \in KeepsNothing : f \in applied' <=> f \in applied
        BY <1>3, <3>1
      <4> QED BY <1>1, <1>2, <3>1, <4>1, <4>2 DEF Effects
    <3>2. CASE e \in KeepsNothing
      <4>1. recorded' = recorded
        BY <3>2 DEF CommitApply
      <4>2. applied' = applied \cup {e}
        BY <1>3, <1>6, <3>2
      <4> QED BY <1>1, <3>2, <4>1, <4>2 DEF Effects
    <3> QED BY <3>1, <3>2
  <2>4. e \in Abstract!Arrived
    BY <1>1 DEF Abstract!Arrived, Received
  <2>5. Abstract!Before(e) \subseteq Abstract!InEffect \cup (Received \ held)
    BY BeforeIsDone DEF Abstract!Before, Abstract!Arrived
  <2>6. Abstract!TakeEffect(e)
    BY <1>3, <1>4, <2>1, <2>2, <2>3, <2>4, <2>5 DEF Abstract!TakeEffect, Effects
  <2> QED BY <2>6
<1> QED BY <1>5, <1>6

\* Being beyond a hole, an event has those after it beyond the hole too.
LEMMA BeyondHoleIsTheRest ==
    ASSUME IInv, NEW d \in Device,
           NEW e \in BeyondHole(d), NEW f \in held, DeviceOf[f] = d, SeqOf[f] > SeqOf[e]
    PROVE  f \in BeyondHole(d)
<1>1. PICK n \in 1..SeqOf[e] : \A g \in held : ~(DeviceOf[g] = d /\ SeqOf[g] = n)
  BY DEF BeyondHole
<1>2. SeqOf[e] \in Nat /\ SeqOf[f] \in Nat
  BY EventsAssumption DEF IInv, TypeOK, BeyondHole
<1>3. n \in 1..SeqOf[f]
  BY <1>1, <1>2
<1> QED BY <1>1, <1>3 DEF BeyondHole

\* A refused push closes its installation.
LEMMA RefusingCloses ==
    ASSUME IInv, NEW d \in Device, RefuseBrokenChain(d) PROVE Abstract!Close(d)
<1> DEFINE dropped == BeyondHole(d) \ applied
<1>1. /\ d \notin revoked /\ revoked' = revoked \cup {d} /\ held' = held \ dropped
      /\ UNCHANGED <<receivedAt, recorded, applied>>
  BY DEF RefuseBrokenChain
<1>2. UNCHANGED Received /\ UNCHANGED Effects
  BY <1>1 DEF Received, Effects
<1>3. dropped \subseteq held /\ held \subseteq Received
  BY DEF BeyondHole, IInv, ReceivedIsKept
<1>4. (Received \ held)' = (Received \ held) \cup dropped
  BY <1>1, <1>2, <1>3
<1>5. Abstract!Withdrawable(d) = {f \in held \ applied : DeviceOf[f] = d}
  <2>1. Abstract!Arrived = Received
    BY DEF Abstract!Arrived, Received
  <2>2. Abstract!Withdrawable(d) =
          {f \in Received \ (Abstract!InEffect \cup (Received \ held)) : DeviceOf[f] = d}
    BY <2>1 DEF Abstract!Withdrawable, Received
  <2> QED BY <1>3, <2>2, EffectsOfHeld
<1>6. dropped \in SUBSET Abstract!Withdrawable(d)
  BY <1>3, <1>5 DEF BeyondHole
<1>7. \A e \in dropped, f \in Abstract!Withdrawable(d) : SeqOf[f] > SeqOf[e] => f \in dropped
  BY <1>5, BeyondHoleIsTheRest
<1> HIDE DEF dropped
<1> QED BY <1>1, <1>2, <1>4, <1>6, <1>7 DEF Abstract!Close, Received, Effects

LEMMA StepImplementsEventEffects == IInv /\ [Next]_vars => [Abstract!Next]_(Abstract!vars)
<1> SUFFICES ASSUME IInv, [Next]_vars PROVE Abstract!Next \/ UNCHANGED Abstract!vars
  OBVIOUS
<1>1. ASSUME NEW e \in Event, Receive(e) PROVE Abstract!Next
  BY <1>1, ReceiveArrives DEF Abstract!Next
<1>2. ASSUME NEW d \in Device, RefuseBrokenChain(d) PROVE Abstract!Next
  BY <1>2, RefusingCloses DEF Abstract!Next
<1>3. ASSUME NEW r \in Runs, CommitApply(r) PROVE Abstract!Next \/ UNCHANGED Abstract!vars
  BY <1>3, CommitTakesEffect DEF Abstract!Next
<1>4. CASE UNCHANGED <<receivedAt, recorded, applied, held, revoked>>
  <2>1. UNCHANGED Received /\ UNCHANGED Effects
    BY <1>4 DEF Received, Effects
  <2> QED BY <1>4, <2>1 DEF Abstract!vars, Received, Effects
<1>5. \/ \E e \in Event : Receive(e)
      \/ \E d \in Device : RefuseBrokenChain(d)
      \/ \E r \in Runs : CommitApply(r)
      \/ UNCHANGED <<receivedAt, recorded, applied, held, revoked>>
  BY DEF Next, RetryComes, BeginRelease, CommitRelease, EnqueueEveryMinute, RunStep, StartRun,
         SkipAggregate, BeginApply, FailApply, DropObsoleteFailure, RecordRetry,
         BeginQuarantine, OpenAlert, LoseAlert, CommitQuarantine, EndRun, Crash,
         CloseAlert, vars, inboxVars, cloudVars
<1> QED BY <1>1, <1>2, <1>3, <1>4, <1>5

\* Applying the inbox implements EventEffects, for any events, runs, releases, refused pushes and
\* crashes: the steps of overlapping transactions come to one effect each (applyNextEvent).
THEOREM ApplyingImplementsEventEffects == Spec => ImplementsEventEffects
<1>1. Init => Abstract!Init
  <2> SUFFICES ASSUME Init PROVE Abstract!Init
    OBVIOUS
  <2>1. Received = {} /\ Effects = [e \in Event |-> 0]
    BY DEF Init, Received, Effects
  <2> QED BY <2>1 DEF Abstract!Init, Init, Received, Effects
<1> QED BY <1>1, StepImplementsEventEffects, Inductive, PTL
        DEF Spec, ImplementsEventEffects, Abstract!Spec

-----------------------------------------------------------------------------
(* What is no longer held *)

\* Only a refused push takes events out of the inbox, and it notes which.
MissingIsRefused ==
    /\ Received \ held \subseteq refused
    /\ \A e \in refused : DeviceOf[e] \in Breakable

LEMMA StepKeepsMissingIsRefused ==
    ASSUME IInv, MissingIsRefused, [Next]_vars PROVE MissingIsRefused'
<1>1. ASSUME NEW e \in Event, Receive(e) PROVE MissingIsRefused'
  <2>1. Received' = Received \cup {e} /\ held' = held \cup {e} /\ refused' = refused
    BY <1>1, ReceptionCounted DEF Receive, cloudVars
  <2> QED BY <2>1 DEF MissingIsRefused
<1>2. ASSUME NEW d \in Device, RefuseBrokenChain(d) PROVE MissingIsRefused'
  <2>1. /\ d \in Breakable /\ refused' = refused \cup BeyondHole(d) /\ receivedAt' = receivedAt
        /\ held' = held \ (BeyondHole(d) \ applied)
    BY <1>2 DEF RefuseBrokenChain
  <2>2. \A e \in BeyondHole(d) : DeviceOf[e] = d
    BY DEF BeyondHole
  <2>3. Received' = Received
    BY <2>1 DEF Received
  <2> QED BY <2>1, <2>2, <2>3 DEF MissingIsRefused
<1>3. CASE UNCHANGED <<receivedAt, held, refused>>
  BY <1>3 DEF MissingIsRefused, Received
<1>4. \/ \E e \in Event : Receive(e)
      \/ \E d \in Device : RefuseBrokenChain(d)
      \/ UNCHANGED <<receivedAt, held, refused>>
  BY DEF Next, RetryComes, BeginRelease, CommitRelease, EnqueueEveryMinute, RunStep, StartRun,
         SkipAggregate, BeginApply, CommitApply, FailApply, DropObsoleteFailure, RecordRetry,
         BeginQuarantine, OpenAlert, LoseAlert, CommitQuarantine, EndRun, Crash,
         CloseAlert, vars, inboxVars, cloudVars
<1> QED BY <1>1, <1>2, <1>3, <1>4

\* What was recorded has its event held, or among those a refused push set aside: whatever else
\* meets a run, an event whose fact was kept is never lost without a trace
\* (setAsideHeldEventsAbove).
THEOREM RecordedIsAccountedFor ==
    Spec => [](\A e \in Event : recorded[e] > 0 => e \in held \cup refused)
<1>1. Init => MissingIsRefused
  BY DEF Init, MissingIsRefused, Received
<1>2. IInv /\ MissingIsRefused /\ [Next]_vars => MissingIsRefused'
  BY StepKeepsMissingIsRefused
<1>3. IInv /\ MissingIsRefused => \A e \in Event : recorded[e] > 0 => e \in held \cup refused
  BY DEF IInv, ReceivedIsKept, MissingIsRefused
<1> QED BY <1>1, <1>2, <1>3, Inductive, PTL DEF Spec

\* Where no installation pushes a broken chain, what was recorded stays held, as the comment of
\* setAsideHeldEventsAbove says of every case.
THEOREM RecordedStaysWithoutRefusals ==
    ASSUME Breakable = {} PROVE Spec => []RecordedStaysHeld
<1>1. Init => MissingIsRefused
  BY DEF Init, MissingIsRefused, Received
<1>2. IInv /\ MissingIsRefused /\ [Next]_vars => MissingIsRefused'
  BY StepKeepsMissingIsRefused
<1>3. IInv /\ MissingIsRefused => RecordedStaysHeld
  BY DEF IInv, ReceivedIsKept, MissingIsRefused, RecordedStaysHeld
<1> QED BY <1>1, <1>2, <1>3, Inductive, PTL DEF Spec
=============================================================================
