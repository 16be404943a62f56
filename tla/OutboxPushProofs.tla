-------------------------- MODULE OutboxPushProofs --------------------------
(***************************************************************************)
(* Theorems about OutboxPush, for every number of pushers, events, batch   *)
(* size and combination of hazards.                                        *)
(***************************************************************************)
EXTENDS OutboxPush, LeastElements, Sequences

USE MaxEventsAssumption, MaxBatchAssumption, MaxDelayedAssumption, HazardsAssumption

-----------------------------------------------------------------------------
(* Sets of device_seqs *)

\* highestContiguousSeq returns what its name says.
LEMMA ContiguousSpec ==
    ASSUME NEW S \in SUBSET (1..MaxEvents)
    PROVE  /\ Contiguous(S) \in 0..MaxEvents
           /\ 1..Contiguous(S) \subseteq S
           /\ Contiguous(S) + 1 \notin S
<1> DEFINE Missing == {n \in Nat : n + 1 \notin S}
<1>1. MaxEvents \in Missing
  OBVIOUS
<1>2. PICK m \in Missing : \A k \in Missing : m <= k
  BY <1>1, LeastNatural
<1>3. m \in 0..MaxEvents
  BY <1>1, <1>2
<1>4. 1..m \subseteq S
  <2> SUFFICES ASSUME NEW n \in 1..m PROVE n \in S
    OBVIOUS
  <2>1. n - 1 \in Nat /\ n - 1 < m
    BY <1>3
  <2>2. n - 1 \notin Missing
    BY <1>2, <2>1
  <2> QED BY <2>1, <2>2
<1>5. \E n \in 0..MaxEvents : 1..n \subseteq S /\ n + 1 \notin S
  BY <1>2, <1>3, <1>4
<1> QED BY <1>5 DEF Contiguous

\* No hole-free run of device_seqs is longer.
LEMMA ContiguousLongest ==
    ASSUME NEW S \in SUBSET (1..MaxEvents), NEW n \in Nat, 1..n \subseteq S
    PROVE  n <= Contiguous(S)
<1>1. Contiguous(S) \in Nat /\ Contiguous(S) + 1 \notin S
  BY ContiguousSpec
<1> QED BY <1>1

LEMMA SeqsType ==
    ASSUME NEW S \in SUBSET Event
    PROVE  Seqs(S) \subseteq 1..MaxEvents
BY DEF Seqs, Event

LEMMA EventSeq == \A e \in Event : e.seq \in Nat \ {0} /\ e.seq <= MaxEvents
BY DEF Event

\* How far the inbox reaches.
LEMMA InboxReach ==
    ASSUME inbox \in SUBSET Event
    PROVE  /\ Held \in SUBSET (1..MaxEvents) /\ AckSeq \in Nat /\ AckSeq <= MaxEvents
           /\ 1..AckSeq \subseteq Held /\ AckSeq + 1 \notin Held
BY SeqsType, ContiguousSpec DEF Held, AckSeq

\* How far a batch continues the inbox, and how far both reach together.
LEMMA BatchReach ==
    ASSUME inbox \in SUBSET Event, NEW b \in SUBSET Event
    PROVE  /\ Reach(b) \in Nat /\ Reach(b) <= MaxEvents /\ 1..Reach(b) \subseteq 1..AckSeq \cup Seqs(b)
           /\ Reach(b) + 1 \notin 1..AckSeq \cup Seqs(b)
           /\ Held \cup Seqs(b) \in SUBSET (1..MaxEvents)
           /\ Contiguous(Held \cup Seqs(b)) \in Nat /\ Contiguous(Held \cup Seqs(b)) <= MaxEvents
           /\ 1..Contiguous(Held \cup Seqs(b)) \subseteq Held \cup Seqs(b)
<1>1. Held \in SUBSET (1..MaxEvents) /\ AckSeq \in Nat /\ AckSeq <= MaxEvents
  BY InboxReach
<1>2. Seqs(b) \in SUBSET (1..MaxEvents)
  BY SeqsType
<1> HIDE DEF Held, AckSeq, Seqs
<1>3. (1..AckSeq \cup Seqs(b)) \in SUBSET (1..MaxEvents) /\ (Held \cup Seqs(b)) \in SUBSET (1..MaxEvents)
  <2>1. 1..AckSeq \subseteq 1..MaxEvents
    BY <1>1
  <2> QED BY <1>1, <1>2, <2>1
<1>4. /\ Reach(b) \in 0..MaxEvents /\ 1..Reach(b) \subseteq 1..AckSeq \cup Seqs(b)
      /\ Reach(b) + 1 \notin 1..AckSeq \cup Seqs(b)
  BY <1>3, ContiguousSpec DEF Reach
<1>5. /\ Contiguous(Held \cup Seqs(b)) \in 0..MaxEvents
      /\ 1..Contiguous(Held \cup Seqs(b)) \subseteq Held \cup Seqs(b)
  BY <1>3, ContiguousSpec
<1> QED BY <1>3, <1>4, <1>5

LEMMA PushOutcomeType ==
    ASSUME inbox \in SUBSET Event, NEW b \in SUBSET Event
    PROVE  PushOutcome(b) \in Answer
<1>1. AckSeq \in 0..MaxEvents /\ Reach(b) \in 0..MaxEvents
      /\ Contiguous(Held \cup Seqs(b)) \in 0..MaxEvents
  BY InboxReach, BatchReach
<1> QED BY <1>1 DEF PushOutcome, AnswerOf, Answer, AnswerKinds

-----------------------------------------------------------------------------
(* Types *)

TypeInv == TypeOK /\ PositionsBelowCreated

LEMMA InitTypeInv == Init => TypeInv
<1> SUFFICES ASSUME Init PROVE TypeInv
  OBVIOUS
<1> USE DEF Init
<1>1. answer \in [Pushers -> Answer] /\ pc \in [Pushers -> PcLabels]
  BY DEF PcLabels, Answer, AnswerKinds, NoAnswer
<1>2. registerCopy \in RegisterCopy /\ cloudBackup \in CloudBackup
  BY DEF RegisterCopy, CloudBackup, Stops
<1>3. batch \in [Pushers -> SUBSET Event] /\ pushedAny \in [Pushers -> BOOLEAN] /\ stopped \in Stops
  BY DEF Stops
<1>4. PositionsBelowCreated
  BY DEF PositionsBelowCreated
<1>5. delayed \in SUBSET SUBSET Event /\ created \in 0..MaxEvents /\ history \in SUBSET HazardKinds
  OBVIOUS
<1>6. revoked \in BOOLEAN /\ versionAccepted \in BOOLEAN /\ stale \in BOOLEAN
  OBVIOUS
<1>7. TypeOK
  BY <1>1, <1>2, <1>3, <1>5, <1>6 DEF TypeOK
<1> QED BY <1>4, <1>7 DEF TypeInv

LEMMA StepTypeInv == TypeInv /\ [Next]_vars => TypeInv'
<1> SUFFICES ASSUME TypeInv, [Next]_vars PROVE TypeInv'
  OBVIOUS
<1> USE DEF TypeInv, TypeOK, PositionsBelowCreated
<1>a. NoAnswer \in Answer
  BY DEF NoAnswer, Answer, AnswerKinds
<1>b. \A n \in Nat : AckedThrough(n) \in SUBSET (1..MaxEvents)
  BY SeqsType DEF AckedThrough
<1>1. CASE AppendOutboxEvent
  <2>1. [seq |-> lastSeq + 1, id |-> created + 1, prev |-> lastId] \in Event
    BY <1>1 DEF AppendOutboxEvent, Event
  <2>2. created' \in 0..MaxEvents /\ lastSeq' \in 0..MaxEvents /\ lastId' \in 0..MaxEvents
    BY <1>1 DEF AppendOutboxEvent
  <2>3. PositionsBelowCreated'
    BY <1>1 DEF AppendOutboxEvent, copies, RegisterCopy
  <2> QED BY <1>1, <2>1, <2>2, <2>3 DEF AppendOutboxEvent, pushers, network, cloudDb, copies
<1>2. CASE Prune
  BY <1>2 DEF Prune, registerDb, pushers, network, cloudDb, copies, Unacknowledged
<1>3. CASE AttachEvent
  BY <1>3 DEF AttachEvent, registerDb, pushers, network, cloudDb, copies, ghosts
<1>4. ASSUME NEW p \in Pushers, PusherStep(p) PROVE TypeInv'
  <2> USE DEF registerDb, network, cloudDb, copies, ghosts, Finish, Again, Goto, PcLabels
  <2>1. CASE ReadAndSend(p)
    <3>1. PICK events \in SUBSET Unacknowledged :
               \/ /\ Goto(p, "waiting") /\ batch' = [batch EXCEPT ![p] = events]
                  /\ answer' = [answer EXCEPT ![p] = NoAnswer] /\ UNCHANGED pushedAny
               \/ Finish(p)
      BY <2>1 DEF ReadAndSend
    <3>2. events \in SUBSET Event
      BY DEF Unacknowledged
    <3>3. pc' \in [Pushers -> PcLabels] /\ pushedAny' \in [Pushers -> BOOLEAN]
      BY <3>1
    <3>4. batch' \in [Pushers -> SUBSET Event] /\ answer' \in [Pushers -> Answer]
      BY <3>1, <3>2, <1>a
    <3> QED BY <2>1, <3>3, <3>4 DEF ReadAndSend
  <2>2. CASE TakeReceived(p)
    <3>1. answer[p].ack \in Nat
      BY DEF Answer
    <3>2. acked' \in SUBSET (1..MaxEvents)
      BY <2>2, <3>1, <1>b DEF TakeReceived
    <3>3. pushedAny' \in [Pushers -> BOOLEAN] /\ pc' \in [Pushers -> PcLabels]
      BY <2>2 DEF TakeReceived
    <3>4. batch' \in [Pushers -> SUBSET Event] /\ answer' \in [Pushers -> Answer]
      BY <2>2, <1>a DEF TakeReceived
    <3> QED BY <2>2, <3>2, <3>3, <3>4 DEF TakeReceived
  <2>3. CASE TakeReportReceived(p)
    BY <2>3, <1>a DEF TakeReportReceived
  <2>4. CASE TakeGap(p)
    <3>1. answer[p].ack \in Nat
      BY DEF Answer
    <3> QED BY <2>4, <3>1, <1>b DEF TakeGap
  <2>5. CASE HoldsEvent(p)
    BY <2>5 DEF HoldsEvent
  <2>6. CASE HoldsEventAfter(p)
    BY <2>6 DEF HoldsEventAfter
  <2>7. CASE RecordCompromised(p)
    BY <2>7, <1>a DEF RecordCompromised, Stop, Stops
  <2>8. CASE ResendFrom(p)
    BY <2>8 DEF ResendFrom
  <2>9. CASE NextToSend(p)
    <3>1. (Again(p) /\ UNCHANGED pushedAny) \/ Finish(p)
      BY <2>9 DEF NextToSend
    <3>2. pc' \in [Pushers -> PcLabels] /\ pushedAny' \in [Pushers -> BOOLEAN]
      BY <3>1
    <3>3. batch' \in [Pushers -> SUBSET Event] /\ answer' \in [Pushers -> Answer]
      BY <3>1, <1>a
    <3> QED BY <2>9, <3>2, <3>3 DEF NextToSend
  <2>10. CASE TakeStaleDevice(p)
    BY <2>10, <1>a DEF TakeStaleDevice
  <2>11. CASE TakeUpdateRequired(p)
    <3>1. answer[p].ack \in Nat
      BY DEF Answer
    <3> QED BY <2>11, <3>1, <1>a, <1>b DEF TakeUpdateRequired
  <2>12. CASE TakeRevoked(p)
    BY <2>12, <1>a DEF TakeRevoked, Stop, Stops
  <2> QED BY <1>4, <2>1, <2>2, <2>3, <2>4, <2>5, <2>6, <2>7, <2>8, <2>9, <2>10, <2>11, <2>12
          DEF PusherStep
<1>5. ASSUME NEW p \in Pushers, Fail(p) PROVE TypeInv'
  BY <1>5, <1>a DEF Fail, Finish, Again, Goto, PcLabels, registerDb, cloudDb, copies, ghosts
<1>6. ASSUME NEW b \in SUBSET Event, ReceivePushedEvents(b)
      PROVE  inbox' \in SUBSET Event /\ applied' \in SUBSET Event /\ refused' \in SUBSET Event
             /\ revoked' \in BOOLEAN
  BY <1>6 DEF ReceivePushedEvents, StoreEvents, RefuseBrokenChain, cloudDb
<1>7. ASSUME NEW p \in Pushers, HandlePush(p) PROVE TypeInv'
  <2>1. batch[p] \in SUBSET Event /\ PushOutcome(batch[p]) \in Answer
    BY PushOutcomeType
  <2>2. inbox' \in SUBSET Event /\ applied' \in SUBSET Event /\ refused' \in SUBSET Event
        /\ revoked' \in BOOLEAN
    BY <1>6, <1>7, <2>1 DEF HandlePush
  <2> QED BY <1>7, <2>1, <2>2 DEF HandlePush, Goto, PcLabels, registerDb, network, copies, ghosts
<1>8. CASE HandleDelayedPush
  <2>1. PICK b \in delayed : ReceivePushedEvents(b) /\ delayed' = delayed \ {b}
    BY <1>8 DEF HandleDelayedPush
  <2>2. inbox' \in SUBSET Event /\ applied' \in SUBSET Event /\ refused' \in SUBSET Event
        /\ revoked' \in BOOLEAN
    BY <1>6, <2>1
  <2> QED BY <1>8, <2>1, <2>2 DEF HandleDelayedPush, registerDb, pushers, copies, ghosts
<1>9. CASE HandleAttachment
  BY <1>9 DEF HandleAttachment, registerDb, pushers, copies, ghosts
<1>10. CASE Apply
  BY <1>10 DEF Apply, registerDb, pushers, network, copies, ghosts
<1>11. CASE Crash
  BY <1>11, <1>a DEF Crash, AllPushersStop, PcLabels, registerDb, network, cloudDb, copies, ghosts
<1>12. CASE CopyRegister
  BY <1>12 DEF CopyRegister, RegisterCopy, registerDb, pushers, network, cloudDb, ghosts
<1>13. CASE RollBackRegister
  BY <1>13, <1>a DEF RollBackRegister, AllPushersStop, PcLabels, RegisterCopy, network, cloudDb, copies,
                     HazardKinds
<1>14. CASE BackUpCloud
  BY <1>14 DEF BackUpCloud, CloudBackup, registerDb, pushers, network, cloudDb, ghosts
<1>15. CASE RestoreCloud
  BY <1>15 DEF RestoreCloud, CloudBackup, registerDb, pushers, network, copies, HazardKinds
<1>16. CASE LoseRow
  BY <1>16 DEF LoseRow, pushers, network, cloudDb, copies, HazardKinds
<1>17. CASE RevokeInstallation
  BY <1>17 DEF RevokeInstallation, registerDb, pushers, network, copies, HazardKinds
<1>18. CASE ChangeVersionStanding
  BY <1>18 DEF ChangeVersionStanding, registerDb, pushers, network, cloudDb, copies, ghosts
<1>19. CASE UNCHANGED vars
  BY <1>19 DEF vars, registerDb, pushers, network, cloudDb, copies, ghosts
<1> QED
  BY <1>1, <1>2, <1>3, <1>4, <1>5, <1>7, <1>8, <1>9, <1>10, <1>11, <1>12, <1>13, <1>14, <1>15, <1>16,
     <1>17, <1>18, <1>19 DEF Next, RegisterStep, CloudStep, HazardStep

\* Every variable keeps its type, and device_seqs never outrun the events created.
THEOREM TypeCorrect == Spec => []TypeOK
<1>1. Spec => []TypeInv
  BY InitTypeInv, StepTypeInv, PTL DEF Spec
<1>2. TypeInv => TypeOK
  BY DEF TypeInv
<1> QED BY <1>1, <1>2, PTL

-----------------------------------------------------------------------------
(* The prefix the inbox holds without a hole is one chain *)

\* What an accepted push is linked to is what the inbox holds: a batch that names another event for
\* a device_seq held is stale, and one beyond its reach leaves a gap.
LEMMA LinkedAfterStoring ==
    ASSUME TypeOK, NEW b \in SUBSET Event, ~IsStale(b), ~HasGap(b), StoreEvents(b),
           NEW e \in Event, Linked(e, b \cup inbox)
    PROVE  Linked(e, inbox')
<1>1. CASE e.seq = 1
  BY <1>1 DEF Linked
<1>2. CASE e.seq # 1
  <2>1. PICK f \in b \cup inbox : f.seq = e.seq - 1 /\ f.id = e.prev
    BY <1>2 DEF Linked
  <2>2. CASE f \in inbox
    BY <1>2, <2>1, <2>2 DEF Linked, StoreEvents
  <2>3. CASE f \in b /\ f.seq \notin Held
    BY <1>2, <2>1, <2>3 DEF Linked, StoreEvents
  <2>4. CASE f \in b /\ f.seq \in Held
    <3>1. PICK g \in inbox : g.seq = f.seq
      BY <2>4 DEF Held, Seqs
    <3>2. f.seq <= Reach(b)
      <4>1. Reach(b) \in Nat /\ f.seq \in Nat
        BY <2>1, BatchReach, EventSeq DEF TypeOK
      <4> QED BY <2>4, <4>1 DEF HasGap
    <3>3. g.id = f.id
      BY <2>4, <3>1, <3>2 DEF IsStale
    <3> QED BY <1>2, <2>1, <3>1, <3>3 DEF Linked, StoreEvents
  <2> QED BY <2>1, <2>2, <2>3, <2>4
<1> QED BY <1>1, <1>2

LEMMA StoringKeepsOneChain ==
    ASSUME TypeOK, OneChain(inbox), NEW b \in SUBSET Event, StoreEvents(b),
           ~IsStale(b), ~HasGap(b), ChainHolds(b)
    PROVE  OneChain(inbox')
<1> SUFFICES ASSUME NEW e \in inbox', 1..e.seq \subseteq Seqs(inbox') PROVE Linked(e, inbox')
  BY DEF OneChain
<1>1. e \in inbox \cup b /\ e \in Event
  BY DEF StoreEvents, TypeOK
<1>2. CASE e \in b
  BY <1>1, <1>2, LinkedAfterStoring DEF ChainHolds
<1>3. CASE e \in inbox /\ e.seq <= AckSeq
  <2>1. 1..AckSeq \subseteq Held /\ AckSeq \in Nat /\ e.seq \in Nat
    BY <1>1, InboxReach, EventSeq DEF TypeOK
  <2>2. 1..e.seq \subseteq Held
    BY <1>3, <2>1
  <2>3. Linked(e, inbox)
    BY <1>3, <2>2 DEF OneChain, Held
  <2> QED BY <2>3 DEF Linked, StoreEvents
<1>4. CASE e \in inbox /\ ~(e.seq <= AckSeq)
  <2>1. AckSeq \in Nat /\ e.seq \in Nat /\ Held \cup Seqs(b) \in SUBSET (1..MaxEvents)
    BY <1>1, InboxReach, BatchReach, EventSeq DEF TypeOK
  <2>2. 1..e.seq \subseteq Held \cup Seqs(b)
    BY DEF StoreEvents, Held, Seqs
  <2>3. e.seq <= Contiguous(Held \cup Seqs(b))
    BY <2>1, <2>2, ContiguousLongest
  <2>4. e \in Joined(b)
    BY <1>4, <2>1, <2>3 DEF Joined
  <2> QED BY <1>1, <2>4, LinkedAfterStoring DEF ChainHolds
<1> QED BY <1>1, <1>2, <1>3, <1>4

LEMMA RefusingKeepsOneChain ==
    ASSUME TypeOK, OneChain(inbox), NEW b \in SUBSET Event, RefuseBrokenChain(b)
    PROVE  OneChain(inbox')
<1> SUFFICES ASSUME NEW e \in inbox', 1..e.seq \subseteq Seqs(inbox') PROVE Linked(e, inbox')
  BY DEF OneChain
<1>1. e \in inbox /\ e.seq \in Nat /\ AckSeq \in Nat /\ Held \in SUBSET (1..MaxEvents)
  BY InboxReach, EventSeq DEF RefuseBrokenChain, TypeOK
<1>2. 1..e.seq \subseteq Held
  BY DEF RefuseBrokenChain, Held, Seqs
<1>3. e.seq <= AckSeq
  BY <1>1, <1>2, ContiguousLongest DEF AckSeq
<1>4. Linked(e, inbox)
  BY <1>1, <1>2 DEF OneChain, Held
<1>5. ASSUME NEW f \in inbox, f.seq = e.seq - 1 PROVE f \in inbox'
  BY <1>1, <1>3, <1>5 DEF RefuseBrokenChain
<1> QED BY <1>4, <1>5 DEF Linked

LEMMA ReceivingKeepsOneChain ==
    ASSUME TypeOK, OneChain(inbox), NEW b \in SUBSET Event, ReceivePushedEvents(b)
    PROVE  OneChain(inbox')
<1>1. CASE PushOutcome(b).kind = "received" /\ StoreEvents(b)
  <2>1. ~IsStale(b) /\ ~HasGap(b) /\ ChainHolds(b)
    BY <1>1 DEF PushOutcome, AnswerOf
  <2> QED BY <1>1, <2>1, StoringKeepsOneChain
<1>2. CASE RefuseBrokenChain(b)
  BY <1>2, RefusingKeepsOneChain
<1>3. CASE UNCHANGED cloudDb
  BY <1>3 DEF cloudDb
<1> QED BY <1>1, <1>2, <1>3 DEF ReceivePushedEvents

LEMMA AttachingKeepsOneChain ==
    ASSUME TypeOK, OneChain(inbox), NEW e \in Event, HasPlace(e), AttachedChainHolds(e)
    PROVE  OneChain(inbox \cup {e})
<1> DEFINE after == inbox \cup {e}
<1> SUFFICES ASSUME NEW f \in after, 1..f.seq \subseteq Seqs(after) PROVE Linked(f, after)
  BY DEF OneChain
<1>1. f \in Event /\ f.seq \in 1..MaxEvents /\ e.seq \in 1..MaxEvents
  BY DEF TypeOK, Event
<1>2. 1..f.seq \subseteq Held \cup Seqs({e}) /\ Seqs({e}) = {e.seq}
  BY DEF Held, Seqs
<1>3. CASE f.seq < e.seq
  <2>1. 1..f.seq \subseteq Held
    BY <1>1, <1>2, <1>3
  <2>2. f \in inbox
    BY <1>1, <1>3
  <2>3. Linked(f, inbox)
    BY <2>1, <2>2 DEF OneChain, Held
  <2> QED BY <2>3 DEF Linked
<1>4. CASE f.seq >= e.seq
  <2>1. e.seq = 1 \/ e.seq - 1 \in Held
    BY <1>1, <1>2, <1>4
  <2>2. \A g \in {e} \cup Joined({e}) : Linked(g, after)
    BY <2>1 DEF AttachedChainHolds, Linked
  <2>3. CASE f = e
    BY <2>2, <2>3
  <2>4. CASE f \in inbox
    <3>1. Held \cup Seqs({e}) \in SUBSET (1..MaxEvents) /\ AckSeq \in Nat /\ 1..AckSeq \subseteq Held
      <4>1. {e} \in SUBSET Event /\ inbox \in SUBSET Event
        BY DEF TypeOK
      <4> QED BY <4>1, InboxReach, BatchReach
    <3>2. f.seq <= Contiguous(Held \cup Seqs({e}))
      <4> DEFINE seqs == Held \cup Seqs({e})
      <4>1. seqs \in SUBSET (1..MaxEvents) /\ f.seq \in Nat /\ 1..f.seq \subseteq seqs
        BY <1>1, <1>2, <3>1
      <4> HIDE DEF seqs
      <4>2. f.seq <= Contiguous(seqs)
        BY <4>1, ContiguousLongest
      <4> QED BY <4>2 DEF seqs
    <3>3. e.seq \notin Held
      BY DEF HasPlace, Held, Seqs
    <3>4. AckSeq < f.seq
      BY <1>1, <1>4, <3>1, <3>3
    <3> QED BY <2>2, <2>4, <3>2, <3>4 DEF Joined
  <2> QED BY <2>3, <2>4
<1> QED BY <1>1, <1>3, <1>4

\* The steps that change what the cloud holds, or the backup it may go back to.
LEMMA CloudChanges ==
    ASSUME [Next]_vars
    PROVE  \/ UNCHANGED <<cloudDb, cloudBackup>>
           \/ \E p \in Pushers : HandlePush(p)
           \/ HandleDelayedPush \/ HandleAttachment \/ Apply
           \/ BackUpCloud \/ RestoreCloud \/ RevokeInstallation
<1>1. CASE RegisterStep
  BY <1>1 DEF RegisterStep, AppendOutboxEvent, Prune, AttachEvent, copies
<1>2. ASSUME NEW p \in Pushers, PusherStep(p) \/ Fail(p) PROVE UNCHANGED <<cloudDb, cloudBackup>>
  BY <1>2 DEF PusherStep, ReadAndSend, TakeReceived, TakeReportReceived, TakeGap, HoldsEvent,
              HoldsEventAfter, RecordCompromised, ResendFrom, NextToSend, TakeStaleDevice,
              TakeUpdateRequired, TakeRevoked, Fail, copies
<1>3. CASE Crash \/ CopyRegister \/ RollBackRegister \/ LoseRow \/ ChangeVersionStanding
  BY <1>3 DEF Crash, CopyRegister, RollBackRegister, LoseRow, ChangeVersionStanding, copies
<1>4. CASE UNCHANGED vars
  BY <1>4 DEF vars, copies
<1> QED BY <1>1, <1>2, <1>3, <1>4 DEF Next, CloudStep, HazardStep

ChainInv == EveryInboxIsOneChain /\ EveryAppliedIsHeld

LEMMA StepChainInv == TypeInv /\ ChainInv /\ [Next]_vars => ChainInv'
<1> SUFFICES ASSUME TypeInv, ChainInv, [Next]_vars PROVE ChainInv'
  OBVIOUS
<1> USE DEF ChainInv, EveryInboxIsOneChain, EveryAppliedIsHeld
<1>1. CASE UNCHANGED <<cloudDb, cloudBackup>>
  BY <1>1 DEF cloudDb, OneChain, Linked, Seqs
<1>2. ASSUME NEW b \in SUBSET Event, ReceivePushedEvents(b), UNCHANGED cloudBackup PROVE ChainInv'
  <2>1. OneChain(inbox')
    BY <1>2, ReceivingKeepsOneChain DEF TypeInv
  <2>2. applied' \subseteq inbox'
    BY <1>2 DEF ReceivePushedEvents, StoreEvents, RefuseBrokenChain, cloudDb
  <2>3. OneChain(cloudBackup'.inbox) /\ cloudBackup'.applied \subseteq cloudBackup'.inbox
    BY <1>2
  <2> QED BY <2>1, <2>2, <2>3 DEF OneChain, Linked, Seqs
<1>3. ASSUME NEW p \in Pushers, HandlePush(p) PROVE ChainInv'
  BY <1>2, <1>3 DEF HandlePush, copies, TypeInv, TypeOK
<1>4. CASE HandleDelayedPush
  BY <1>2, <1>4 DEF HandleDelayedPush, copies, TypeInv, TypeOK
<1>5. CASE HandleAttachment
  <2>1. PICK e \in attachments : \/ inbox' = inbox \cup {e} /\ HasPlace(e) /\ AttachedChainHolds(e)
                                \/ UNCHANGED inbox
    BY <1>5 DEF HandleAttachment
  <2>2. OneChain(inbox')
    BY <2>1, AttachingKeepsOneChain DEF TypeInv, TypeOK
  <2>3. applied' = applied /\ cloudBackup' = cloudBackup /\ inbox \subseteq inbox'
    BY <1>5, <2>1 DEF HandleAttachment, copies
  <2> QED BY <2>2, <2>3 DEF OneChain, Linked, Seqs
<1>6. CASE Apply
  <2>1. inbox' = inbox /\ cloudBackup' = cloudBackup /\ applied' \subseteq inbox
    BY <1>6 DEF Apply, copies
  <2> QED BY <2>1 DEF OneChain, Linked, Seqs
<1>7. CASE BackUpCloud
  <2>1. inbox' = inbox /\ applied' = applied /\ cloudBackup'.inbox = inbox /\ cloudBackup'.applied = applied
    BY <1>7 DEF BackUpCloud, cloudDb
  <2> QED BY <2>1 DEF OneChain, Linked, Seqs
<1>8. CASE RestoreCloud
  <2>1. inbox' = cloudBackup.inbox /\ applied' = cloudBackup.applied /\ cloudBackup' = cloudBackup
    BY <1>8 DEF RestoreCloud, copies
  <2> QED BY <2>1 DEF OneChain, Linked, Seqs
<1>9. CASE RevokeInstallation
  BY <1>9 DEF RevokeInstallation, copies, OneChain, Linked, Seqs
<1> QED BY <1>1, <1>3, <1>4, <1>5, <1>6, <1>7, <1>8, <1>9, CloudChanges

LEMMA ChainInvariant == Spec => [](TypeInv /\ ChainInv)
<1>1. Init => ChainInv
  BY DEF Init, ChainInv, EveryInboxIsOneChain, EveryAppliedIsHeld, OneChain
<1> QED BY <1>1, InitTypeInv, StepTypeInv, StepChainInv, PTL DEF Spec

\* Whatever rolls back or is restored, what the inbox holds without a hole is one chain: the
\* acknowledgement answered by the cloud never covers a mixture of two histories.
THEOREM OneHistory == Spec => []ReceivedPrefixIsOneChain
<1>1. ChainInv => ReceivedPrefixIsOneChain
  BY DEF ChainInv, EveryInboxIsOneChain, OneChain, ReceivedPrefixIsOneChain, Held
<1> QED BY <1>1, ChainInvariant, PTL

\* Setting a refused push aside never takes away an event that was applied.
THEOREM AppliedHeld == Spec => []AppliedStaysHeld
<1>1. ChainInv => AppliedStaysHeld
  BY DEF ChainInv, EveryAppliedIsHeld, AppliedStaysHeld
<1> QED BY <1>1, ChainInvariant, PTL

-----------------------------------------------------------------------------
(* What leaves the inbox is set aside *)

\* A push stores more, changes nothing, or moves what is beyond the hole to the events set aside.
LEMMA ReceivingKeepsEvidence ==
    ASSUME TypeOK, NEW b \in SUBSET Event, ReceivePushedEvents(b)
    PROVE  inbox \subseteq inbox' \cup refused'
<1>1. CASE StoreEvents(b) \/ UNCHANGED cloudDb
  BY <1>1 DEF StoreEvents, cloudDb
<1>2. CASE RefuseBrokenChain(b)
  <2> SUFFICES ASSUME NEW f \in inbox PROVE f \in inbox' \cup refused'
    OBVIOUS
  <2>1. f.seq \in Nat /\ AckSeq \in Nat
    BY EventSeq, InboxReach DEF TypeOK
  <2>2. CASE f.seq <= AckSeq
    BY <1>2, <2>2 DEF RefuseBrokenChain
  <2>3. CASE f.seq > AckSeq
    BY <1>2, <2>3 DEF RefuseBrokenChain
  <2> QED BY <2>1, <2>2, <2>3
<1> QED BY <1>1, <1>2 DEF ReceivePushedEvents

\* Refusing a push for its broken chain loses no evidence: until a database is replaced by a copy,
\* an event leaves the inbox only for the events set aside, and none that was applied does.
THEOREM EvidenceKept == Spec => SetAsideIsKept
<1> DEFINE Kept == history' = history => inbox \subseteq inbox' \cup refused' /\ applied \subseteq inbox'
<1>1. TypeInv /\ ChainInv /\ [Next]_vars => Kept
  <2> SUFFICES ASSUME TypeInv, ChainInv, [Next]_vars, history' = history
               PROVE  inbox \subseteq inbox' \cup refused' /\ applied \subseteq applied'
    BY StepChainInv DEF ChainInv, EveryAppliedIsHeld
  <2> DEFINE NothingLost == inbox \subseteq inbox' \cup refused' /\ applied \subseteq applied'
  <2>1. ASSUME NEW b \in SUBSET Event, ReceivePushedEvents(b) PROVE NothingLost
    <3>1. applied' = applied
      BY <2>1 DEF ReceivePushedEvents, StoreEvents, RefuseBrokenChain, cloudDb
    <3> QED BY <2>1, <3>1, ReceivingKeepsEvidence DEF TypeInv
  <2>2. ASSUME NEW p \in Pushers, HandlePush(p) PROVE NothingLost
    BY <2>1, <2>2 DEF HandlePush, TypeInv, TypeOK
  <2>3. CASE HandleDelayedPush
    BY <2>1, <2>3 DEF HandleDelayedPush, TypeInv, TypeOK
  <2>4. CASE HandleAttachment \/ Apply \/ BackUpCloud \/ RevokeInstallation
    BY <2>4 DEF HandleAttachment, Apply, BackUpCloud, RevokeInstallation, cloudDb
  <2>5. ~RestoreCloud
    BY DEF RestoreCloud
  <2> QED BY <2>2, <2>3, <2>4, <2>5, CloudChanges DEF cloudDb
<1>2. TypeInv /\ ChainInv /\ [Next]_vars => [Kept]_vars
  BY <1>1
<1> QED BY <1>2, ChainInvariant, PTL DEF Spec, SetAsideIsKept

-----------------------------------------------------------------------------
(* Until a rollback, one event of each device_seq *)

LEMMA HistoryGrows == [Next]_vars => history \subseteq history'
BY DEF Next, RegisterStep, CloudStep, HazardStep, AppendOutboxEvent, Prune, AttachEvent, PusherStep,
       ReadAndSend, TakeReceived, TakeReportReceived, TakeGap, HoldsEvent, HoldsEventAfter,
       RecordCompromised, ResendFrom, NextToSend, TakeStaleDevice, TakeUpdateRequired, TakeRevoked,
       Fail, HandlePush, HandleDelayedPush, HandleAttachment, Apply, Crash, CopyRegister,
       RollBackRegister, BackUpCloud, RestoreCloud, LoseRow, RevokeInstallation,
       ChangeVersionStanding, vars, ghosts

LEMMA StepHistoryWithinHazards == HistoryWithinHazards /\ [Next]_vars => HistoryWithinHazards'
<1>1. [Next]_vars => history' \subseteq history \cup Hazards
  BY DEF Next, RegisterStep, CloudStep, HazardStep, AppendOutboxEvent, Prune, AttachEvent, PusherStep,
         ReadAndSend, TakeReceived, TakeReportReceived, TakeGap, HoldsEvent, HoldsEventAfter,
         RecordCompromised, ResendFrom, NextToSend, TakeStaleDevice, TakeUpdateRequired, TakeRevoked,
         Fail, HandlePush, HandleDelayedPush, HandleAttachment, Apply, Crash, CopyRegister,
         RollBackRegister, BackUpCloud, RestoreCloud, LoseRow, RevokeInstallation,
         ChangeVersionStanding, vars, ghosts
<1> QED BY <1>1 DEF HistoryWithinHazards

\* What a push leaves in the inbox was there or came with it.
LEMMA ReceivedFrom ==
    ASSUME NEW b, ReceivePushedEvents(b)
    PROVE  inbox' \subseteq inbox \cup b
BY DEF ReceivePushedEvents, StoreEvents, RefuseBrokenChain, cloudDb

LEMMA StepOnlyOriginals == TypeInv /\ OnlyOriginals /\ [Next]_vars => OnlyOriginals'
<1> SUFFICES ASSUME TypeInv, OnlyOriginals, [Next]_vars, ~Happened({"rollback"})' PROVE Originals'
  BY DEF OnlyOriginals
<1>o. Originals
  BY HistoryGrows DEF OnlyOriginals, Happened
<1>a. created \in Nat /\ \A e \in Event : e.seq \in Nat
  BY EventSeq DEF TypeInv, TypeOK
<1>1. CASE AppendOutboxEvent
  <2>1. created' = created + 1
    BY <1>1 DEF AppendOutboxEvent
  <2>2. \A e \in Event : IsOriginal(e) => IsOriginal(e)'
    BY <1>a, <2>1 DEF IsOriginal
  <2> DEFINE new == [seq |-> lastSeq + 1, id |-> created + 1, prev |-> lastId]
  <2>3. rows' = rows \cup {new} /\ new.id = new.seq /\ new.prev = new.seq - 1 /\ new.seq <= created'
    BY <1>1, <1>o, <1>a, <2>1 DEF AppendOutboxEvent, Originals
  <2> HIDE DEF new
  <2>4. PICK e : e = new
    OBVIOUS
  <2>5. rows' = rows \cup {e} /\ IsOriginal(e)'
    BY <2>3, <2>4 DEF IsOriginal
  <2>6. lastSeq' = created' /\ lastId' = created'
    BY <1>1, <1>o DEF AppendOutboxEvent, Originals
  <2>7. \A f \in (rows \cup forgotten \cup inbox \cup cloudBackup.inbox \cup attachments)' : IsOriginal(f)'
    BY <1>1, <1>o, <2>2, <2>5 DEF AppendOutboxEvent, Originals, TypeInv, TypeOK, CloudBackup, cloudDb, copies,
                                  network
  <2>8. \A p \in Pushers : \A f \in batch'[p] : IsOriginal(f)'
    BY <1>1, <1>o, <2>2 DEF AppendOutboxEvent, Originals, TypeInv, TypeOK, pushers
  <2>9. \A events \in delayed' : \A f \in events : IsOriginal(f)'
    BY <1>1, <1>o, <2>2 DEF AppendOutboxEvent, Originals, TypeInv, TypeOK, network
  <2> QED BY <2>6, <2>7, <2>8, <2>9 DEF Originals
<1>2. CASE Prune \/ AttachEvent
  BY <1>2, <1>o DEF Prune, AttachEvent, Originals, IsOriginal, Unacknowledged, pushers, network, cloudDb,
                    copies, registerDb, ghosts
<1>3. ASSUME NEW p \in Pushers, PusherStep(p) \/ Fail(p) PROVE Originals'
  <2>1. /\ UNCHANGED <<rows, lastSeq, lastId, created, forgotten, inbox, cloudBackup, attachments>>
        /\ delayed' \subseteq delayed \cup {batch[p]}
        /\ \A q \in Pushers : batch'[q] \subseteq batch[q] \cup rows
    BY <1>3 DEF PusherStep, ReadAndSend, TakeReceived, TakeReportReceived, TakeGap, HoldsEvent,
                HoldsEventAfter, RecordCompromised, ResendFrom, NextToSend, TakeStaleDevice,
                TakeUpdateRequired, TakeRevoked, Fail, Finish, Again, Unacknowledged, TypeInv, TypeOK,
                registerDb, network, cloudDb, copies, ghosts
  <2> QED BY <2>1, <1>o DEF Originals, IsOriginal
<1>4. ASSUME NEW b, \A e \in b : IsOriginal(e), ReceivePushedEvents(b)
      PROVE  \A e \in inbox' : IsOriginal(e)
  BY <1>4, <1>o, ReceivedFrom DEF Originals
<1>5. ASSUME NEW p \in Pushers, HandlePush(p) PROVE Originals'
  <2>1. \A e \in inbox' : IsOriginal(e)
    BY <1>4, <1>5, <1>o DEF HandlePush, Originals
  <2> QED BY <1>5, <2>1, <1>o DEF HandlePush, Originals, IsOriginal, registerDb, network, copies, ghosts
<1>6. CASE HandleDelayedPush
  <2>1. \A e \in inbox' : IsOriginal(e)
    BY <1>4, <1>6, <1>o DEF HandleDelayedPush, Originals
  <2> QED BY <1>6, <2>1, <1>o DEF HandleDelayedPush, Originals, IsOriginal, registerDb, pushers, copies,
                                  ghosts
<1>7. CASE HandleAttachment
  BY <1>7, <1>o DEF HandleAttachment, Originals, IsOriginal, registerDb, pushers, copies, ghosts
<1>8. CASE Apply \/ RevokeInstallation \/ ChangeVersionStanding
  BY <1>8, <1>o DEF Apply, RevokeInstallation, ChangeVersionStanding, Originals, IsOriginal, registerDb,
                    pushers, network, cloudDb, copies, ghosts
<1>9. CASE Crash \/ CopyRegister \/ LoseRow
  BY <1>9, <1>o DEF Crash, AllPushersStop, CopyRegister, LoseRow, Originals, IsOriginal, registerDb, pushers,
                    network, cloudDb, copies, ghosts
<1>10. CASE BackUpCloud \/ RestoreCloud
  BY <1>10, <1>o DEF BackUpCloud, RestoreCloud, Originals, IsOriginal, registerDb, pushers, network, cloudDb,
                     copies, ghosts
<1>11. CASE RollBackRegister
  BY <1>11 DEF RollBackRegister, Happened
<1>12. CASE UNCHANGED vars
  BY <1>12, <1>o DEF vars, Originals, IsOriginal, registerDb, pushers, network, cloudDb, copies, ghosts
<1> QED BY <1>1, <1>2, <1>3, <1>5, <1>6, <1>7, <1>8, <1>9, <1>10, <1>11, <1>12
        DEF Next, RegisterStep, CloudStep, HazardStep

-----------------------------------------------------------------------------
(* Nobody is condemned without a reason *)

\* Originals never contradict one another.
LEMMA OriginalsAgree ==
    ASSUME TypeOK, NEW b \in SUBSET Event, \A e \in b \cup inbox : IsOriginal(e)
    PROVE  /\ ~IsStale(b) /\ ~IsMisplaced(b)
           /\ ~HasGap(b) => ChainHolds(b)
<1>1. ~IsStale(b) /\ ~IsMisplaced(b)
  BY DEF IsStale, IsMisplaced, IsOriginal
<1>2. ASSUME ~HasGap(b), NEW e \in b \cup Joined(b) PROVE Linked(e, b \cup inbox)
  <2>1. e \in b \cup inbox /\ e.seq \in Nat \ {0} /\ e.id = e.seq /\ e.prev = e.seq - 1
    BY EventSeq DEF Joined, IsOriginal, TypeOK
  <2>2. CASE e.seq = 1
    BY <2>1, <2>2 DEF Linked
  <2>3. CASE e.seq # 1
    <3>1. e.seq - 1 \in Held \cup Seqs(b)
      <4>1. CASE e \in b
        <5>1. Reach(b) \in Nat /\ AckSeq \in Nat /\ 1..AckSeq \subseteq Held
              /\ 1..Reach(b) \subseteq 1..AckSeq \cup Seqs(b)
          BY InboxReach, BatchReach DEF TypeOK
        <5>2. e.seq <= Reach(b)
          BY <1>2, <2>1, <4>1, <5>1 DEF HasGap
        <5>3. e.seq - 1 \in 1..Reach(b)
          BY <2>1, <2>3, <5>1, <5>2
        <5> QED BY <5>1, <5>3
      <4>2. CASE e \in Joined(b)
        <5>1. e.seq <= Contiguous(Held \cup Seqs(b))
          BY <4>2 DEF Joined
        <5>2. Contiguous(Held \cup Seqs(b)) \in Nat /\ 1..Contiguous(Held \cup Seqs(b)) \subseteq Held \cup Seqs(b)
          BY BatchReach DEF TypeOK
        <5>3. e.seq - 1 \in 1..Contiguous(Held \cup Seqs(b))
          BY <2>1, <2>3, <5>1, <5>2
        <5> QED BY <5>2, <5>3
      <4> QED BY <1>2, <4>1, <4>2
    <3>2. PICK f \in b \cup inbox : f.seq = e.seq - 1
      BY <3>1 DEF Held, Seqs
    <3>3. f.id = e.prev
      BY <2>1, <3>2 DEF IsOriginal
    <3> QED BY <2>3, <3>2, <3>3 DEF Linked
  <2> QED BY <2>2, <2>3
<1> QED BY <1>1, <1>2 DEF ChainHolds

LEMMA OriginalsAreNotRefused ==
    ASSUME TypeOK, NEW b \in SUBSET Event, \A e \in b \cup inbox : IsOriginal(e), ReceivePushedEvents(b)
    PROVE  /\ PushOutcome(b).kind \notin {"stale_device", "chain_broken"}
           /\ inbox \subseteq inbox' /\ revoked' = revoked
<1>1. PushOutcome(b).kind \notin {"stale_device", "chain_broken"}
  BY OriginalsAgree DEF PushOutcome, AnswerOf
<1> QED BY <1>1 DEF ReceivePushedEvents, StoreEvents, cloudDb

LEMMA StepNeverCondemned == TypeInv /\ OnlyOriginals /\ NeverCondemned /\ [Next]_vars => NeverCondemned'
<1> SUFFICES ASSUME TypeInv, OnlyOriginals, NeverCondemned, [Next]_vars, ~Happened({"rollback"})'
             PROVE  NothingCondemned'
  BY DEF NeverCondemned
<1>o. Originals /\ NothingCondemned
  BY HistoryGrows DEF OnlyOriginals, NeverCondemned, Happened
<1>b. \A p \in Pushers : batch[p] \in SUBSET Event /\ answer[p] \in Answer
  BY DEF TypeInv, TypeOK
<1>1. CASE RegisterStep
  BY <1>1, <1>o DEF RegisterStep, AppendOutboxEvent, Prune, AttachEvent, NothingCondemned, registerDb, pushers,
                    cloudDb, copies, ghosts
<1>2. ASSUME NEW p \in Pushers, PusherStep(p) PROVE NothingCondemned'
  <2>6. /\ answer[p].kind \notin {"stale_device", "chain_broken"}
        /\ answer[p].kind = "revoked" => "revocation" \in history
    BY <1>2, <1>o DEF NothingCondemned
  <2>1. ~TakeStaleDevice(p)
    BY <2>6 DEF TakeStaleDevice, Answered
  <2>2. stale' = stale \/ TakeStaleDevice(p)
    BY <1>2 DEF PusherStep, ReadAndSend, TakeReceived, TakeReportReceived, TakeGap, HoldsEvent,
                HoldsEventAfter, RecordCompromised, ResendFrom, NextToSend, TakeUpdateRequired,
                TakeRevoked, registerDb
  <2>3. /\ UNCHANGED <<revoked, cloudBackup, history>>
        /\ \/ answer' = answer
           \/ answer' = [answer EXCEPT ![p] = NoAnswer]
    BY <1>2 DEF PusherStep, ReadAndSend, TakeReceived, TakeReportReceived, TakeGap, HoldsEvent,
                HoldsEventAfter, RecordCompromised, ResendFrom, NextToSend, TakeStaleDevice,
                TakeUpdateRequired, TakeRevoked, Finish, Again, cloudDb, copies, ghosts
  <2>4. \A q \in Pushers : answer'[q].kind = answer[q].kind \/ answer'[q].kind = "none"
    BY <2>3 DEF NoAnswer, TypeInv, TypeOK
  <2>5. stopped' = "installation_revoked" => stopped = "installation_revoked" \/ "revocation" \in history
    <3>1. TakeRevoked(p) => "revocation" \in history
      BY <2>6 DEF TakeRevoked, Answered
    <3> QED BY <1>2, <3>1 DEF PusherStep, ReadAndSend, TakeReceived, TakeReportReceived, TakeGap, HoldsEvent,
                HoldsEventAfter, RecordCompromised, ResendFrom, NextToSend, TakeStaleDevice,
                TakeUpdateRequired, Stop, registerDb
  <2> QED BY <1>o, <2>1, <2>2, <2>3, <2>4, <2>5 DEF NothingCondemned
<1>3. ASSUME NEW p \in Pushers, Fail(p) PROVE NothingCondemned'
  <2>1. \A q \in Pushers : answer'[q].kind = answer[q].kind \/ answer'[q].kind = "none"
    BY <1>3 DEF Fail, Finish, Again, NoAnswer, TypeInv, TypeOK
  <2> QED BY <1>3, <1>o, <2>1 DEF Fail, NothingCondemned, registerDb, cloudDb, copies, ghosts
<1>4. ASSUME NEW p \in Pushers, HandlePush(p) PROVE NothingCondemned'
  <2>1. PushOutcome(batch[p]).kind \notin {"stale_device", "chain_broken"} /\ revoked' = revoked
    BY <1>4, <1>o, <1>b, OriginalsAreNotRefused DEF HandlePush, Originals, TypeInv
  <2>3. PushOutcome(batch[p]).kind = "revoked" => "revocation" \in history
    BY <1>o DEF PushOutcome, AnswerOf, NothingCondemned
  <2>2. \A q \in Pushers : answer'[q] = answer[q] \/ answer'[q] = PushOutcome(batch[p])
    BY <1>4 DEF HandlePush, TypeInv, TypeOK
  <2> QED BY <1>4, <1>o, <2>1, <2>2, <2>3 DEF HandlePush, NothingCondemned, registerDb, copies, ghosts
<1>5. CASE HandleDelayedPush
  <2>1. PICK b \in delayed : ReceivePushedEvents(b)
    BY <1>5 DEF HandleDelayedPush
  <2>2. revoked' = revoked
    BY <1>o, <2>1, OriginalsAreNotRefused DEF Originals, TypeInv, TypeOK
  <2> QED BY <1>5, <1>o, <2>2 DEF HandleDelayedPush, NothingCondemned, registerDb, pushers, copies, ghosts
<1>6. CASE HandleAttachment \/ Apply
  BY <1>6, <1>o DEF HandleAttachment, Apply, NothingCondemned, registerDb, pushers, copies, ghosts
<1>7. CASE Crash
  BY <1>7, <1>o DEF Crash, AllPushersStop, NoAnswer, NothingCondemned, registerDb, cloudDb, copies, ghosts
<1>8. CASE CopyRegister \/ LoseRow \/ ChangeVersionStanding
  BY <1>8, <1>o DEF CopyRegister, LoseRow, ChangeVersionStanding, NothingCondemned, registerDb, pushers,
                    cloudDb, copies, ghosts
<1>9. CASE BackUpCloud \/ RestoreCloud \/ RevokeInstallation
  BY <1>9, <1>o DEF BackUpCloud, RestoreCloud, RevokeInstallation, NothingCondemned, registerDb, pushers,
                    cloudDb, copies, ghosts
<1>10. CASE RollBackRegister
  BY <1>10 DEF RollBackRegister, Happened
<1>11. CASE UNCHANGED vars
  BY <1>11, <1>o DEF vars, NothingCondemned, registerDb, pushers, cloudDb, copies, ghosts
<1> QED BY <1>1, <1>2, <1>3, <1>4, <1>5, <1>6, <1>7, <1>8, <1>9, <1>10, <1>11 DEF Next, CloudStep, HazardStep

-----------------------------------------------------------------------------
(* What is acknowledged is held *)

\* Until a database goes back in time the inbox only grows.
LEMMA InboxGrows ==
    ASSUME TypeInv, OnlyOriginals, [Next]_vars, ~Happened({"rollback", "cloud_restore"})'
    PROVE  inbox \subseteq inbox' /\ Held \subseteq Held'
<1>o. Originals
  BY HistoryGrows DEF OnlyOriginals, Happened
<1>1. ASSUME NEW p \in Pushers, HandlePush(p) PROVE inbox \subseteq inbox'
  BY <1>1, <1>o, OriginalsAreNotRefused DEF HandlePush, Originals, TypeInv, TypeOK
<1>2. ASSUME HandleDelayedPush PROVE inbox \subseteq inbox'
  <2>1. PICK b \in delayed : ReceivePushedEvents(b)
    BY <1>2 DEF HandleDelayedPush
  <2>2. b \in SUBSET Event /\ \A e \in b \cup inbox : IsOriginal(e)
    BY <1>o DEF Originals, TypeInv, TypeOK
  <2> QED BY <2>1, <2>2, OriginalsAreNotRefused DEF TypeInv
<1>3. ~RestoreCloud
  BY DEF RestoreCloud, Happened
<1>4. inbox \subseteq inbox'
  BY <1>1, <1>2, <1>3, CloudChanges DEF cloudDb, HandleAttachment, Apply, BackUpCloud, RevokeInstallation
<1> QED BY <1>4 DEF Held, Seqs

\* An answer promises no more than the inbox holds when it is given.
LEMMA AnswerHeld ==
    ASSUME TypeOK, NEW b \in SUBSET Event, \A e \in b \cup inbox : IsOriginal(e), ReceivePushedEvents(b)
    PROVE  1..PushOutcome(b).ack \subseteq Held'
<1>1. CASE PushOutcome(b).kind = "received"
  <2>1. PushOutcome(b).ack = Contiguous(Held \cup Seqs(b)) /\ StoreEvents(b)
    BY <1>1 DEF PushOutcome, AnswerOf, ReceivePushedEvents
  <2>2. Held \cup Seqs(b) \subseteq Held'
    BY <2>1 DEF StoreEvents, Held, Seqs
  <2> QED BY <2>1, <2>2, BatchReach DEF TypeOK
<1>2. CASE PushOutcome(b).kind # "received"
  <2>1. inbox' = inbox
    BY <1>2, OriginalsAreNotRefused DEF ReceivePushedEvents, cloudDb
  <2>2. PushOutcome(b).ack \in {0, AckSeq}
    BY <1>2 DEF PushOutcome, AnswerOf
  <2>3. 1..AckSeq \subseteq Held /\ 1..0 = {}
    BY InboxReach DEF TypeOK
  <2> QED BY <2>1, <2>2, <2>3 DEF Held
<1> QED BY <1>1, <1>2

LEMMA StepAcknowledgedReach ==
    TypeInv /\ OnlyOriginals /\ AcknowledgedReach /\ [Next]_vars => AcknowledgedReach'
<1> SUFFICES ASSUME TypeInv, OnlyOriginals, AcknowledgedReach, [Next]_vars,
                    ~Happened({"rollback", "cloud_restore"})'
             PROVE  AcknowledgedReached'
  BY DEF AcknowledgedReach
<1>o. Originals /\ AcknowledgedReached /\ Held \subseteq Held'
  BY HistoryGrows, InboxGrows DEF OnlyOriginals, AcknowledgedReach, Happened
<1>a. /\ \A n \in acked \cup Seqs(forgotten) : 1..n \subseteq Held'
      /\ \A p \in Pushers : 1..answer[p].ack \subseteq Held'
  BY <1>o DEF AcknowledgedReached
<1> HIDE DEF Held
<1>1. CASE AppendOutboxEvent \/ AttachEvent \/ CopyRegister \/ ChangeVersionStanding
  BY <1>1, <1>a DEF AppendOutboxEvent, AttachEvent, CopyRegister, ChangeVersionStanding, AcknowledgedReached,
                    registerDb, pushers, cloudDb, ghosts, Seqs
<1>2. CASE Prune
  <2>1. acked' \cup Seqs(forgotten') \subseteq acked \cup Seqs(forgotten) /\ answer' = answer
    BY <1>2 DEF Prune, Unacknowledged, Seqs, pushers
  <2> QED BY <2>1, <1>a DEF AcknowledgedReached, Seqs
<1>3. ASSUME NEW p \in Pushers, PusherStep(p) \/ Fail(p) PROVE AcknowledgedReached'
  <2>1. /\ forgotten' = forgotten
        /\ acked' \subseteq acked \/ acked' = AckedThrough(answer[p].ack)
        /\ answer' = answer \/ answer' = [answer EXCEPT ![p] = NoAnswer]
    BY <1>3 DEF PusherStep, ReadAndSend, TakeReceived, TakeReportReceived, TakeGap, HoldsEvent,
                HoldsEventAfter, RecordCompromised, ResendFrom, NextToSend, TakeStaleDevice,
                TakeUpdateRequired, TakeRevoked, Fail, Finish, Again, registerDb, ghosts
  <2>2. \A n \in AckedThrough(answer[p].ack) : n \in acked \/ 1..n \subseteq 1..answer[p].ack
    <3>1. answer[p].ack \in Nat /\ \A n \in Seqs(rows) : n \in Nat
      BY SeqsType DEF TypeInv, TypeOK, Answer
    <3> QED BY <3>1 DEF AckedThrough
  <2>3. \A n \in acked' : 1..n \subseteq Held'
    BY <1>a, <2>1, <2>2
  <2>4. \A q \in Pushers : answer'[q] = answer[q] \/ answer'[q].ack = 0
    BY <2>1 DEF NoAnswer, TypeInv, TypeOK
  <2>5. \A q \in Pushers : 1..answer'[q].ack \subseteq Held'
    BY <1>a, <2>4
  <2>6. \A n \in Seqs(forgotten') : 1..n \subseteq Held'
    BY <1>a, <2>1
  <2> QED BY <2>3, <2>5, <2>6 DEF AcknowledgedReached, Seqs
<1>4. ASSUME NEW p \in Pushers, HandlePush(p) PROVE AcknowledgedReached'
  <2>1. 1..PushOutcome(batch[p]).ack \subseteq Held'
    BY <1>4, <1>o, AnswerHeld DEF HandlePush, Originals, TypeInv, TypeOK
  <2>2. \A q \in Pushers : answer'[q] = answer[q] \/ answer'[q] = PushOutcome(batch[p])
    BY <1>4 DEF HandlePush, TypeInv, TypeOK
  <2>3. acked' = acked /\ forgotten' = forgotten
    BY <1>4 DEF HandlePush, registerDb, ghosts
  <2> QED BY <1>a, <2>1, <2>2, <2>3 DEF AcknowledgedReached, Seqs
<1>5. CASE CloudStep \/ BackUpCloud \/ RevokeInstallation
  <2>1. acked' = acked /\ forgotten' = forgotten /\ answer' = answer
    BY <1>5 DEF CloudStep, HandleDelayedPush, HandleAttachment, Apply, BackUpCloud, RevokeInstallation,
                registerDb, pushers, ghosts
  <2> QED BY <1>a, <2>1 DEF AcknowledgedReached, Seqs
<1>6. CASE Crash
  <2>1. acked' = acked /\ forgotten' = forgotten /\ \A p \in Pushers : answer'[p].ack = 0
    BY <1>6 DEF Crash, AllPushersStop, NoAnswer, registerDb, ghosts
  <2> QED BY <1>a, <2>1 DEF AcknowledgedReached, Seqs
<1>7. CASE LoseRow
  <2>1. acked' \subseteq acked /\ forgotten' = forgotten /\ answer' = answer
    BY <1>7 DEF LoseRow, pushers
  <2> QED BY <1>a, <2>1 DEF AcknowledgedReached, Seqs
<1>8. CASE RollBackRegister \/ RestoreCloud
  BY <1>8 DEF RollBackRegister, RestoreCloud, Happened
<1>9. CASE UNCHANGED vars
  BY <1>9, <1>a DEF vars, registerDb, pushers, ghosts, AcknowledgedReached, Seqs
<1> QED BY <1>1, <1>2, <1>3, <1>4, <1>5, <1>6, <1>7, <1>8, <1>9 DEF Next, RegisterStep, HazardStep

-----------------------------------------------------------------------------
(* A push leaves no gap unless events were lost *)

LEMMA ContinuesMeansNoGap ==
    ASSUME TypeOK, NEW b \in SUBSET Event, Continues(b)
    PROVE  ~HasGap(b)
<1> SUFFICES ASSUME NEW e \in b, e.seq > Reach(b) PROVE FALSE
  BY DEF HasGap
<1> DEFINE n == Reach(b) + 1
<1>1. /\ AckSeq \in Nat /\ Reach(b) \in Nat /\ n \notin 1..AckSeq \cup Seqs(b)
      /\ Held \in SUBSET (1..MaxEvents) /\ e.seq \in Nat
  BY InboxReach, BatchReach, EventSeq DEF TypeOK
<1>2. e.seq \in Seqs(b)
  BY DEF Seqs
<1>3. n \in 1..(e.seq - 1)
  BY <1>1, <1>2
<1>4. 1..n \subseteq Held
  BY <1>1, <1>3 DEF Continues
<1>5. n <= AckSeq
  BY <1>1, <1>4, ContiguousLongest DEF AckSeq
<1> QED BY <1>1, <1>5

LEMMA NewBatchContinues ==
    ASSUME TypeInv, Originals, AcknowledgedReached, 1..created \subseteq Seqs(rows) \cup Seqs(forgotten),
           NEW b \in SUBSET Unacknowledged, IsBatch(b)
    PROVE  Continues(b)
<1> SUFFICES ASSUME NEW e \in b, NEW n \in 1..(e.seq - 1), ~(1..n \subseteq Held) PROVE n \in Seqs(b)
  BY DEF Continues
<1>1. e \in rows /\ e.seq \in Nat /\ e.seq <= created /\ created \in Nat
  BY EventSeq DEF Unacknowledged, Originals, IsOriginal, TypeInv, TypeOK
<1>2. n \notin acked \cup Seqs(forgotten)
  BY DEF AcknowledgedReached
<1>3. n \in Seqs(rows)
  BY <1>1, <1>2
<1>4. PICK f \in rows : f.seq = n
  BY <1>3 DEF Seqs
<1>5. f \in Unacknowledged /\ f.seq < e.seq
  BY <1>1, <1>2, <1>4 DEF Unacknowledged
<1> QED BY <1>4, <1>5 DEF IsBatch, Seqs

LEMMA StepNeverGap ==
    TypeInv /\ OnlyOriginals /\ AcknowledgedReach /\ NeverGap /\ [Next]_vars => NeverGap'
<1> SUFFICES ASSUME TypeInv, OnlyOriginals, AcknowledgedReach, NeverGap, [Next]_vars,
                    ~Happened({"rollback", "cloud_restore", "outbox_loss"})'
             PROVE  NoGap'
  BY DEF NeverGap
<1>o. Originals /\ AcknowledgedReached /\ NoGap
  BY HistoryGrows DEF OnlyOriginals, AcknowledgedReach, NeverGap, Happened
<1>g. Held \subseteq Held'
  BY InboxGrows DEF Happened
<1>c. \A b : Continues(b) => Continues(b)'
  BY <1>g DEF Continues, Seqs
<1>t. \A p \in Pushers : batch[p] \in SUBSET Event /\ answer[p] \in Answer
  BY DEF TypeInv, TypeOK
<1> HIDE DEF Held
<1>1. CASE AppendOutboxEvent
  <2>1. created' \in Nat /\ created \in Nat /\ created' = created + 1
    BY <1>1 DEF AppendOutboxEvent, TypeInv, TypeOK
  <2> DEFINE new == [seq |-> lastSeq + 1, id |-> created + 1, prev |-> lastId]
  <2>2. new.seq = created' /\ rows' = rows \cup {new} /\ forgotten' = forgotten
    BY <1>1, <1>o, <2>1 DEF AppendOutboxEvent, Originals
  <2> HIDE DEF new
  <2>3. created' \in Seqs(rows') /\ Seqs(rows) \subseteq Seqs(rows') /\ forgotten' = forgotten
    BY <2>2 DEF Seqs
  <2>4. 1..created' \subseteq Seqs(rows') \cup Seqs(forgotten')
    BY <1>o, <2>1, <2>3 DEF NoGap
  <2> QED BY <1>1, <1>o, <1>c, <2>4 DEF AppendOutboxEvent, NoGap, pushers, network, Seqs
<1>2. CASE Prune
  <2>1. Seqs(rows) \cup Seqs(forgotten) \subseteq Seqs(rows') \cup Seqs(forgotten') /\ created' = created
    BY <1>2 DEF Prune, Seqs
  <2> QED BY <1>2, <1>o, <1>c, <2>1 DEF Prune, NoGap, pushers, network, Seqs
<1>3. ASSUME NEW p \in Pushers, PusherStep(p) \/ Fail(p) PROVE NoGap'
  <2>1. /\ ~TakeGap(p) /\ ~HoldsEvent(p) /\ ~HoldsEventAfter(p) /\ ~RecordCompromised(p) /\ ~ResendFrom(p)
        /\ ~NextToSend(p)
    BY <1>o DEF NoGap, TakeGap, HoldsEvent, HoldsEventAfter, RecordCompromised, ResendFrom, NextToSend,
                Answered, At
  <2>2. UNCHANGED <<rows, created, forgotten>>
    BY <1>3 DEF PusherStep, ReadAndSend, TakeReceived, TakeReportReceived, TakeGap, HoldsEvent,
                HoldsEventAfter, RecordCompromised, ResendFrom, NextToSend, TakeStaleDevice,
                TakeUpdateRequired, TakeRevoked, Fail, registerDb, ghosts
  <2>3. stopped' # "event_history_broken"
    BY <1>3, <1>o, <2>1 DEF NoGap, PusherStep, ReadAndSend, TakeReceived, TakeReportReceived,
                TakeStaleDevice, TakeUpdateRequired, TakeRevoked, Stop, Fail, registerDb
  <2>4. \A q \in Pushers : pc'[q] = pc[q] \/ pc'[q] \in {"read", "waiting"}
    BY <1>3, <2>1 DEF PusherStep, ReadAndSend, TakeReceived, TakeReportReceived, TakeStaleDevice,
                TakeUpdateRequired, TakeRevoked, Fail, Finish, Again, Goto, TypeInv, TypeOK
  <2>5. \A q \in Pushers : answer'[q] = answer[q] \/ answer'[q].kind = "none"
    BY <1>3, <2>1 DEF PusherStep, ReadAndSend, TakeReceived, TakeReportReceived, TakeStaleDevice,
                TakeUpdateRequired, TakeRevoked, Fail, Finish, Again, NoAnswer, TypeInv, TypeOK
  <2>6. \A q \in Pushers : \/ batch'[q] \in {batch[q], {}}
                           \/ batch'[q] \in SUBSET Unacknowledged /\ IsBatch(batch'[q])
    BY <1>3, <2>1 DEF PusherStep, ReadAndSend, TakeReceived, TakeReportReceived, TakeStaleDevice,
                TakeUpdateRequired, TakeRevoked, Fail, Finish, Again, TypeInv, TypeOK
  <2>7. \A q \in Pushers : Continues(batch'[q])
    <3>1. Continues({})
      BY DEF Continues
    <3>2. 1..created \subseteq Seqs(rows) \cup Seqs(forgotten) /\ \A q \in Pushers : Continues(batch[q])
      BY <1>o DEF NoGap
    <3> QED BY <1>o, <2>6, <3>1, <3>2, NewBatchContinues
  <2>8. delayed' \subseteq delayed \cup {batch[p]}
    BY <1>3 DEF PusherStep, ReadAndSend, TakeReceived, TakeReportReceived, TakeGap, HoldsEvent,
                HoldsEventAfter, RecordCompromised, ResendFrom, NextToSend, TakeStaleDevice,
                TakeUpdateRequired, TakeRevoked, Fail, network
  <2>9. (1..created \subseteq Seqs(rows) \cup Seqs(forgotten))'
    BY <1>o, <2>2 DEF NoGap, Seqs
  <2>10. \A events \in delayed' : Continues(events)'
    BY <1>o, <1>c, <2>8 DEF NoGap
  <2>11. \A q \in Pushers : answer'[q].kind # "gap" /\ pc'[q] \in {"read", "waiting", "answered"}
    BY <1>o, <2>4, <2>5 DEF NoGap
  <2>12. \A q \in Pushers : \A b : b = batch'[q] => Continues(b)'
    BY <1>c, <2>7
  <2> QED BY <2>3, <2>9, <2>10, <2>11, <2>12 DEF NoGap, Continues
<1>4. ASSUME NEW p \in Pushers, HandlePush(p) PROVE NoGap'
  <2>1. PushOutcome(batch[p]).kind # "gap"
    BY <1>o, <1>t, ContinuesMeansNoGap DEF NoGap, PushOutcome, AnswerOf, TypeInv
  <2>2. \A q \in Pushers : answer'[q] = answer[q] \/ answer'[q] = PushOutcome(batch[p])
    BY <1>4 DEF HandlePush, TypeInv, TypeOK
  <2>3. \A q \in Pushers : pc'[q] = pc[q] \/ pc'[q] = "answered"
    BY <1>4 DEF HandlePush, Goto, TypeInv, TypeOK
  <2> QED BY <1>4, <1>o, <1>c, <2>1, <2>2, <2>3 DEF HandlePush, NoGap, registerDb, network, ghosts, Seqs
<1>5. CASE CloudStep
  <2>1. UNCHANGED <<rows, stopped, pushers, ghosts>> /\ delayed' \subseteq delayed
    BY <1>5 DEF CloudStep, HandleDelayedPush, HandleAttachment, Apply, registerDb, network
  <2> QED BY <2>1, <1>o, <1>c DEF NoGap, pushers, ghosts, Seqs
<1>6. CASE AttachEvent \/ CopyRegister \/ ChangeVersionStanding \/ BackUpCloud \/ RevokeInstallation
  <2>1. UNCHANGED <<rows, stopped, pushers, created, forgotten, delayed>>
    BY <1>6 DEF AttachEvent, CopyRegister, ChangeVersionStanding, BackUpCloud, RevokeInstallation, registerDb,
                network, ghosts
  <2> QED BY <2>1, <1>o, <1>c DEF NoGap, pushers, Seqs
<1>7. CASE Crash
  <2>1. /\ UNCHANGED <<rows, stopped, created, forgotten, delayed>>
        /\ \A q \in Pushers : pc'[q] = "read" /\ batch'[q] = {} /\ answer'[q].kind = "none"
    BY <1>7 DEF Crash, AllPushersStop, NoAnswer, registerDb, network, ghosts
  <2> QED BY <2>1, <1>o, <1>c DEF NoGap, Continues, Seqs
<1>8. CASE RollBackRegister \/ RestoreCloud \/ LoseRow
  BY <1>8 DEF RollBackRegister, RestoreCloud, LoseRow, Happened
<1>9. CASE UNCHANGED vars
  BY <1>9, <1>o, <1>c DEF vars, registerDb, pushers, network, ghosts, NoGap, Seqs
<1> QED BY <1>1, <1>2, <1>3, <1>4, <1>5, <1>6, <1>7, <1>8, <1>9 DEF Next, RegisterStep, HazardStep

-----------------------------------------------------------------------------
(* Acknowledged rows come first *)

LEMMA AppendingKeepsOrder ==
    ASSUME NEW R \in SUBSET Event, NEW A \in SUBSET (1..MaxEvents), NEW l \in Nat,
           NEW e \in Event, e.seq = l + 1, InOrder(R, A, l)
    PROVE  InOrder(R \cup {e}, A, l + 1)
<1> USE EventSeq DEF InOrder
<1>1. \A f \in R \cup {e} : f.seq <= l + 1
  OBVIOUS
<1>2. \A n \in A : n <= l + 1 /\ n < l + 1
  OBVIOUS
<1>3. \A f, g \in R \cup {e} : f.seq = g.seq => f = g
  OBVIOUS
<1>4. \A f \in R \cup {e} : f.seq \notin A => \A n \in A : n < f.seq
  BY <1>2
<1> QED BY <1>1, <1>2, <1>3, <1>4

\* Rows leave the outbox with what is known of them.
LEMMA RemovingKeepsOrder ==
    ASSUME NEW R \in SUBSET Event, NEW A \in SUBSET (1..MaxEvents), NEW l \in Nat,
           NEW old \in SUBSET R, InOrder(R, A, l)
    PROVE  InOrder(R \ old, A \ Seqs(old), l)
<1>1. \A e \in R \ old : e.seq \notin Seqs(old)
  BY DEF InOrder, Seqs
<1> QED BY <1>1 DEF InOrder

LEMMA AcknowledgingKeepsOrder ==
    ASSUME NEW R \in SUBSET Event, NEW A \in SUBSET (1..MaxEvents), NEW l \in Nat,
           NEW k \in Nat, InOrder(R, A, l)
    PROVE  InOrder(R, A \cup {n \in Seqs(R) : n <= k}, l)
<1> DEFINE B == A \cup {n \in Seqs(R) : n <= k}
<1>1. \A e \in R : e.seq \in Seqs(R) /\ e.seq \in Nat
  BY EventSeq DEF Seqs
<1>2. \A n \in B : n \in Nat /\ n <= l
  BY <1>1, SeqsType DEF InOrder, Seqs
<1>3. \A e \in R : e.seq \notin B => \A n \in B : n < e.seq
  BY <1>1, <1>2 DEF InOrder
<1> QED BY <1>2, <1>3 DEF InOrder

LEMMA ResendingKeepsOrder ==
    ASSUME NEW R \in SUBSET Event, NEW A \in SUBSET (1..MaxEvents), NEW l \in Nat,
           NEW k \in Int, InOrder(R, A, l)
    PROVE  InOrder(R, {n \in A : n < k}, l)
<1>1. \A e \in R : e.seq \in Nat
  BY EventSeq
<1>2. ASSUME NEW e \in R, NEW n \in A, n < k, e.seq \notin {m \in A : m < k} PROVE n < e.seq
  BY <1>1, <1>2 DEF InOrder
<1> QED BY <1>2 DEF InOrder

LEMMA StepEveryOutboxInOrder == TypeInv /\ EveryOutboxInOrder /\ [Next]_vars => EveryOutboxInOrder'
<1> SUFFICES ASSUME TypeInv, EveryOutboxInOrder, [Next]_vars PROVE EveryOutboxInOrder'
  OBVIOUS
<1> DEFINE Copied == InOrder(registerCopy.rows, registerCopy.acked, registerCopy.lastSeq)
<1>t. /\ rows \in SUBSET Event /\ acked \in SUBSET (1..MaxEvents) /\ lastSeq \in Nat
      /\ InOrder(rows, acked, lastSeq) /\ Copied
  BY DEF TypeInv, TypeOK, EveryOutboxInOrder
<1>c. registerCopy' = registerCopy => Copied'
  BY <1>t DEF InOrder
<1>f. UNCHANGED <<rows, acked, lastSeq>> => InOrder(rows', acked', lastSeq')
  BY <1>t
<1>1. CASE AppendOutboxEvent
  <2>1. PICK e \in Event : e.seq = lastSeq + 1 /\ rows' = rows \cup {e}
    <3>1. [seq |-> lastSeq + 1, id |-> created + 1, prev |-> lastId] \in Event
      BY <1>1 DEF AppendOutboxEvent, TypeInv, TypeOK, PositionsBelowCreated, Event
    <3> QED BY <1>1, <3>1 DEF AppendOutboxEvent
  <2>2. acked' = acked /\ lastSeq' = lastSeq + 1 /\ registerCopy' = registerCopy
    BY <1>1 DEF AppendOutboxEvent, copies
  <2>3. InOrder(rows', acked', lastSeq')
    BY <1>t, <2>1, <2>2, AppendingKeepsOrder
  <2> QED BY <1>c, <2>2, <2>3 DEF EveryOutboxInOrder
<1>2. CASE Prune
  <2>1. PICK old \in SUBSET rows : rows' = rows \ old /\ acked' = acked \ Seqs(old)
    BY <1>2 DEF Prune
  <2>2. lastSeq' = lastSeq /\ registerCopy' = registerCopy
    BY <1>2 DEF Prune, copies
  <2>3. InOrder(rows', acked', lastSeq')
    BY <1>t, <2>1, <2>2, RemovingKeepsOrder
  <2> QED BY <1>c, <2>2, <2>3 DEF EveryOutboxInOrder
<1>3. ASSUME NEW p \in Pushers, PusherStep(p) \/ Fail(p) PROVE EveryOutboxInOrder'
  <2>1. UNCHANGED <<rows, lastSeq, registerCopy>>
    BY <1>3 DEF PusherStep, ReadAndSend, TakeReceived, TakeReportReceived, TakeGap, HoldsEvent,
                HoldsEventAfter, RecordCompromised, ResendFrom, NextToSend, TakeStaleDevice,
                TakeUpdateRequired, TakeRevoked, Fail, registerDb, copies
  <2>2. \/ acked' = acked
        \/ acked' = acked \cup {n \in Seqs(rows) : n <= answer[p].ack}
        \/ acked' = {n \in acked : n < answer[p].expected}
    BY <1>3 DEF PusherStep, ReadAndSend, TakeReceived, TakeReportReceived, TakeGap, HoldsEvent,
                HoldsEventAfter, RecordCompromised, ResendFrom, NextToSend, TakeStaleDevice,
                TakeUpdateRequired, TakeRevoked, Fail, AckedThrough, registerDb
  <2>3. answer[p].ack \in Nat /\ answer[p].expected \in Int
    BY DEF TypeInv, TypeOK, Answer
  <2>4. InOrder(rows', acked', lastSeq')
    BY <1>t, <2>1, <2>2, <2>3, AcknowledgingKeepsOrder, ResendingKeepsOrder
  <2> QED BY <1>c, <2>1, <2>4 DEF EveryOutboxInOrder
<1>4. CASE CopyRegister
  <2>1. /\ registerCopy'.rows = rows /\ registerCopy'.acked = acked /\ registerCopy'.lastSeq = lastSeq
        /\ UNCHANGED <<rows, acked, lastSeq>>
    BY <1>4 DEF CopyRegister, registerDb
  <2> QED BY <1>t, <2>1 DEF EveryOutboxInOrder
<1>5. CASE RollBackRegister
  <2>1. /\ rows' = registerCopy.rows /\ acked' = registerCopy.acked /\ lastSeq' = registerCopy.lastSeq
        /\ registerCopy' = registerCopy
    BY <1>5 DEF RollBackRegister, copies
  <2> QED BY <1>t, <2>1 DEF EveryOutboxInOrder
<1>6. CASE LoseRow
  <2>1. PICK e \in rows : rows' = rows \ {e} /\ acked' = acked \ {e.seq}
    BY <1>6 DEF LoseRow
  <2>2. lastSeq' = lastSeq /\ registerCopy' = registerCopy /\ Seqs({e}) = {e.seq}
    BY <1>6 DEF LoseRow, copies, Seqs
  <2>3. InOrder(rows', acked', lastSeq')
    BY <1>t, <2>1, <2>2, RemovingKeepsOrder
  <2> QED BY <1>c, <2>2, <2>3 DEF EveryOutboxInOrder
<1>7. UNCHANGED <<rows, acked, lastSeq, registerCopy>> => EveryOutboxInOrder'
  BY <1>c, <1>f DEF EveryOutboxInOrder
<1>8. ASSUME NEW p \in Pushers, HandlePush(p) PROVE UNCHANGED <<rows, acked, lastSeq, registerCopy>>
  BY <1>8 DEF HandlePush, registerDb, copies
<1>9. CASE AttachEvent \/ CloudStep
  BY <1>7, <1>9 DEF AttachEvent, CloudStep, HandleDelayedPush, HandleAttachment, Apply, registerDb, copies
<1>10. CASE Crash \/ BackUpCloud \/ RestoreCloud \/ RevokeInstallation \/ ChangeVersionStanding
  BY <1>7, <1>10 DEF Crash, BackUpCloud, RestoreCloud, RevokeInstallation, ChangeVersionStanding, registerDb,
                     copies
<1>11. CASE UNCHANGED vars
  BY <1>7, <1>11 DEF vars, registerDb, copies
<1> QED BY <1>1, <1>2, <1>3, <1>4, <1>5, <1>6, <1>7, <1>8, <1>9, <1>10, <1>11 DEF Next, RegisterStep, HazardStep

-----------------------------------------------------------------------------
(* The inductive invariant, and what it implies *)

THEOREM Inductive == Spec => []IInv
<1>1. Init => OnlyOriginals /\ NeverCondemned /\ AcknowledgedReach /\ NeverGap
  <2> SUFFICES ASSUME Init PROVE Originals /\ NothingCondemned /\ AcknowledgedReached /\ NoGap
    BY DEF OnlyOriginals, NeverCondemned, AcknowledgedReach, NeverGap
  <2> USE DEF Init, Seqs
  <2>1. Originals /\ NothingCondemned
    BY DEF Originals, NothingCondemned, NoAnswer
  <2>2. AcknowledgedReached /\ NoGap
    BY DEF AcknowledgedReached, NoGap, NoAnswer, Continues
  <2> QED BY <2>1, <2>2
<1>2. Init => HistoryWithinHazards /\ EveryOutboxInOrder
  BY DEF Init, HistoryWithinHazards, EveryOutboxInOrder, InOrder
<1> DEFINE Rest == /\ HistoryWithinHazards /\ EveryOutboxInOrder
                   /\ OnlyOriginals /\ NeverCondemned /\ AcknowledgedReach /\ NeverGap
<1>3. TypeInv /\ Rest /\ [Next]_vars => Rest'
  BY StepHistoryWithinHazards, StepEveryOutboxInOrder, StepOnlyOriginals, StepNeverCondemned,
     StepAcknowledgedReach, StepNeverGap
<1>4. TypeInv /\ ChainInv /\ Rest => IInv
  BY DEF TypeInv, ChainInv, IInv
<1>5. Init => Rest
  BY <1>1, <1>2
<1> HIDE DEF Rest
<1> QED BY <1>3, <1>4, <1>5, ChainInvariant, PTL DEF Spec

\* Whatever acknowledgements, resends, prunings and rollbacks interleave, no batch ever skips an event
\* that was not acknowledged, in any combination of hazards.
THEOREM AcknowledgedFirst == Spec => []AcknowledgedBeforeUnacknowledged
<1>1. IInv => AcknowledgedBeforeUnacknowledged
  BY DEF IInv, EveryOutboxInOrder, InOrder, AcknowledgedBeforeUnacknowledged, Unacknowledged
<1> QED BY <1>1, Inductive, PTL

\* An acknowledged or pruned event is held by the cloud, the event itself and not only its
\* device_seq, unless the register's file or the cloud's database went back in time.
THEOREM AcknowledgedHeld == Spec => []AcknowledgedIsHeld
<1>1. IInv => AcknowledgedIsHeld
  <2> SUFFICES ASSUME IInv, ~Happened({"rollback", "cloud_restore"}),
                      NEW e \in rows \cup forgotten, e \in forgotten \/ e.seq \in acked
               PROVE  e \in inbox
    BY DEF AcknowledgedIsHeld, Happened
  <2>1. Originals /\ AcknowledgedReached
    BY DEF IInv, OnlyOriginals, AcknowledgedReach, Happened
  <2>2. e \in Event /\ e.seq \in Nat \ {0}
    BY EventSeq DEF IInv, TypeOK
  <2>3. e.seq \in acked \cup Seqs(forgotten)
    BY DEF Seqs
  <2>4. e.seq \in Held
    BY <2>1, <2>2, <2>3 DEF AcknowledgedReached
  <2>5. PICK f \in inbox : f.seq = e.seq
    BY <2>4 DEF Held, Seqs
  <2>6. f \in Event /\ f.id = e.id /\ f.prev = e.prev
    BY <2>1, <2>5 DEF Originals, IsOriginal, IInv, TypeOK
  <2>7. f = e
    BY <2>2, <2>5, <2>6 DEF Event
  <2> QED BY <2>7
<1> QED BY <1>1, Inductive, PTL

\* The cloud never answers an installation that it is stale or revoked, nor does the register
\* conclude that its history is broken, without one of the events that justify it.
THEOREM Condemned == Spec => []CondemnedForAReason
<1>1. IInv => CondemnedForAReason
  <2> SUFFICES ASSUME IInv PROVE CondemnedForAReason
    OBVIOUS
  <2>1. ~Happened({"rollback"}) => /\ ~stale
                                   /\ revoked \/ stopped = "installation_revoked" => "revocation" \in history
    BY DEF IInv, NeverCondemned, NothingCondemned
  <2>2. ~Happened({"rollback", "cloud_restore", "outbox_loss"}) => stopped # "event_history_broken"
    BY DEF IInv, NeverGap, NoGap
  <2> QED BY <2>1, <2>2 DEF CondemnedForAReason, Happened
<1> QED BY <1>1, Inductive, PTL

-----------------------------------------------------------------------------
(* Pushing implements EventLog while no database goes back in time or loses rows *)

Confirmed == acked \cup Seqs(forgotten)

\* The first device_seqs as a log.
FirstIds(k) == [n \in 1..k |-> n]

LEMMA FirstIdsIsSeq ==
    ASSUME NEW k \in Nat
    PROVE  FirstIds(k) \in Seq(Nat) /\ Len(FirstIds(k)) = k
BY DEF FirstIds

LEMMA FirstIdsAppend ==
    ASSUME NEW k \in Nat
    PROVE  Append(FirstIds(k), k + 1) = FirstIds(k + 1)
<1>1. Append(FirstIds(k), k + 1) \in Seq(Nat) /\ Len(Append(FirstIds(k), k + 1)) = k + 1
  BY FirstIdsIsSeq
<1>2. \A n \in 1..(k + 1) : Append(FirstIds(k), k + 1)[n] = n
  BY FirstIdsIsSeq DEF FirstIds
<1>3. FirstIds(k + 1) \in Seq(Nat) /\ Len(FirstIds(k + 1)) = k + 1
  BY FirstIdsIsSeq
<1>4. \A n \in 1..(k + 1) : FirstIds(k + 1)[n] = n
  BY DEF FirstIds
<1> QED BY <1>1, <1>2, <1>3, <1>4

LEMMA FirstIdsSubSeq ==
    ASSUME NEW k \in Nat, NEW m \in 0..k
    PROVE  SubSeq(FirstIds(k), 1, m) = FirstIds(m)
<1>1. SubSeq(FirstIds(k), 1, m) \in Seq(Nat) /\ Len(SubSeq(FirstIds(k), 1, m)) = m
  BY FirstIdsIsSeq
<1>2. \A n \in 1..m : SubSeq(FirstIds(k), 1, m)[n] = n
  BY FirstIdsIsSeq DEF FirstIds
<1>3. FirstIds(m) \in Seq(Nat) /\ Len(FirstIds(m)) = m /\ \A n \in 1..m : FirstIds(m)[n] = n
  BY FirstIdsIsSeq DEF FirstIds
<1> QED BY <1>1, <1>2, <1>3

LEMMA ContiguousMonotone ==
    ASSUME NEW T \in SUBSET (1..MaxEvents), NEW S \in SUBSET T
    PROVE  Contiguous(S) <= Contiguous(T)
<1>1. S \in SUBSET (1..MaxEvents)
  OBVIOUS
<1>2. Contiguous(S) \in Nat /\ 1..Contiguous(S) \subseteq T
  BY <1>1, ContiguousSpec
<1> QED BY <1>2, ContiguousLongest

\* No environment step that takes anything back.
NothingTakenBack == Hazards \cap {"rollback", "cloud_restore", "outbox_loss"} = {}

LEMMA TakenBackNever ==
    ASSUME NothingTakenBack, IInv
    PROVE  /\ TypeInv /\ Originals /\ AcknowledgedReached /\ NoGap
           /\ ~Happened({"rollback", "cloud_restore", "outbox_loss"})
<1>1. ~Happened({"rollback", "cloud_restore", "outbox_loss"})
  BY DEF IInv, HistoryWithinHazards, Happened, NothingTakenBack
<1>2. ~Happened({"rollback", "cloud_restore"}) /\ ~Happened({"rollback"})
  BY <1>1 DEF Happened
<1> QED BY <1>1, <1>2 DEF IInv, OnlyOriginals, AcknowledgedReach, NeverGap, TypeInv

\* What the mapping reads of a state: the cloud's copy is the beginning of the log, and the register
\* believes no more than that.
MappedRead ==
    /\ ~Happened({"rollback", "cloud_restore", "outbox_loss"})
    /\ [n \in 1..AckSeq |-> IdAt(n)] = FirstIds(AckSeq)
    /\ lastSeq \in Nat /\ AckSeq \in Nat /\ AckSeq <= lastSeq
    /\ Confirmed \in SUBSET (1..MaxEvents) /\ Held \in SUBSET (1..MaxEvents)
    /\ Contiguous(Confirmed) \in Nat /\ Contiguous(Confirmed) <= AckSeq

LEMMA MappedState ==
    ASSUME NothingTakenBack, IInv
    PROVE  MappedRead
<1>0. TypeInv /\ Originals /\ AcknowledgedReached /\ ~Happened({"rollback", "cloud_restore", "outbox_loss"})
  BY TakenBackNever
<1>1. Held \in SUBSET (1..MaxEvents) /\ AckSeq \in Nat /\ 1..AckSeq \subseteq Held
  BY <1>0, InboxReach DEF TypeInv, TypeOK
<1>2. Confirmed \in SUBSET (1..MaxEvents)
  BY <1>0, SeqsType DEF Confirmed, TypeInv, TypeOK
<1>3. \A n \in 1..AckSeq : IdAt(n) = n
  <2> SUFFICES ASSUME NEW n \in 1..AckSeq PROVE IdAt(n) = n
    OBVIOUS
  <2>1. \E e \in inbox : e.seq = n
    BY <1>1 DEF Held, Seqs
  <2>2. \A e \in inbox : e.id = e.seq
    BY <1>0 DEF Originals, IsOriginal
  <2> QED BY <2>1, <2>2 DEF IdAt
<1>4. lastSeq \in Nat /\ AckSeq <= lastSeq
  <2>1. lastSeq \in Nat /\ \A n \in Held : n <= lastSeq
    BY <1>0 DEF Held, Seqs, Originals, IsOriginal, TypeInv, TypeOK
  <2>2. AckSeq = 0 \/ AckSeq \in Held
    BY <1>1
  <2> QED BY <2>1, <2>2
<1>5. Contiguous(Confirmed) \in Nat /\ 1..Contiguous(Confirmed) \subseteq Confirmed
  BY <1>2, ContiguousSpec
<1>6. 1..Contiguous(Confirmed) \subseteq Held
  <2>1. \A n \in Confirmed : 1..n \subseteq Held
    BY <1>0 DEF AcknowledgedReached, Confirmed
  <2> QED BY <1>5, <2>1
<1>7. Contiguous(Confirmed) <= AckSeq
  BY <1>1, <1>5, <1>6, ContiguousLongest DEF AckSeq
<1> QED BY <1>0, <1>1, <1>2, <1>3, <1>4, <1>5, <1>7 DEF FirstIds, MappedRead

\* A step appends, or adds to what the cloud holds, or to what the register knows it holds.
LEMMA OneThingAtATime ==
    ASSUME NothingTakenBack, IInv, [Next]_vars, ~Happened({"rollback", "cloud_restore", "outbox_loss"})'
    PROVE  \/ /\ lastSeq' = lastSeq + 1 /\ lastSeq < MaxEvents
              /\ UNCHANGED <<inbox, acked, forgotten>>
           \/ lastSeq' = lastSeq /\ inbox \subseteq inbox' /\ UNCHANGED Confirmed
           \/ lastSeq' = lastSeq /\ inbox' = inbox /\ Confirmed \subseteq Confirmed'
<1> USE DEF Confirmed
<1>0. TypeInv /\ Originals /\ NoGap
  BY TakenBackNever
<1>1. CASE AppendOutboxEvent
  BY <1>0, <1>1 DEF AppendOutboxEvent, Originals, cloudDb
<1>2. CASE Prune
  <2>1. PICK old \in SUBSET rows : acked' = acked \ Seqs(old) /\ forgotten' = forgotten \cup old
                                   /\ old \subseteq rows \ Unacknowledged
    BY <1>2 DEF Prune
  <2>2. Seqs(old) \subseteq acked /\ Seqs(forgotten') = Seqs(forgotten) \cup Seqs(old)
    BY <2>1 DEF Seqs, Unacknowledged
  <2> QED BY <1>2, <2>1, <2>2 DEF Prune, cloudDb
<1>3. ASSUME NEW p \in Pushers, PusherStep(p) \/ Fail(p)
      PROVE  lastSeq' = lastSeq /\ inbox' = inbox /\ Confirmed \subseteq Confirmed'
  <2>1. ~ResendFrom(p)
    BY <1>0 DEF NoGap, ResendFrom, At
  <2>2. UNCHANGED <<lastSeq, inbox, forgotten>> /\ acked \subseteq acked'
    BY <1>3, <2>1 DEF PusherStep, ReadAndSend, TakeReceived, TakeReportReceived, TakeGap, HoldsEvent,
                HoldsEventAfter, RecordCompromised, NextToSend, TakeStaleDevice, TakeUpdateRequired,
                TakeRevoked, Fail, AckedThrough, registerDb, cloudDb, ghosts
  <2> QED BY <2>2
<1>4. ASSUME UNCHANGED <<lastSeq, acked, forgotten>>
      PROVE  lastSeq' = lastSeq /\ UNCHANGED Confirmed
  BY <1>4 DEF Seqs
<1>5. inbox \subseteq inbox'
  BY <1>0, InboxGrows DEF OnlyOriginals, Happened
<1>6. ASSUME NEW p \in Pushers, HandlePush(p) PROVE UNCHANGED <<lastSeq, acked, forgotten>>
  BY <1>6 DEF HandlePush, registerDb, ghosts
<1>7. CASE CloudStep
  BY <1>4, <1>5, <1>7 DEF CloudStep, HandleDelayedPush, HandleAttachment, Apply, registerDb, ghosts
<1>8. CASE AttachEvent \/ Crash \/ CopyRegister \/ BackUpCloud \/ RevokeInstallation \/ ChangeVersionStanding
  BY <1>4, <1>5, <1>8 DEF AttachEvent, Crash, CopyRegister, BackUpCloud, RevokeInstallation,
                          ChangeVersionStanding, registerDb, ghosts
<1>9. ~RollBackRegister /\ ~RestoreCloud /\ ~LoseRow
  BY DEF RollBackRegister, RestoreCloud, LoseRow, NothingTakenBack
<1>10. CASE UNCHANGED vars
  BY <1>4, <1>5, <1>10 DEF vars, registerDb, ghosts
<1> QED BY <1>1, <1>2, <1>3, <1>4, <1>5, <1>6, <1>7, <1>8, <1>9, <1>10 DEF Next, RegisterStep, HazardStep

LEMMA StepImplementsEventLog ==
    ASSUME NothingTakenBack, IInv, MappedRead, MappedRead', [Next]_vars
    PROVE  [Abstract!Next]_(Abstract!vars)
<1> DEFINE ack == AckSeq
           conf == Contiguous(Confirmed)
           log == [n \in 1..lastSeq |-> n]
           received == [n \in 1..AckSeq |-> IdAt(n)]
<1>1. /\ received = FirstIds(ack) /\ log = FirstIds(lastSeq) /\ lastSeq \in Nat /\ ack \in Nat /\ ack <= lastSeq
      /\ conf \in Nat /\ conf <= ack
      /\ Held \in SUBSET (1..MaxEvents) /\ Confirmed \in SUBSET (1..MaxEvents)
  BY DEF MappedRead, FirstIds
<1>2. /\ received' = FirstIds(ack') /\ log' = FirstIds(lastSeq') /\ lastSeq' \in Nat /\ ack' \in Nat /\ ack' <= lastSeq'
      /\ conf' \in Nat /\ conf' <= ack'
      /\ Held' \in SUBSET (1..MaxEvents) /\ Confirmed' \in SUBSET (1..MaxEvents)
  BY DEF MappedRead, FirstIds
<1>3. \/ /\ lastSeq' = lastSeq + 1 /\ lastSeq < MaxEvents
         /\ UNCHANGED <<inbox, acked, forgotten>>
      \/ lastSeq' = lastSeq /\ inbox \subseteq inbox' /\ UNCHANGED Confirmed
      \/ lastSeq' = lastSeq /\ inbox' = inbox /\ Confirmed \subseteq Confirmed'
  BY OneThingAtATime DEF MappedRead
<1>4. inbox' = inbox => ack' = ack /\ received' = received
  BY DEF AckSeq, Held, Seqs, IdAt
<1>5. UNCHANGED Confirmed => conf' = conf
  OBVIOUS
<1>6. UNCHANGED <<acked, forgotten>> => UNCHANGED Confirmed
  BY DEF Confirmed, Seqs
<1>7. inbox \subseteq inbox' => ack <= ack'
  <2>1. inbox \subseteq inbox' => Held \subseteq Held'
    BY DEF Held, Seqs
  <2>2. ack = Contiguous(Held) /\ ack' = Contiguous(Held')
    BY DEF AckSeq
  <2> QED BY <1>2, <2>1, <2>2, ContiguousMonotone
<1>8. Confirmed \subseteq Confirmed' => conf <= conf'
  BY <1>2, ContiguousMonotone
<1> HIDE DEF ack, conf, log, received
<1>9. CASE lastSeq' = lastSeq + 1 /\ lastSeq < MaxEvents /\ UNCHANGED <<inbox, acked, forgotten>>
  <2>1. log' = Append(log, lastSeq + 1)
    <3>1. Append(FirstIds(lastSeq), lastSeq + 1) = FirstIds(lastSeq + 1)
      BY <1>1, FirstIdsAppend
    <3> QED BY <1>1, <1>2, <1>9, <3>1
  <2>2. Len(log) = lastSeq /\ lastSeq + 1 \in 1..MaxEvents
    BY <1>1, <1>9, FirstIdsIsSeq
  <2>3. received' = received /\ conf' = conf
    BY <1>4, <1>5, <1>6, <1>9
  <2>4. Len(log) < MaxEvents /\ \E id \in 1..MaxEvents : log' = Append(log, id)
    BY <1>9, <2>1, <2>2
  <2> QED BY <2>3, <2>4 DEF Abstract!Next, Abstract!Log, log, received, conf, Confirmed
<1>10. CASE lastSeq' = lastSeq /\ inbox \subseteq inbox' /\ UNCHANGED Confirmed
  <2>1. log' = log /\ conf' = conf /\ Len(log) = lastSeq /\ Len(received) = ack
    BY <1>1, <1>2, <1>5, <1>10, FirstIdsIsSeq
  <2>2. CASE ack' = ack
    <3>1. received' = received
      BY <1>1, <1>2, <2>2
    <3> QED BY <2>1, <3>1 DEF Abstract!vars, log, received, conf, Confirmed
  <2>3. CASE ack' # ack
    <3>1. ack' \in Len(received) + 1 .. Len(log)
      BY <1>1, <1>2, <1>7, <1>10, <2>1, <2>3
    <3>2. received' = SubSeq(log, 1, ack')
      BY <1>1, <1>2, <1>10, FirstIdsSubSeq
    <3>3. \E n \in Len(received) + 1 .. Len(log) : received' = SubSeq(log, 1, n)
      BY <3>1, <3>2
    <3> QED BY <2>1, <3>3 DEF Abstract!Next, Abstract!Deliver, log, received, conf, Confirmed
  <2> QED BY <2>2, <2>3
<1>11. CASE lastSeq' = lastSeq /\ inbox' = inbox /\ Confirmed \subseteq Confirmed'
  <2>1. log' = log /\ received' = received /\ Len(received) = ack
    BY <1>1, <1>2, <1>4, <1>11, FirstIdsIsSeq
  <2>2. CASE conf' = conf
    BY <2>1, <2>2 DEF Abstract!vars, log, received, conf, Confirmed
  <2>3. CASE conf' # conf
    <3>1. conf' \in conf + 1 .. Len(received)
      BY <1>1, <1>2, <1>4, <1>8, <1>11, <2>1, <2>3
    <3>2. \E n \in conf + 1 .. Len(received) : conf' = n
      BY <3>1
    <3> QED BY <2>1, <3>2 DEF Abstract!Next, Abstract!Confirm, log, received, conf, Confirmed
  <2> QED BY <2>2, <2>3
<1> QED BY <1>3, <1>9, <1>10, <1>11

LEMMA InitImplementsEventLog ==
    ASSUME Init
    PROVE  Abstract!Init
<1>1. lastSeq = 0 /\ AckSeq = 0
  <2>1. Held = {}
    BY DEF Init, Held, Seqs
  <2>2. Contiguous({}) \in Nat /\ 1..Contiguous({}) \subseteq {}
    BY ContiguousSpec
  <2> QED BY <2>1, <2>2 DEF Init, AckSeq
<1>2. Contiguous(acked \cup Seqs(forgotten)) = 0
  <2>1. acked \cup Seqs(forgotten) = {}
    BY DEF Init, Seqs
  <2>2. Contiguous({}) \in Nat /\ 1..Contiguous({}) \subseteq {}
    BY ContiguousSpec
  <2> QED BY <2>1, <2>2
<1>3. [n \in 1..lastSeq |-> n] = <<>> /\ [n \in 1..AckSeq |-> IdAt(n)] = <<>>
  BY <1>1
<1> QED BY <1>2, <1>3 DEF Abstract!Init

\* Without rollbacks, restores and lost rows, whatever batches, retries, abandoned requests, attached
\* events, crashes, prunings, revocations and refused versions do to one another, what the cloud holds
\* without a hole is always a prefix of the register's log that only grows, and the register only ever
\* takes for received what was.
THEOREM PushingImplementsEventLog ==
    ASSUME NothingTakenBack
    PROVE  Spec => ImplementsEventLog
<1>1. Init => Abstract!Init
  BY InitImplementsEventLog
<1>2. IInv => MappedRead
  BY MappedState
<1>3. IInv /\ MappedRead /\ MappedRead' /\ [Next]_vars => [Abstract!Next]_(Abstract!vars)
  BY StepImplementsEventLog
<1> QED BY <1>1, <1>2, <1>3, Inductive, PTL DEF Spec, ImplementsEventLog, Abstract!Spec

\* What the comment of OutboxPruning says of every prune is so while neither database goes back
\* in time: a row that is acknowledged is then still held by the cloud when it is pruned.
THEOREM PruningRemovesOnlyCopies ==
    ASSUME Hazards \cap {"rollback", "cloud_restore"} = {}
    PROVE  Spec => PruneRemovesOnlyCopies
<1>1. IInv /\ AcknowledgedIsHeld /\ [Next]_vars => [forgotten' \subseteq forgotten \cup inbox]_vars
  <2> SUFFICES ASSUME IInv, AcknowledgedIsHeld, Next PROVE forgotten' \subseteq forgotten \cup inbox
    OBVIOUS
  <2>1. {e \in rows : e.seq \in acked} \subseteq inbox
    BY DEF IInv, HistoryWithinHazards, AcknowledgedIsHeld
  <2>2. CASE Prune
    BY <2>1, <2>2 DEF Prune, Unacknowledged
  <2>3. ASSUME NEW p \in Pushers, PusherStep(p) \/ Fail(p) \/ HandlePush(p) PROVE forgotten' = forgotten
    BY <2>3 DEF PusherStep, ReadAndSend, TakeReceived, TakeReportReceived, TakeGap, HoldsEvent,
                HoldsEventAfter, RecordCompromised, ResendFrom, NextToSend, TakeStaleDevice,
                TakeUpdateRequired, TakeRevoked, Fail, HandlePush, ghosts
  <2>4. CASE AppendOutboxEvent \/ AttachEvent \/ CloudStep \/ HazardStep
    BY <2>4 DEF AppendOutboxEvent, AttachEvent, CloudStep, HandleDelayedPush, HandleAttachment, Apply,
                HazardStep, Crash, CopyRegister, RollBackRegister, BackUpCloud, RestoreCloud, LoseRow,
                RevokeInstallation, ChangeVersionStanding, ghosts
  <2> QED BY <2>2, <2>3, <2>4 DEF Next, RegisterStep
<1> QED BY <1>1, Inductive, AcknowledgedHeld, PTL DEF Spec, PruneRemovesOnlyCopies
=============================================================================
