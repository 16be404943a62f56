----------------------------- MODULE OutboxPush -----------------------------
(***************************************************************************)
(* One installation of a register and the cloud inbox it pushes to.        *)
(*                                                                         *)
(* The register appends every business event to its SQLite outbox, chained *)
(* to the one before; pushers (the sync cycle, and the push made before    *)
(* closing for a critical battery) send what is not acknowledged; the      *)
(* cloud stores it, or refuses it, in one transaction per request and      *)
(* answers how far its inbox reaches without a hole.                       *)
(*                                                                         *)
(* An event is [seq, id, prev]: its device_seq, its event_id and, for its  *)
(* chain_hmac, the id of the event it was chained from.  An event never    *)
(* changes once appended, so the id of the last event names the whole      *)
(* chain behind it, which is what the HMAC of the code establishes.        *)
(***************************************************************************)
EXTENDS Integers, FiniteSets

CONSTANTS
    Pushers,     \* loops that may push at the same time
    MaxEvents,   \* bound: events ever appended
    MaxBatch,    \* PUSH_BATCH_MAX_EVENTS
    MaxDelayed,  \* bound: abandoned requests, and attached events, on the network
    Hazards      \* what the environment does besides losing requests

HazardKinds == {"attachment", "crash", "delay", "prune", "rollback",
                "cloud_restore", "outbox_loss", "revocation", "minimum_raised"}

ASSUME MaxEventsAssumption == MaxEvents \in Nat \ {0}
ASSUME MaxBatchAssumption == MaxBatch \in Nat \ {0}
ASSUME MaxDelayedAssumption == MaxDelayed \in Nat
ASSUME HazardsAssumption == Hazards \subseteq HazardKinds

VARIABLES
    \* the register's database
    rows,          \* outbox rows of the installation
    acked,         \* device_seqs of rows whose acked_at is set
    lastSeq,       \* sync_state.last_device_seq
    lastId,        \* sync_state.last_chain_hmac: the id of the last event, 0 for none
    stopped,       \* sync_state.sales_stopped_reason, "none" while selling
    stale,         \* sync_state.stale_sequence_detected_at is set
    \* the register's pushers
    pc, batch, answer, pushedAny,
    \* the network
    delayed,       \* pushes whose sender gave up on them and that may still arrive
    attachments,   \* sale events travelling inside fiscal requests
    \* the cloud's database
    inbox,         \* events held
    applied,       \* events held that were applied while a hole was below them
    refused,       \* events set aside
    revoked,       \* the installation is revoked
    versionAccepted,
    \* copies of the two databases, and what happened so far
    registerCopy, cloudBackup,
    created,       \* events ever appended, which gives each one its id
    forgotten,     \* rows the register pruned
    history        \* the harmful hazards that happened

registerDb == <<rows, acked, lastSeq, lastId, stopped, stale>>
pushers == <<pc, batch, answer, pushedAny>>
network == <<delayed, attachments>>
cloudDb == <<inbox, applied, refused, revoked>>
copies == <<registerCopy, cloudBackup>>
ghosts == <<created, forgotten, history>>
vars == <<registerDb, pushers, network, cloudDb, versionAccepted, copies, ghosts>>

Event == [seq : 1..MaxEvents, id : 1..MaxEvents, prev : 0..MaxEvents]
Stops == {"none", "event_history_broken", "installation_revoked"}
PcLabels == {"read", "waiting", "answered", "holds_event", "holds_after",
             "compromised", "resend", "next"}
AnswerKinds == {"none", "received", "gap", "stale_device", "update_required", "chain_broken",
                "revoked"}
Answer == [kind : AnswerKinds, ack : 0..MaxEvents, expected : 0..MaxEvents + 1]
NoAnswer == [kind |-> "none", ack |-> 0, expected |-> 0]

RegisterCopy == [rows : SUBSET Event, acked : SUBSET (1..MaxEvents), lastSeq : 0..MaxEvents,
                 lastId : 0..MaxEvents, stopped : Stops, stale : BOOLEAN]
CloudBackup == [inbox : SUBSET Event, applied : SUBSET Event, revoked : BOOLEAN,
                refused : SUBSET Event]

-----------------------------------------------------------------------------
(* What both sides read of a set of events *)

Seqs(events) == {e.seq : e \in events}

\* Faulty: the highest device_seq of all, whatever is missing below it.
ContiguousIsHighest(seqs) == CHOOSE n \in seqs \cup {0} : \A m \in seqs : m <= n

\* Faulty: the next device_seq instead of the last one.
ContiguousIsNext(seqs) == CHOOSE n \in 1..MaxEvents + 1 : 1..n - 1 \subseteq seqs /\ n \notin seqs

\* highestContiguousSeq: how far a set of device_seqs reaches from 1 without a hole.
Contiguous(seqs) == CHOOSE n \in 0..MaxEvents : 1..n \subseteq seqs /\ n + 1 \notin seqs

\* eventLinkHolds, with the event before looked up among the given ones.
Linked(e, events) ==
    IF e.seq = 1 THEN e.prev = 0
                 ELSE \E f \in events : f.seq = e.seq - 1 /\ f.id = e.prev

Unacknowledged == {e \in rows : e.seq \notin acked}

\* Faulty: only the row of that device_seq.
AckedThroughOnlyLast(seq) == acked \cup (Seqs(rows) \cap {seq})

\* The acked_at of every row up to a device_seq is set; a row that is not there gets none.
AckedThrough(seq) == acked \cup {n \in Seqs(rows) : n <= seq}

-----------------------------------------------------------------------------
(* The register appends, and forgets what was acknowledged long ago *)

AppendOutboxEvent ==
    /\ created < MaxEvents
    /\ LET e == [seq |-> lastSeq + 1, id |-> created + 1, prev |-> lastId]
       IN  rows' = rows \cup {e}
    /\ lastSeq' = lastSeq + 1
    /\ lastId' = created + 1
    /\ created' = created + 1
    /\ UNCHANGED <<acked, stopped, stale, pushers, network, cloudDb, versionAccepted, copies,
                   forgotten, history>>

\* Faulty: acked_at is not looked at.
PruneUnacknowledged ==
    /\ "prune" \in Hazards
    /\ \E old \in SUBSET rows :
        /\ old # {}
        /\ rows' = rows \ old
        /\ acked' = acked \ Seqs(old)
        /\ forgotten' = forgotten \cup old
    /\ UNCHANGED <<lastSeq, lastId, stopped, stale, pushers, network, cloudDb, versionAccepted,
                   copies, created, history>>

\* forgetAcknowledgedBefore: any rows acknowledged may be past the cutoff, and those of a
\* fiscal document still in progress stay.
Prune ==
    /\ "prune" \in Hazards
    /\ \E old \in SUBSET (rows \ Unacknowledged) :
        /\ old # {}
        /\ rows' = rows \ old
        /\ acked' = acked \ Seqs(old)
        /\ forgotten' = forgotten \cup old
    /\ UNCHANGED <<lastSeq, lastId, stopped, stale, pushers, network, cloudDb, versionAccepted,
                   copies, created, history>>

-----------------------------------------------------------------------------
(* pushOutbox: each await of the loop is a step of its own *)

At(p, label) == pc[p] = label

Goto(p, label) == pc' = [pc EXCEPT ![p] = label]

Again(p) ==
    /\ Goto(p, "read")
    /\ batch' = [batch EXCEPT ![p] = {}]
    /\ answer' = [answer EXCEPT ![p] = NoAnswer]

Finish(p) ==
    /\ Again(p)
    /\ pushedAny' = [pushedAny EXCEPT ![p] = FALSE]

\* Faulty: a first event that exceeds the byte budget is not sent.
IsBatchMaybeEmpty(events) ==
    /\ Cardinality(events) <= MaxBatch
    /\ \A e \in events, f \in Unacknowledged : f.seq < e.seq => f \in events

\* The oldest unacknowledged events, as many as the batch and its bytes allow and at least one.
IsBatch(events) ==
    /\ Cardinality(events) <= MaxBatch
    /\ \A e \in events, f \in Unacknowledged : f.seq < e.seq => f \in events
    /\ events = {} => Unacknowledged = {}

\* A round of the loop, the first one of a new pushOutbox included: unacknowledged, and the push
\* of what it returned.  With nothing to send, the first round reports to the cloud with a push of
\* no events and a later one ends the loop.
ReadAndSend(p) ==
    /\ At(p, "read")
    /\ \E events \in SUBSET Unacknowledged :
        /\ IsBatch(events)
        /\ \/ /\ events # {} \/ ~pushedAny[p]
              /\ Goto(p, "waiting")
              /\ batch' = [batch EXCEPT ![p] = events]
              /\ answer' = [answer EXCEPT ![p] = NoAnswer]
              /\ UNCHANGED pushedAny
           \/ /\ events = {} /\ pushedAny[p]
              /\ Finish(p)
    /\ UNCHANGED <<registerDb, network, cloudDb, versionAccepted, copies, ghosts>>

\* The request times out or fails: it never arrived, it will still arrive, or its answer is lost.
Fail(p) ==
    /\ pc[p] \in {"waiting", "answered"}
    /\ Finish(p)
    /\ \/ delayed' = delayed
       \/ /\ "delay" \in Hazards
          /\ At(p, "waiting")
          /\ Cardinality(delayed) < MaxDelayed
          /\ delayed' = delayed \cup {batch[p]}
    /\ UNCHANGED <<registerDb, attachments, cloudDb, versionAccepted, copies, ghosts>>

Answered(p, kind) == At(p, "answered") /\ answer[p].kind = kind

LastSent(p) == CHOOSE n \in Seqs(batch[p]) : \A m \in Seqs(batch[p]) : m <= n
FirstSent(p) == CHOOSE n \in Seqs(batch[p]) : \A m \in Seqs(batch[p]) : n <= m

\* Another round follows only an answer that acknowledges everything sent.
TakeReceived(p) ==
    /\ Answered(p, "received")
    /\ batch[p] # {}
    /\ acked' = AckedThrough(answer[p].ack)
    /\ \/ /\ answer[p].ack < LastSent(p)
          /\ Finish(p)
       \/ /\ answer[p].ack >= LastSent(p)
          /\ Again(p)
          /\ pushedAny' = [pushedAny EXCEPT ![p] = TRUE]
    /\ UNCHANGED <<rows, lastSeq, lastId, stopped, stale, network, cloudDb, versionAccepted,
                   copies, ghosts>>

\* reportWithoutEvents acknowledges nothing of what a push of no events is answered.
TakeReportReceived(p) ==
    /\ Answered(p, "received")
    /\ batch[p] = {}
    /\ Finish(p)
    /\ UNCHANGED <<registerDb, network, cloudDb, versionAccepted, copies, ghosts>>

TakeGap(p) ==
    /\ Answered(p, "gap")
    /\ acked' = AckedThrough(answer[p].ack)
    /\ Goto(p, "holds_event")
    /\ UNCHANGED <<rows, lastSeq, lastId, stopped, stale, batch, answer, pushedAny, network,
                   cloudDb, versionAccepted, copies, ghosts>>

HoldsEvent(p) ==
    /\ At(p, "holds_event")
    /\ Goto(p, IF answer[p].expected \in Seqs(rows) THEN "resend" ELSE "holds_after")
    /\ UNCHANGED <<registerDb, batch, answer, pushedAny, network, cloudDb, versionAccepted,
                   copies, ghosts>>

\* Faulty: a missing event is never taken for a broken history.
HoldsEventAfterIgnored(p) ==
    /\ At(p, "holds_after")
    /\ Goto(p, "resend")
    /\ UNCHANGED <<registerDb, batch, answer, pushedAny, network, cloudDb, versionAccepted,
                   copies, ghosts>>

HoldsEventAfter(p) ==
    /\ At(p, "holds_after")
    /\ Goto(p, IF \E n \in Seqs(rows) : n > answer[p].expected THEN "compromised" ELSE "resend")
    /\ UNCHANGED <<registerDb, batch, answer, pushedAny, network, cloudDb, versionAccepted,
                   copies, ghosts>>

\* stopOpeningNewSales keeps the first reason.
Stop(reason) == stopped' = IF stopped = "none" THEN reason ELSE stopped

RecordCompromised(p) ==
    /\ At(p, "compromised")
    /\ Stop("event_history_broken")
    /\ Finish(p)
    /\ UNCHANGED <<rows, acked, lastSeq, lastId, stale, network, cloudDb, versionAccepted,
                   copies, ghosts>>

\* Faulty: the event the cloud expects stays acknowledged.
ResendAfter(p) ==
    /\ At(p, "resend")
    /\ acked' = {n \in acked : n <= answer[p].expected}
    /\ Goto(p, "next")
    /\ UNCHANGED <<rows, lastSeq, lastId, stopped, stale, batch, answer, pushedAny, network,
                   cloudDb, versionAccepted, copies, ghosts>>

ResendFrom(p) ==
    /\ At(p, "resend")
    /\ acked' = {n \in acked : n < answer[p].expected}
    /\ Goto(p, "next")
    /\ UNCHANGED <<rows, lastSeq, lastId, stopped, stale, batch, answer, pushedAny, network,
                   cloudDb, versionAccepted, copies, ghosts>>

\* unacknowledged(1): the loop goes on only when there is something older to send than before.
NextToSend(p) ==
    /\ At(p, "next")
    /\ \/ /\ \E e \in Unacknowledged : e.seq < FirstSent(p)
          /\ Again(p)
          /\ UNCHANGED pushedAny
       \/ /\ \A e \in Unacknowledged : e.seq >= FirstSent(p)
          /\ Finish(p)
    /\ UNCHANGED <<registerDb, network, cloudDb, versionAccepted, copies, ghosts>>

TakeStaleDevice(p) ==
    /\ Answered(p, "stale_device")
    /\ stale' = TRUE
    /\ Finish(p)
    /\ UNCHANGED <<rows, acked, lastSeq, lastId, stopped, network, cloudDb, versionAccepted,
                   copies, ghosts>>

TakeUpdateRequired(p) ==
    /\ Answered(p, "update_required")
    /\ acked' = AckedThrough(answer[p].ack)
    /\ Finish(p)
    /\ UNCHANGED <<rows, lastSeq, lastId, stopped, stale, network, cloudDb, versionAccepted,
                   copies, ghosts>>

\* The route answers a broken chain and a revoked installation alike.
TakeRevoked(p) ==
    /\ Answered(p, "revoked") \/ Answered(p, "chain_broken")
    /\ Stop("installation_revoked")
    /\ Finish(p)
    /\ UNCHANGED <<rows, acked, lastSeq, lastId, stale, network, cloudDb, versionAccepted,
                   copies, ghosts>>

-----------------------------------------------------------------------------
(* receivePushedEvents: one transaction, holding the installation's row *)

Held == Seqs(inbox)
AckSeq == Contiguous(Held)

\* The walk over a batch expects each device_seq after the other, from the first the inbox lacks;
\* Reach is the last one it found, and it stops at an event beyond the next.
Reach(events) == Contiguous(1..AckSeq \cup Seqs(events))
HasGap(events) == \E e \in events : e.seq > Reach(events)
\* Faulty: an event sent again is taken for another one.
IsStaleWhenHeld(events) == \E e \in events : e.seq \in Held

IsStale(events) ==
    \E e \in events, f \in inbox : e.seq <= Reach(events) /\ f.seq = e.seq /\ f.id # e.id
IsMisplaced(events) == \E e \in events, f \in inbox : f.id = e.id /\ f.seq # e.seq

\* Faulty: events held beyond the hole are not looked at.
JoinedNone(events) == {}

\* seqsJoinedBy: events held beyond a hole that the batch fills.
Joined(events) ==
    {f \in inbox : AckSeq < f.seq /\ f.seq <= Contiguous(Held \cup Seqs(events))}
ChainHolds(events) == \A e \in events \cup Joined(events) : Linked(e, events \cup inbox)

AnswerOf(kind, ack, expected) == [kind |-> kind, ack |-> ack, expected |-> expected]

PushOutcome(events) ==
    IF revoked THEN AnswerOf("revoked", 0, 0)
    ELSE IF ~versionAccepted THEN AnswerOf("update_required", AckSeq, 0)
    ELSE IF IsStale(events) THEN AnswerOf("stale_device", AckSeq, 0)
    ELSE IF HasGap(events) THEN AnswerOf("gap", AckSeq, Reach(events) + 1)
    ELSE IF IsMisplaced(events) \/ ~ChainHolds(events) THEN AnswerOf("chain_broken", 0, 0)
    ELSE AnswerOf("received", Contiguous(Held \cup Seqs(events)), 0)

\* Held events are never written again.
StoreEvents(events) ==
    /\ inbox' = inbox \cup {e \in events : e.seq \notin Held}
    /\ UNCHANGED <<applied, revoked, refused>>

\* Faulty: the held events beyond the hole are dropped, not set aside.
RefuseBrokenChainDropsHeld(events) ==
    /\ refused' = refused \cup events
    /\ inbox' = {f \in inbox : f.seq <= AckSeq \/ f \in applied}
    /\ revoked' = TRUE
    /\ UNCHANGED applied

\* The push is set aside with every event held beyond the hole; those applied stay held.
RefuseBrokenChain(events) ==
    /\ refused' = refused \cup events \cup {f \in inbox : f.seq > AckSeq}
    /\ inbox' = {f \in inbox : f.seq <= AckSeq \/ f \in applied}
    /\ revoked' = TRUE
    /\ UNCHANGED applied

ReceivePushedEvents(events) ==
    \/ PushOutcome(events).kind = "received" /\ StoreEvents(events)
    \/ PushOutcome(events).kind = "chain_broken" /\ RefuseBrokenChain(events)
    \/ /\ PushOutcome(events).kind \notin {"received", "chain_broken"}
       /\ UNCHANGED cloudDb

HandlePush(p) ==
    /\ At(p, "waiting")
    /\ ReceivePushedEvents(batch[p])
    /\ answer' = [answer EXCEPT ![p] = PushOutcome(batch[p])]
    /\ Goto(p, "answered")
    /\ UNCHANGED <<registerDb, batch, pushedAny, network, versionAccepted, copies, ghosts>>

\* Nobody waits for the answer of a request its sender abandoned.
HandleDelayedPush ==
    /\ \E events \in delayed :
        /\ ReceivePushedEvents(events)
        /\ delayed' = delayed \ {events}
    /\ UNCHANGED <<registerDb, pushers, attachments, versionAccepted, copies, ghosts>>

-----------------------------------------------------------------------------
(* receiveAttachedEvent: a sale's event that arrives inside a fiscal request *)

AttachEvent ==
    /\ "attachment" \in Hazards
    /\ Cardinality(attachments) < MaxDelayed
    /\ \E e \in rows : attachments' = attachments \cup {e}
    /\ UNCHANGED <<registerDb, pushers, delayed, cloudDb, versionAccepted, copies, ghosts>>

HasPlace(e) == \A f \in inbox : f.seq # e.seq /\ f.id # e.id

\* Beyond a hole nothing can be checked; next to a held event its link is, and those it joins.
AttachedChainHolds(e) ==
    e.seq = 1 \/ e.seq - 1 \in Held
        => \A f \in {e} \cup Joined({e}) : Linked(f, {e} \cup inbox)

HandleAttachment ==
    /\ \E e \in attachments :
        /\ attachments' = attachments \ {e}
        /\ \/ /\ ~revoked /\ HasPlace(e) /\ AttachedChainHolds(e)
              /\ inbox' = inbox \cup {e}
           \/ /\ revoked \/ ~HasPlace(e) \/ ~AttachedChainHolds(e)
              /\ UNCHANGED inbox
    /\ UNCHANGED <<registerDb, pushers, delayed, applied, revoked, refused, versionAccepted,
                   copies, ghosts>>

\* The cloud applies what it holds (module EventApplication says in which order).  Only a broken
\* chain asks whether an event was applied, and only of those held beyond a hole.
Apply ==
    /\ \E e \in inbox \ applied : e.seq > AckSeq /\ applied' = applied \cup {e}
    /\ UNCHANGED <<registerDb, pushers, network, inbox, revoked, refused, versionAccepted, copies,
                   ghosts>>

-----------------------------------------------------------------------------
(* What the environment does to the two databases *)

AllPushersStop ==
    /\ pc' = [p \in Pushers |-> "read"]
    /\ batch' = [p \in Pushers |-> {}]
    /\ answer' = [p \in Pushers |-> NoAnswer]
    /\ pushedAny' = [p \in Pushers |-> FALSE]

Crash ==
    /\ "crash" \in Hazards
    /\ \E p \in Pushers : ~At(p, "read") \/ pushedAny[p]
    /\ AllPushersStop
    /\ UNCHANGED <<registerDb, network, cloudDb, versionAccepted, copies, ghosts>>

CopyRegister ==
    /\ "rollback" \in Hazards
    /\ registerCopy' = [rows |-> rows, acked |-> acked, lastSeq |-> lastSeq, lastId |-> lastId,
                        stopped |-> stopped, stale |-> stale]
    /\ UNCHANGED <<registerDb, pushers, network, cloudDb, versionAccepted, cloudBackup, ghosts>>

\* The register's file is replaced by an older copy of itself, under the same device id.
RollBackRegister ==
    /\ "rollback" \in Hazards
    /\ rows' = registerCopy.rows
    /\ acked' = registerCopy.acked
    /\ lastSeq' = registerCopy.lastSeq
    /\ lastId' = registerCopy.lastId
    /\ stopped' = registerCopy.stopped
    /\ stale' = registerCopy.stale
    /\ history' = history \cup {"rollback"}
    /\ AllPushersStop
    /\ UNCHANGED <<network, cloudDb, versionAccepted, copies, created, forgotten>>

BackUpCloud ==
    /\ "cloud_restore" \in Hazards
    /\ cloudBackup' = [inbox |-> inbox, applied |-> applied, revoked |-> revoked,
                       refused |-> refused]
    /\ UNCHANGED <<registerDb, pushers, network, cloudDb, versionAccepted, registerCopy, ghosts>>

\* The cloud's database is restored from an earlier backup.  Bound: once.
RestoreCloud ==
    /\ "cloud_restore" \in Hazards \ history
    /\ inbox' = cloudBackup.inbox
    /\ applied' = cloudBackup.applied
    /\ revoked' = cloudBackup.revoked
    /\ refused' = cloudBackup.refused
    /\ history' = history \cup {"cloud_restore"}
    /\ UNCHANGED <<registerDb, pushers, network, versionAccepted, copies, created, forgotten>>

\* The outbox loses a row outside the system.
LoseRow ==
    /\ "outbox_loss" \in Hazards
    /\ \E e \in rows :
        /\ rows' = rows \ {e}
        /\ acked' = acked \ {e.seq}
    /\ history' = history \cup {"outbox_loss"}
    /\ UNCHANGED <<lastSeq, lastId, stopped, stale, pushers, network, cloudDb, versionAccepted,
                   copies, created, forgotten>>

RevokeInstallation ==
    /\ "revocation" \in Hazards
    /\ ~revoked
    /\ revoked' = TRUE
    /\ history' = history \cup {"revocation"}
    /\ UNCHANGED <<registerDb, pushers, network, inbox, applied, refused, versionAccepted, copies,
                   created, forgotten>>

\* The cloud starts asking for a newer version, or the register is updated to one it accepts.
ChangeVersionStanding ==
    /\ "minimum_raised" \in Hazards
    /\ versionAccepted' = ~versionAccepted
    /\ UNCHANGED <<registerDb, pushers, network, cloudDb, copies, ghosts>>

-----------------------------------------------------------------------------
Init ==
    /\ rows = {} /\ acked = {} /\ lastSeq = 0 /\ lastId = 0
    /\ stopped = "none" /\ stale = FALSE
    /\ pc = [p \in Pushers |-> "read"]
    /\ batch = [p \in Pushers |-> {}]
    /\ answer = [p \in Pushers |-> NoAnswer]
    /\ pushedAny = [p \in Pushers |-> FALSE]
    /\ delayed = {} /\ attachments = {}
    /\ inbox = {} /\ applied = {} /\ revoked = FALSE /\ refused = {}
    /\ versionAccepted = TRUE
    /\ registerCopy = [rows |-> {}, acked |-> {}, lastSeq |-> 0, lastId |-> 0,
                       stopped |-> "none", stale |-> FALSE]
    /\ cloudBackup = [inbox |-> {}, applied |-> {}, revoked |-> FALSE, refused |-> {}]
    /\ created = 0 /\ forgotten = {} /\ history = {}

PusherStep(p) ==
    \/ ReadAndSend(p) \/ TakeReceived(p) \/ TakeReportReceived(p)
    \/ TakeGap(p) \/ HoldsEvent(p) \/ HoldsEventAfter(p) \/ RecordCompromised(p)
    \/ ResendFrom(p) \/ NextToSend(p)
    \/ TakeStaleDevice(p) \/ TakeUpdateRequired(p) \/ TakeRevoked(p)

RegisterStep == AppendOutboxEvent \/ Prune \/ AttachEvent
CloudStep == HandleDelayedPush \/ HandleAttachment \/ Apply
HazardStep ==
    \/ Crash \/ CopyRegister \/ RollBackRegister \/ BackUpCloud \/ RestoreCloud
    \/ LoseRow \/ RevokeInstallation \/ ChangeVersionStanding

Next ==
    \/ \E p \in Pushers : PusherStep(p) \/ Fail(p) \/ HandlePush(p)
    \/ RegisterStep \/ CloudStep \/ HazardStep

Spec == Init /\ [][Next]_vars

\* The sync schedule starts a push after another for as long as the register runs, and a request
\* that is sent again and again is some time handled and some time answered.
Fairness ==
    \A p \in Pushers :
        /\ WF_vars(ReadAndSend(p))
        /\ SF_vars(HandlePush(p))
        /\ SF_vars(TakeReceived(p)) /\ SF_vars(TakeReportReceived(p)) /\ SF_vars(TakeGap(p))
        /\ SF_vars(HoldsEvent(p)) /\ SF_vars(HoldsEventAfter(p)) /\ SF_vars(RecordCompromised(p))
        /\ SF_vars(ResendFrom(p)) /\ SF_vars(NextToSend(p))

LiveSpec == Spec /\ Fairness

-----------------------------------------------------------------------------
(* Properties *)

TypeOK ==
    /\ rows \in SUBSET Event /\ acked \in SUBSET (1..MaxEvents)
    /\ lastSeq \in 0..MaxEvents /\ lastId \in 0..MaxEvents
    /\ stopped \in Stops /\ stale \in BOOLEAN
    /\ pc \in [Pushers -> PcLabels]
    /\ batch \in [Pushers -> SUBSET Event]
    /\ answer \in [Pushers -> Answer]
    /\ pushedAny \in [Pushers -> BOOLEAN]
    /\ delayed \in SUBSET SUBSET Event /\ attachments \in SUBSET Event
    /\ inbox \in SUBSET Event /\ applied \in SUBSET Event
    /\ revoked \in BOOLEAN /\ refused \in SUBSET Event
    /\ versionAccepted \in BOOLEAN
    /\ registerCopy \in RegisterCopy /\ cloudBackup \in CloudBackup
    /\ created \in 0..MaxEvents /\ forgotten \in SUBSET Event
    /\ history \in SUBSET HazardKinds

\* Whatever happens, rollbacks and restores included, the events the inbox holds without a hole
\* form one chain: each was chained from the event held just before it, so what the cloud
\* acknowledges is always one register's history and never a mixture of two.
ReceivedPrefixIsOneChain ==
    \A e \in inbox : 1..e.seq \subseteq Held => Linked(e, inbox)

\* Unless one of the two databases went back in time, an event the register holds as acknowledged,
\* or pruned because it was, is held by the cloud, event for event and not only by its number.
AcknowledgedIsHeld ==
    history \cap {"rollback", "cloud_restore"} = {}
        => {e \in rows : e.seq \in acked} \cup forgotten \subseteq inbox

\* The register is only condemned for a reason: crashes, retries, abandoned requests that arrive
\* late, two pushers at once, attached events, pruning and a cloud that asks for a newer version never
\* make the cloud answer that it is stale, revoke it, or make it believe it is revoked or that its own
\* history is broken.
CondemnedForAReason ==
    /\ stale => "rollback" \in history
    /\ revoked => history \cap {"rollback", "revocation"} # {}
    /\ stopped = "installation_revoked" => history \cap {"rollback", "revocation"} # {}
    /\ stopped = "event_history_broken"
          => history \cap {"rollback", "cloud_restore", "outbox_loss"} # {}

\* Acknowledged rows come before unacknowledged ones, so a batch never skips over an event that
\* was not acknowledged, whatever acknowledgements and resends of two pushers interleave.
AcknowledgedBeforeUnacknowledged ==
    \A e \in Unacknowledged : \A n \in acked : n < e.seq

\* The cloud never stops holding an event it applied, though it may set it aside.
AppliedStaysHeld == applied \subseteq inbox

\* Refusing a push for its broken chain loses no evidence: what leaves the inbox is kept aside, and
\* nothing that was applied leaves it.
SetAsideIsKept ==
    [][history' = history => inbox \subseteq inbox' \cup refused' /\ applied \subseteq inbox']_vars

\* The comment of OutboxPruning: pruning removes only the register's own copy of what the cloud's
\* inbox already holds.
PruneRemovesOnlyCopies == [][forgotten' \subseteq forgotten \cup inbox]_vars

\* The comment of recordCaughtUp: when a push of no events is accepted, everything the installation
\* held had been received by then.
CaughtUp(p) ==
    /\ At(p, "waiting") /\ batch[p] = {}
    /\ pc'[p] = "answered" /\ answer'[p].kind = "received"
CaughtUpMeansReceived == [][\A p \in Pushers : CaughtUp(p) => rows \subseteq inbox]_vars

\* A row the outbox lost before the cloud received it is noticed once a later event is there to be
\* sent, unless the cloud goes back in time too: the register stops opening new sales instead of
\* pushing around the hole for ever.
LossIsDetected ==
    \A n \in 1..MaxEvents :
        (n <= lastSeq /\ n \notin Seqs(rows) \cup Held /\ \E m \in Seqs(rows) : m > n)
            ~> (stopped # "none" \/ n \in Held \/ (\A m \in Seqs(rows) : m <= n)
                \/ "cloud_restore" \in history)

\* Once the cloud went back in time, any later event left to push makes the register send again
\* what the cloud lost, or stop opening new sales when it pruned it, unless the outbox loses rows too.
CloudLossIsRepaired ==
    \A n \in 1..MaxEvents :
        (/\ "cloud_restore" \in history /\ n \in Seqs(rows) \ Held
         /\ \E e \in Unacknowledged : e.seq >= n
         /\ \A p \in Pushers : At(p, "read"))
            ~> (n \in Held \/ stopped = "event_history_broken" \/ "outbox_loss" \in history)

-----------------------------------------------------------------------------
(* The inductive strengthening of the invariants, in parts (see OutboxPushProofs) *)

PositionsBelowCreated == lastSeq <= created /\ registerCopy.lastSeq <= created

\* Nothing the environment may not do happened.
HistoryWithinHazards == history \subseteq Hazards

\* Of the outbox, and of the copy it may go back to: a row of each device_seq, none above the last
\* one given, and the acknowledged ones first.
InOrder(events, seqs, last) ==
    /\ \A e \in events : e.seq <= last
    /\ \A n \in seqs : n <= last
    /\ \A e, f \in events : e.seq = f.seq => e = f
    /\ \A e \in events : e.seq \notin seqs => \A n \in seqs : n < e.seq
EveryOutboxInOrder ==
    /\ InOrder(rows, acked, lastSeq)
    /\ InOrder(registerCopy.rows, registerCopy.acked, registerCopy.lastSeq)

\* Of the inbox, and of the backup it may go back to.
OneChain(events) == \A e \in events : 1..e.seq \subseteq Seqs(events) => Linked(e, events)
EveryInboxIsOneChain == OneChain(inbox) /\ OneChain(cloudBackup.inbox)

EveryAppliedIsHeld == applied \subseteq inbox /\ cloudBackup.applied \subseteq cloudBackup.inbox

Happened(kinds) == history \cap kinds # {}

\* Until a rollback there is one event of each device_seq, chained from the one before, wherever a
\* copy of it travels or rests.
IsOriginal(e) == e.id = e.seq /\ e.prev = e.seq - 1 /\ e.seq <= created
Originals ==
    /\ lastSeq = created /\ lastId = created
    /\ \A e \in rows \cup forgotten \cup inbox \cup cloudBackup.inbox \cup attachments : IsOriginal(e)
    /\ \A p \in Pushers : \A e \in batch[p] : IsOriginal(e)
    /\ \A events \in delayed : \A e \in events : IsOriginal(e)
OnlyOriginals == ~Happened({"rollback"}) => Originals

NothingCondemned ==
    /\ ~stale
    /\ revoked \/ cloudBackup.revoked => "revocation" \in history
    /\ stopped = "installation_revoked" => "revocation" \in history
    /\ \A p \in Pushers : /\ answer[p].kind \notin {"stale_device", "chain_broken"}
                          /\ answer[p].kind = "revoked" => "revocation" \in history
NeverCondemned == ~Happened({"rollback"}) => NothingCondemned

\* Until one of the databases goes back in time, what is acknowledged, or answered to be, is held
\* with everything before it.
AcknowledgedReached ==
    /\ \A n \in acked \cup Seqs(forgotten) : 1..n \subseteq Held
    /\ \A p \in Pushers : 1..answer[p].ack \subseteq Held
AcknowledgedReach == ~Happened({"rollback", "cloud_restore"}) => AcknowledgedReached

\* And until the outbox loses a row too, a batch continues what the inbox holds without a hole.
Continues(events) ==
    \A e \in events : \A n \in 1..(e.seq - 1) : n \in Seqs(events) \/ 1..n \subseteq Held
NoGap ==
    /\ 1..created \subseteq Seqs(rows) \cup Seqs(forgotten)
    /\ \A p \in Pushers : Continues(batch[p])
    /\ \A events \in delayed : Continues(events)
    /\ \A p \in Pushers : answer[p].kind # "gap" /\ pc[p] \in {"read", "waiting", "answered"}
    /\ stopped # "event_history_broken"
NeverGap == ~Happened({"rollback", "cloud_restore", "outbox_loss"}) => NoGap

IInv ==
    /\ TypeOK /\ PositionsBelowCreated /\ HistoryWithinHazards /\ EveryOutboxInOrder
    /\ EveryInboxIsOneChain /\ EveryAppliedIsHeld
    /\ OnlyOriginals /\ NeverCondemned /\ AcknowledgedReach /\ NeverGap

-----------------------------------------------------------------------------
(* Refinement: without a harmful hazard, pushing implements EventLog.  No rollback happened, so     *)
(* the n-th event appended has the id n; the ids of the inbox are read from the inbox.              *)

IdAt(n) == (CHOOSE e \in inbox : e.seq = n).id

Abstract == INSTANCE EventLog WITH
    Ids <- 1..MaxEvents,
    MaxLength <- MaxEvents,
    log <- [n \in 1..lastSeq |-> n],
    received <- [n \in 1..AckSeq |-> IdAt(n)],
    confirmed <- Contiguous(acked \cup Seqs(forgotten))

ImplementsEventLog == Abstract!Spec
EverythingConfirmed == Abstract!EverythingConfirmed
=============================================================================
