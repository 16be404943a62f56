------------------------------ MODULE FiscalLane ------------------------------
(***************************************************************************)
(* One point of sale's numbered series: a register that reserves the next  *)
(* number for a sale and asks for its authorization, the cloud that asks   *)
(* the tax authority one request at a time (the point of sale's lane), the *)
(* background jobs that decide what became of a request whose outcome is   *)
(* unclear, and the freeze that a numbering conflict puts on the series.   *)
(*                                                                         *)
(* Left out, with what it hides: calendar days (so no conflict is ever     *)
(* diagnosed as a mere date behind, and no deferred sale expires), which   *)
(* register owns the point of sale, credit notes (ClaimedOnce is why no    *)
(* sale of this model needs one), and the register's offline series, of    *)
(* which only "the sale was invoiced there" is kept.                       *)
(***************************************************************************)
EXTENDS Naturals, Sequences, FiniteSets, FiniteSetsExt

CONSTANTS
    Sale,           \* the sales the register completes
    Amount,         \* the amounts a voucher can be for
    AmountOf,       \* [Sale -> Amount]: what a voucher is matched to a document by
    MaxDocs,        \* bound: fiscal documents the register reserves
    MaxFaults,      \* bound: restarts of the register and of the cloud
    MaxForeign,     \* bound: vouchers another program takes from this series
    MaxLate         \* bound: solicitations processed after the settling delay

ASSUME SalesAssumption == IsFiniteSet(Sale)
ASSUME AmountsAssumption == AmountOf \in [Sale -> Amount]
ASSUME BoundsAssumption ==
    MaxDocs \in Nat /\ MaxFaults \in Nat /\ MaxForeign \in Nat /\ MaxLate \in Nat

VARIABLES
    sold,           \* the sales completed, in the order they occurred
    offline,        \* those invoiced in the offline series
    deferred,       \* [Sale -> none | pending | satisfied]: deferred_sales
    doc,            \* fiscal_documents of the register: a sequence, by id
    pulled,         \* the register's copy of the count and of numbering_frozen
    calls,          \* authorize requests in the network, by document
    reply,          \* what the cloud answered to the call the register awaits
    req,            \* fiscal_requests of the cloud, by document
    lane,           \* who holds the point of sale's lane, and how far its work is
    settled,        \* documents whose settling delay has passed
    jobs,           \* the cloud's background jobs waiting or retried
    count,          \* tax_authority_last_authorized_numbers
    freeze,         \* numbering_freezes: frozen, and the count before the freeze
    tasks,          \* numbers with an external-invoicing task
    arca,           \* the vouchers of the tax authority, by number
    inflight,       \* solicitations the tax authority has not processed yet
    faults, late    \* the faults that have happened

registerVars == <<sold, offline, deferred, doc, pulled>>
cloudVars == <<req, settled, jobs, count, freeze, tasks>>
vars == <<registerVars, calls, reply, cloudVars, lane, arca, inflight, faults, late>>

DocId == 1..MaxDocs
Docs == DOMAIN doc
Unresolved == {"REQUESTING", "UNKNOWN"}

\* Faulty: a released document keeps its number.
ConsumingReleased == {"AUTHORIZED", "CONFLICTING", "RELEASED"}

\* NUMBER_CONSUMING_STATES.
Consuming == {"AUTHORIZED", "CONFLICTING"}

States == Unresolved \union Consuming \union {"REJECTED", "RELEASED"}
Answers == {"none", "authorized", "rejected", "not_attempted", "unclear"}
Decisions == {"none", "released", "adopted", "conflicting"}
Unrecorded == [answer |-> "unrecorded", conflict |-> FALSE,
               decision |-> "none", diagnosed |-> FALSE]
FreeLane == [work |-> "free", doc |-> 0, seen |-> "none"]
NotFrozen == [on |-> FALSE, before |-> 0]

InState(S) == {d \in Docs : doc[d].state \in S}
HoldsAuthorized(s) == \E d \in InState({"AUTHORIZED"}) : doc[d].sale = s

-----------------------------------------------------------------------------
(* The register: which way a sale goes, and the deferred backlog.          *)

\* readDeferredBacklog: deferred, not satisfied, holding no invoice.
Backlog == {s \in Sale : deferred[s] = "pending" /\ ~HoldsAuthorized(s) /\ s \notin offline}

\* Faulty: the last number taken is not stepped over.
LastNumber == Max({0, pulled.count} \union {doc[d].number : d \in InState(Consuming)})

\* nextInvoiceNumber over readRealTimeSeries.
NextNumber == Max({0, pulled.count} \union {doc[d].number : d \in InState(Consuming)}) + 1

\* saleAuthorizationPath: the series takes a new document.
SeriesOpen == ~pulled.frozen /\ InState(Unresolved) = {}

\* reserveFiscalDocument, and the call that the register makes right after it:
\* a call never made is one that the network loses.
Reserve(s) ==
    /\ Len(doc) < MaxDocs
    /\ doc' = Append(doc, [sale |-> s, number |-> NextNumber, state |-> "REQUESTING"])
    /\ calls' = calls \union {Len(doc) + 1}

Complete(s) ==
    /\ s \notin {sold[i] : i \in DOMAIN sold}
    /\ sold' = Append(sold, s)

\* A sale is completed and reserves the next number.
CompleteReserving(s) ==
    /\ Complete(s)
    /\ SeriesOpen /\ Backlog = {}
    /\ Reserve(s)
    /\ UNCHANGED <<offline, deferred, pulled, reply, cloudVars, lane, arca, inflight, faults, late>>

\* A sale is completed and is invoiced offline, or deferred: the register may be
\* fiscally offline, without an offline code, or its gate may fail at any time.
CompleteAside(s) ==
    /\ Complete(s)
    /\ \/ offline' = offline \union {s} /\ UNCHANGED deferred
       \/ deferred' = [deferred EXCEPT ![s] = "pending"] /\ UNCHANGED offline
    /\ UNCHANGED <<doc, pulled, calls, reply, cloudVars, lane, arca, inflight, faults, late>>

\* One round of the catch-up: deferred sales that hold an authorized document are
\* satisfied, and the oldest of the backlog reserves the next number.
CatchUp ==
    /\ SeriesOpen
    /\ \E i \in DOMAIN sold :
          /\ sold[i] \in Backlog
          /\ \A j \in 1..(i - 1) : sold[j] \notin Backlog
          /\ Reserve(sold[i])
    /\ deferred' = [s \in Sale |-> IF deferred[s] = "pending" /\ HoldsAuthorized(s)
                                   THEN "satisfied" ELSE deferred[s]]
    /\ UNCHANGED <<sold, offline, pulled, reply, cloudVars, lane, arca, inflight, faults, late>>

\* Faulty: an unclear outcome leaves no deferred sale.
SettleForgetting(d, state) ==
    LET s == doc[d].sale IN
    /\ doc' = [doc EXCEPT ![d].state = state]
    /\ deferred' = [deferred EXCEPT ![s] =
           CASE @ = "none" /\ state = "REJECTED" -> "pending"
             [] @ = "pending" /\ state = "AUTHORIZED" -> "satisfied"
             [] OTHER -> @]

\* The state a document takes from what the cloud says of it, and the deferred
\* sale that comes of it: satisfied by an authorization, recorded otherwise.
Settle(d, state) ==
    LET s == doc[d].sale IN
    /\ doc' = [doc EXCEPT ![d].state = state]
    /\ deferred' = [deferred EXCEPT ![s] =
           CASE @ = "none" /\ state # "AUTHORIZED" -> "pending"
             [] @ = "pending" /\ state = "AUTHORIZED" -> "satisfied"
             [] OTHER -> @]

\* Faulty: no answer is taken for a rejection.
StateOfAnswerRejecting(a) == IF a = "authorized" THEN "AUTHORIZED" ELSE "REJECTED"

StateOfAnswer(a) == CASE a = "authorized" -> "AUTHORIZED"
                      [] a = "rejected" -> "REJECTED"
                      [] OTHER -> "UNKNOWN"

StateOfDecision(c) == CASE c = "adopted" -> "AUTHORIZED"
                        [] c = "released" -> "RELEASED"
                        [] OTHER -> "CONFLICTING"

\* The call ends: with the cloud's answer, or without one (timeout, no
\* connection, too many requests), which leaves the outcome unknown.
ResolveCall(d) ==
    /\ doc[d].state = "REQUESTING"
    /\ \/ reply # "none" /\ Settle(d, StateOfAnswer(reply))
       \/ Settle(d, StateOfAnswer("unclear"))
    /\ reply' = "none"
    /\ UNCHANGED <<sold, offline, pulled, calls, cloudVars, lane, arca, inflight, faults, late>>

\* The register restarts: a document left requesting has an unknown outcome.
RestartRegister ==
    /\ faults < MaxFaults
    /\ faults' = faults + 1
    /\ IF InState({"REQUESTING"}) = {}
       THEN UNCHANGED <<doc, deferred>>
       ELSE \E d \in InState({"REQUESTING"}) : Settle(d, StateOfAnswer("unclear"))
    /\ reply' = "none"
    /\ UNCHANGED <<sold, offline, pulled, calls, cloudVars, lane, arca, inflight, late>>

\* A pull applies the point of sale's row: the count never goes back.
Pull ==
    /\ pulled' = [count |-> Max({pulled.count, count}), frozen |-> freeze.on]
    /\ pulled' # pulled
    /\ UNCHANGED <<sold, offline, deferred, doc, calls, reply, cloudVars, lane,
                   arca, inflight, faults, late>>

-----------------------------------------------------------------------------
(* The cloud: the authorize request, in the lane.                          *)

LaneIsFree == lane = FreeLane
Answered(d) == req[d].answer \notin {"unrecorded", "none"}
AwaitsDecision(d) == /\ req[d].answer \in {"none", "not_attempted", "unclear"}
                     /\ req[d].decision = "none"
Claims(d) == req[d].answer = "authorized" \/ req[d].decision = "adopted"

\* Faulty: a request recorded by an ask is solicited all the same.
StartAuthorizeAgain(d) ==
    /\ d \in calls /\ LaneIsFree
    /\ calls' = calls \ {d}
    /\ req' = [req EXCEPT ![d].answer = "none"]
    /\ lane' = [work |-> "recorded", doc |-> d, seen |-> "none"]
    /\ jobs' = [jobs EXCEPT !.decide = @ \union {d}]
    /\ UNCHANGED <<reply, registerVars, settled, count, freeze, tasks, arca, inflight, faults, late>>

\* The authorize request reaches the lane: one already recorded is told what was
\* answered to it, a new one is recorded with its decision job.
StartAuthorize(d) ==
    /\ d \in calls /\ LaneIsFree
    /\ calls' = calls \ {d}
    /\ IF req[d].answer # "unrecorded"
       THEN /\ reply' = IF doc[d].state # "REQUESTING" THEN reply
                        ELSE IF Answered(d) THEN req[d].answer ELSE "unclear"
            /\ UNCHANGED <<req, lane, jobs>>
       ELSE /\ req' = [req EXCEPT ![d].answer = "none"]
            /\ lane' = [work |-> "recorded", doc |-> d, seen |-> "none"]
            /\ jobs' = [jobs EXCEPT !.decide = @ \union {d}]
            /\ UNCHANGED reply
    /\ UNCHANGED <<registerVars, settled, count, freeze, tasks, arca, inflight, faults, late>>

\* The lane's work records the answer, tells it and ends. Only an answer of the
\* tax authority advances the count.
RecordAnswer(d, answer, conflict) ==
    /\ req' = [req EXCEPT ![d].answer = answer, ![d].conflict = conflict]
    /\ jobs' = [jobs EXCEPT
          !.decide = IF answer \in {"not_attempted", "unclear"} THEN @ \union {d} ELSE @ \ {d},
          !.diagnose = IF conflict THEN @ \union {d} ELSE @]
    /\ count' = IF answer = "authorized" THEN Max({count, doc[d].number}) ELSE count
    /\ reply' = IF doc[d].state = "REQUESTING" THEN answer ELSE reply
    /\ lane' = FreeLane
    /\ UNCHANGED <<registerVars, calls, settled, freeze, tasks, arca, faults, late>>

\* No token, or the call's deadline has passed: nothing is asked.
NotAttempted ==
    /\ lane.work = "recorded"
    /\ RecordAnswer(lane.doc, "not_attempted", FALSE)
    /\ UNCHANGED inflight

Solicit ==
    /\ lane.work = "recorded"
    /\ lane' = [lane EXCEPT !.work = "soliciting"]
    /\ inflight' = inflight \union {lane.doc}
    /\ UNCHANGED <<registerVars, calls, reply, cloudVars, arca, faults, late>>

\* The answer came, or none did and the outcome is unclear.
FinishAuthorize ==
    /\ lane.work = "soliciting"
    /\ CASE lane.seen = "conflict" -> RecordAnswer(lane.doc, "unclear", TRUE)
         [] lane.seen \in {"authorized", "rejected"} ->
               RecordAnswer(lane.doc, lane.seen, FALSE)
         [] OTHER -> RecordAnswer(lane.doc, "unclear", FALSE)
    /\ UNCHANGED inflight

-----------------------------------------------------------------------------
(* The register asks what became of an unclear document, and the cloud's   *)
(* job decides it.                                                         *)

\* Faulty: a request never recorded is told released, and nothing is recorded.
AskOutcomeReleasing(d) ==
    /\ d \in InState({"UNKNOWN"}) /\ LaneIsFree
    /\ Settle(d, CASE req[d].answer = "unrecorded" -> "RELEASED"
                   [] req[d].answer \in {"authorized", "rejected"} -> StateOfAnswer(req[d].answer)
                   [] req[d].decision # "none" -> StateOfDecision(req[d].decision)
                   [] OTHER -> "UNKNOWN")
    /\ UNCHANGED <<req, jobs, sold, offline, pulled, calls, reply, lane, settled, count, freeze,
                   tasks, arca, inflight, faults, late>>

\* Faulty: a request recorded as abandoned gets no decision job.
AskOutcomeUnscheduled(d) ==
    /\ d \in InState({"UNKNOWN"}) /\ LaneIsFree
    /\ \/ /\ req[d].answer = "unrecorded"
          /\ req' = [req EXCEPT ![d].answer = "unclear"]
          /\ UNCHANGED <<doc, deferred>>
       \/ /\ req[d].answer \in {"authorized", "rejected"} \/ req[d].decision # "none"
          /\ Settle(d, IF req[d].decision # "none" THEN StateOfDecision(req[d].decision)
                       ELSE StateOfAnswer(req[d].answer))
          /\ UNCHANGED req
    /\ UNCHANGED <<jobs, sold, offline, pulled, calls, reply, lane, settled, count, freeze,
                   tasks, arca, inflight, faults, late>>

\* outcomeOf and settle: a request never recorded is recorded as abandoned, so
\* that it can no longer be solicited; a pending one stays unknown; an answered
\* or decided one settles the document, unless the answer is lost on its way.
AskOutcome(d) ==
    /\ d \in InState({"UNKNOWN"}) /\ LaneIsFree
    /\ \/ /\ req[d].answer = "unrecorded"
          /\ req' = [req EXCEPT ![d].answer = "unclear"]
          /\ jobs' = [jobs EXCEPT !.decide = @ \union {d}]
          /\ UNCHANGED <<doc, deferred>>
       \/ /\ req[d].answer \in {"authorized", "rejected"}
          /\ Settle(d, StateOfAnswer(req[d].answer))
          /\ UNCHANGED <<req, jobs>>
       \/ /\ req[d].decision # "none"
          /\ Settle(d, StateOfDecision(req[d].decision))
          /\ UNCHANGED <<req, jobs>>
    /\ UNCHANGED <<sold, offline, pulled, calls, reply, lane, settled, count, freeze, tasks,
                   arca, inflight, faults, late>>

\* The 60 seconds after the outcome became unclear pass; a solicitation still on
\* its way by then is a late one.
SettlingDelayPasses(d) ==
    /\ req[d].answer = "unclear" /\ d \notin settled
    /\ settled' = settled \union {d}
    /\ late' = IF d \in inflight THEN late + 1 ELSE late
    /\ late' <= MaxLate
    /\ UNCHANGED <<registerVars, calls, reply, req, lane, jobs, count, freeze, tasks,
                   arca, inflight, faults>>

RecordDecision(d, decision) ==
    /\ req' = [req EXCEPT ![d].decision = decision]
    /\ jobs' = [jobs EXCEPT !.decide = @ \ {d}]
    /\ lane' = FreeLane

\* The decision job takes the lane. Nothing is left to decide of a document that
\* was answered clearly; a request no answer was recorded of is abandoned now; one
\* never attempted is released; an unclear one waits for its settling delay.
DecideStart(d) ==
    /\ d \in jobs.decide /\ LaneIsFree
    /\ IF ~AwaitsDecision(d)
       THEN jobs' = [jobs EXCEPT !.decide = @ \ {d}] /\ UNCHANGED <<req, lane>>
       ELSE CASE req[d].answer = "none" ->
                    req' = [req EXCEPT ![d].answer = "unclear"] /\ UNCHANGED <<jobs, lane>>
              [] req[d].answer = "not_attempted" -> RecordDecision(d, "released")
              [] OTHER -> /\ d \in settled
                          /\ lane' = [work |-> "deciding", doc |-> d, seen |-> "none"]
                          /\ UNCHANGED <<req, jobs>>
    /\ UNCHANGED <<registerVars, calls, reply, settled, count, freeze, tasks,
                   arca, inflight, faults, late>>

\* voucherAt: the voucher at the document's number, adopted when it matches it and
\* otherwise another's, invoiced outside; with none, the last number is asked for.
DecideVoucher ==
    LET n == doc[lane.doc].number IN
    /\ lane.work = "deciding" /\ lane.seen = "none"
    /\ IF n \in DOMAIN arca
       THEN LET matches == arca[n].amount = AmountOf[doc[lane.doc].sale] IN
            /\ RecordDecision(lane.doc, IF matches THEN "adopted" ELSE "conflicting")
            /\ tasks' = IF matches THEN tasks ELSE tasks \union {n}
       ELSE lane' = [lane EXCEPT !.seen = "no voucher"] /\ UNCHANGED <<req, jobs, tasks>>
    /\ UNCHANGED <<registerVars, calls, reply, settled, count, freeze, arca, inflight, faults, late>>

\* lastAuthorized: below the document's number, the document is released.
DecideLastAuthorized ==
    /\ lane.work = "deciding" /\ lane.seen = "no voucher"
    /\ IF Len(arca) < doc[lane.doc].number
       THEN RecordDecision(lane.doc, "released")
       ELSE lane' = FreeLane /\ UNCHANGED <<req, jobs>>
    /\ UNCHANGED <<registerVars, calls, reply, settled, count, freeze, tasks,
                   arca, inflight, faults, late>>

\* The tax authority gives the job no answer: the decision is asked for again.
DecideNoAnswer ==
    /\ lane.work = "deciding"
    /\ lane' = FreeLane
    /\ UNCHANGED <<registerVars, calls, reply, cloudVars, arca, inflight, faults, late>>

-----------------------------------------------------------------------------
(* Numbering conflicts.                                                    *)

\* Faulty: the freeze does not ask for its reconciliation.
DiagnoseOnly(d) ==
    /\ d \in jobs.diagnose /\ LaneIsFree
    /\ req' = [req EXCEPT ![d].diagnosed = TRUE]
    /\ freeze' = IF freeze.on THEN freeze ELSE [on |-> TRUE, before |-> count]
    /\ jobs' = [jobs EXCEPT !.diagnose = @ \ {d}]
    /\ UNCHANGED <<registerVars, calls, reply, lane, settled, count, tasks,
                   arca, inflight, faults, late>>

\* A conflict diagnosed as a collision freezes the series and asks for its
\* reconciliation.
Diagnose(d) ==
    /\ d \in jobs.diagnose /\ LaneIsFree
    /\ req' = [req EXCEPT ![d].diagnosed = TRUE]
    /\ freeze' = IF freeze.on THEN freeze ELSE [on |-> TRUE, before |-> count]
    /\ jobs' = [jobs EXCEPT !.diagnose = @ \ {d},
                            !.reconcile = @ \/ ~freeze.on]
    /\ UNCHANGED <<registerVars, calls, reply, lane, settled, count, tasks,
                   arca, inflight, faults, late>>

Recorded == {d \in DocId : req[d].answer # "unrecorded"}

\* documentsInNumberingRange and numbersWithoutOwnDocument.
Swept == {d \in Recorded : doc[d].number \in (freeze.before + 1)..Len(arca)}

\* Faulty: the sweep stops one number short.
WithoutOwnDocumentBelowLast ==
    ((freeze.before + 1)..(Len(arca) - 1)) \ {doc[d].number : d \in {e \in Swept : Claims(e)}}

WithoutOwnDocument ==
    ((freeze.before + 1)..Len(arca)) \ {doc[d].number : d \in {e \in Swept : Claims(e)}}

\* requestBehindVoucher: a request at that number that the voucher matches.
HasRequestBehind(n) == \E d \in Recorded :
    /\ doc[d].number = n
    /\ req[d].answer # "rejected"
    /\ arca[n].amount = AmountOf[doc[d].sale]

\* Once every request of the range is decided, each number that no document of the
\* register took is invoiced outside, the count catches up and the freeze ends.
Reconcile ==
    /\ jobs.reconcile /\ LaneIsFree
    /\ \A d \in Swept : ~AwaitsDecision(d)
    /\ tasks' = tasks \union {n \in WithoutOwnDocument : ~HasRequestBehind(n)}
    /\ count' = Max({count, Len(arca)})
    /\ freeze' = NotFrozen
    /\ jobs' = [jobs EXCEPT !.reconcile = FALSE]
    /\ UNCHANGED <<registerVars, calls, reply, lane, req, settled, arca, inflight, faults, late>>

-----------------------------------------------------------------------------
(* The tax authority, the network and the faults.                          *)

\* A voucher takes the number after the last one, or none: a number out of order
\* is a conflict, one in order may be rejected.
ArcaProcesses(d) ==
    /\ d \in inflight
    /\ inflight' = inflight \ {d}
    /\ \E seen \in {"authorized", "rejected", "conflict"} :
          /\ (seen = "conflict") <=> (doc[d].number # Len(arca) + 1)
          /\ arca' = IF seen = "authorized"
                     THEN Append(arca, [doc |-> d, amount |-> AmountOf[doc[d].sale]])
                     ELSE arca
          /\ lane' = IF lane.work = "soliciting" /\ lane.doc = d
                     THEN [lane EXCEPT !.seen = seen] ELSE lane
    /\ UNCHANGED <<registerVars, calls, reply, cloudVars, faults, late>>

\* Another program invoices from this point of sale.
InvoicedElsewhere ==
    /\ Cardinality({n \in DOMAIN arca : arca[n].doc = 0}) < MaxForeign
    /\ \E a \in Amount : arca' = Append(arca, [doc |-> 0, amount |-> a])
    /\ UNCHANGED <<registerVars, calls, reply, cloudVars, lane, inflight, faults, late>>

CallIsLost(d) ==
    /\ d \in calls
    /\ calls' = calls \ {d}
    /\ UNCHANGED <<registerVars, reply, cloudVars, lane, arca, inflight, faults, late>>

SolicitationIsLost(d) ==
    /\ d \in inflight
    /\ inflight' = inflight \ {d}
    /\ UNCHANGED <<registerVars, calls, reply, cloudVars, lane, arca, faults, late>>

\* The cloud restarts, or the connection that holds the lane's lock breaks: the
\* work ends there, and the lock with it. A work that only lost its connection may
\* still solicit what it had recorded.
LaneIsLost ==
    /\ ~LaneIsFree /\ faults < MaxFaults
    /\ faults' = faults + 1
    /\ lane' = FreeLane
    /\ \/ UNCHANGED inflight
       \/ lane.work = "recorded" /\ inflight' = inflight \union {lane.doc}
    /\ UNCHANGED <<registerVars, calls, reply, cloudVars, arca, late>>

-----------------------------------------------------------------------------
Init ==
    /\ sold = <<>> /\ offline = {} /\ deferred = [s \in Sale |-> "none"] /\ doc = <<>>
    /\ pulled = [count |-> 0, frozen |-> FALSE]
    /\ calls = {} /\ reply = "none"
    /\ req = [d \in DocId |-> Unrecorded] /\ lane = FreeLane /\ settled = {}
    /\ jobs = [decide |-> {}, diagnose |-> {}, reconcile |-> FALSE]
    /\ count = 0 /\ freeze = NotFrozen /\ tasks = {}
    /\ arca = <<>> /\ inflight = {} /\ faults = 0 /\ late = 0

\* What the register, the cloud and the tax authority do without a fault.
Progress ==
    \/ Pull \/ Solicit \/ FinishAuthorize
    \/ DecideVoucher \/ DecideLastAuthorized \/ Reconcile
    \/ \E d \in Docs : \/ ResolveCall(d) \/ StartAuthorize(d) \/ AskOutcome(d)
                       \/ SettlingDelayPasses(d) \/ DecideStart(d) \/ Diagnose(d)
                       \/ ArcaProcesses(d)

Next ==
    \/ Progress
    \/ CatchUp \/ NotAttempted \/ DecideNoAnswer \/ LaneIsLost
    \/ RestartRegister \/ InvoicedElsewhere
    \/ \E s \in Sale : CompleteReserving(s) \/ CompleteAside(s)
    \/ \E d \in Docs : CallIsLost(d) \/ SolicitationIsLost(d)

Spec == Init /\ [][Next]_vars
FairSpec == Spec /\ WF_vars(Progress)

-----------------------------------------------------------------------------
(* Properties.                                                             *)

\* Every variable keeps its type, and every document its number.
TypeOK ==
    /\ sold \in Seq(Sale) /\ Len(sold) <= Cardinality(Sale)
    /\ offline \subseteq Sale
    /\ deferred \in [Sale -> {"none", "pending", "satisfied"}]
    /\ doc \in Seq([sale : Sale, number : Nat \ {0}, state : States])
    /\ Len(doc) <= MaxDocs
    /\ pulled \in [count : Nat, frozen : BOOLEAN]
    /\ calls \subseteq Docs /\ reply \in Answers
    /\ req \in [DocId -> [answer : Answers \union {"unrecorded"}, conflict : BOOLEAN,
                          decision : Decisions, diagnosed : BOOLEAN]]
    /\ Recorded \subseteq Docs
    /\ lane \in [work : {"free", "recorded", "soliciting", "deciding"}, doc : {0} \union Docs,
                 seen : {"none", "authorized", "rejected", "conflict", "no voucher"}]
    /\ settled \subseteq Docs /\ inflight \subseteq Docs
    /\ jobs \in [decide : SUBSET Docs, diagnose : SUBSET Docs, reconcile : BOOLEAN]
    /\ count \in Nat /\ freeze \in [on : BOOLEAN, before : Nat]
    /\ arca \in Seq([doc : {0} \union Docs, amount : Amount])
    /\ tasks \subseteq Nat
    /\ faults \in 0..MaxFaults /\ late \in 0..MaxLate

\* The register never asks for a number with a gap below it: whatever became of the
\* documents before, every number below the one requested is the tax authority's.
SeriesHasNoGap == \A d \in Docs : doc[d].number <= Len(arca) + 1

\* The number of a voucher is the voucher of one request, and a sale's is one: this is
\* why no sale of a live register needs a credit note.
ClaimedOnce == \A d, e \in Recorded :
    Claims(d) /\ Claims(e) /\ d # e =>
        doc[d].number # doc[e].number /\ doc[d].sale # doc[e].sale

\* As long as no solicitation outlives the settling delay, the tax authority never
\* holds two invoices of one sale, however the calls were lost and retried.
InvoicedOnce == late = 0 =>
    \A m, n \in DOMAIN arca :
        /\ arca[m].doc # 0 /\ arca[n].doc # 0
        /\ doc[arca[m].doc].sale = doc[arca[n].doc].sale
        => m = n

\* The register holds an invoice only if the cloud counts it, and one that the cloud
\* counts the register holds, or has not been told of yet.
RegisterAgrees == \A d \in Docs :
    /\ doc[d].state = "AUTHORIZED" => Claims(d)
    /\ Claims(d) => doc[d].state \in {"AUTHORIZED"} \union Unresolved

\* Every number the count has passed is a document's of the register or somebody's
\* to invoice outside: the freeze keeps the count from passing over a voucher. What
\* is left is a voucher that matches a document released of its number: authorized
\* after all, or another's of the same amount, it is taken for that document's.
CountedIsAccounted == \A n \in 1..count :
    \/ n \in tasks
    \/ \E d \in Recorded : Claims(d) /\ doc[d].number = n
    \/ HasRequestBehind(n)

\* No sale is forgotten: each one completed is invoiced, offline or in the series, is
\* waiting for its outcome, or is deferred; and none is taken for satisfied without
\* its invoice.
NoSaleForgotten == \A i \in DOMAIN sold :
    LET s == sold[i] IN
    /\ \/ s \in offline \/ HoldsAuthorized(s) \/ deferred[s] = "pending"
       \/ \E d \in InState(Unresolved) : doc[d].sale = s
    /\ deferred[s] = "satisfied" => HoldsAuthorized(s)

\* Every document gets an outcome: what a timeout, a restart or a lost answer left
\* unclear is decided, unless the tax authority goes on not answering the decision.
EveryDocumentSettles ==
    \/ \A d \in DocId : (d \in InState(Unresolved)) ~> (d \notin InState(Unresolved))
    \/ []<><<DecideNoAnswer>>_vars

\* A freeze of the series ends, at the cloud and then at the register.
FreezeEnds == (pulled.frozen ~> ~pulled.frozen) \/ []<><<DecideNoAnswer>>_vars

-----------------------------------------------------------------------------
\* Refinement: the register and the cloud implement FiscalVerdicts (resolveCall, outcomeOf):
\* the answer given in time, the one asked for later and the decision of an unclear outcome
\* come to one verdict on a document, and the register to that verdict.
VerdictOn(d) ==
    IF Claims(d) THEN "AUTHORIZED"
    ELSE IF req[d].answer = "rejected" THEN "REJECTED"
    ELSE IF req[d].decision = "released" THEN "RELEASED"
    ELSE IF req[d].decision = "conflicting" THEN "CONFLICTING"
    ELSE "none"

Abstract == INSTANCE FiscalVerdicts WITH
    series <- [d \in Docs |-> doc[d].sale],
    verdict <- [d \in DocId |-> VerdictOn(d)],
    known <- [d \in DocId |-> IF d \in Docs \ InState(Unresolved) THEN doc[d].state ELSE "none"]

ImplementsFiscalVerdicts == Abstract!Spec
=============================================================================
