----------------------------- MODULE PaymentLane -----------------------------
(***************************************************************************)
(* One charge with Mercado Pago: the register that starts it, follows it   *)
(* and may abandon it for another means of payment, the cloud that works   *)
(* on it one request at a time (the payment's lane), and Mercado Pago,     *)
(* whose orders outlive the calls that asked for them. A sale must not be  *)
(* held by a payment that is given back, and no paid order may be left to  *)
(* nobody.                                                                 *)
(*                                                                         *)
(* CLOSED stands for the states an unpaid order ends in, EXPIRED, DECLINED *)
(* and CANCELLED. Left out: amounts (an order is paid in full or not at    *)
(* all), needs_review, the 72 hours after which a paid order is no longer  *)
(* looked for, the refusals of a settlement other than a closed sale, what *)
(* the register records of paid orders it has no sale for, and how an      *)
(* opened refund is sent.                                                  *)
(***************************************************************************)
EXTENDS Naturals, FiniteSets

CONSTANTS
    MaxOrders,      \* bound: orders Mercado Pago creates for the charge
    MaxSends,       \* bound: times one call asks for the order (MAX_ATTEMPTS)
    MaxFaults       \* bound: calls unanswered, connections lost, crashes

ASSUME BoundsAssumption == MaxOrders \in Nat /\ MaxSends \in Nat /\ MaxFaults \in Nat

VARIABLES
    sale,           \* the sale charged: open or closed, at the register
    local,          \* the register's payment_transactions row; over: its wait has ended
    act,            \* what each activity of the register awaits, or was answered
    sends,          \* times the call under way asked for the order
    checked,        \* paid orders were discovered since the register started
    outbox,         \* its events that the cloud has not applied
    row,            \* the cloud's payment_transactions row
    expired,        \* the row's expires_at has passed
    refunds,        \* late-payment refunds opened: of the row's own order (0), or of another
    saleHeld,       \* the cloud's sale_payments hold the payment as approved
    late,           \* requests the register gave up on that still travel
    lane,           \* who holds the payment's lane, and how far its work is
    notice,         \* the order of a notification, as it was read before the lane was taken
    orders,         \* the orders of Mercado Pago
    inflight,       \* creation calls that nobody awaits and are not processed yet
    notices,        \* orders Mercado Pago has to notify
    faults

registerVars == <<sale, local, act, sends, checked, outbox>>
cloudVars == <<row, expired, refunds, saleHeld, late, lane, notice>>
providerVars == <<orders, inflight, notices>>
vars == <<registerVars, cloudVars, providerVars, faults>>

Order == 1..MaxOrders
NoOrder == 0

\* "charge" starts the charge and then follows it.
Activity == {"charge", "abandon", "discovery"}
Calls == {"create", "read", "cancel", "list", "refund"}
Replies == {"created", "refused", "provider_unavailable", "order_unreachable",
            "PENDING", "APPROVED", "CLOSED", "not_recorded", "cancel_on_terminal",
            "unreachable", "listed", "empty", "opened", "not_opened"}
States == {"none", "PENDING", "APPROVED", "CLOSED"}

\* earlier: what is known of the earlier attempts to create the order.
Held(step, job, a, earlier) == [step |-> step, job |-> job, for |-> a, earlier |-> earlier]
FreeLane == Held("free", "none", "nobody", "none")
NoNotice == [order |-> NoOrder, result |-> "none"]

\* Every variable keeps the values the tables and the requests allow.
TypeOK ==
    /\ sale \in {"open", "closed"}
    /\ local \in [state : States, method : {"QR", "POINT"}, replaced : BOOLEAN, over : BOOLEAN]
    /\ act \in [Activity -> {"idle"} \union Calls \union Replies]
    /\ sends \in 0..MaxSends /\ faults \in 0..MaxFaults
    /\ checked \in BOOLEAN /\ expired \in BOOLEAN /\ saleHeld \in BOOLEAN
    /\ outbox \subseteq {"replaced", "completed"}
    /\ row \in [state : States, order : Order \union {NoOrder},
                unknown : BOOLEAN, replaced : BOOLEAN]
    /\ refunds \subseteq Order \union {NoOrder}
    /\ late \subseteq {"create", "cancel", "refund"}
    /\ lane \in [step : {"free", "searching", "creating", "reading", "cancelling"},
                 job : {"none", "create", "read", "cancel", "notice"},
                 for : Activity \union {"nobody"}, earlier : {"none", "nothing", "unknown"}]
    /\ notice \in [order : Order \union {NoOrder}, result : {"none", "open", "paid", "closed"}]
    /\ orders \in [Order -> {"none", "open", "paid", "closed"}]
    /\ inflight \in 0..MaxFaults
    /\ notices \subseteq Order

Init ==
    /\ sale = "open" /\ outbox = {} /\ sends = 0 /\ checked = FALSE
    /\ local \in [state : {"none"}, method : {"QR", "POINT"}, replaced : {FALSE}, over : {FALSE}]
    /\ act = [a \in Activity |-> "idle"]
    /\ row = [state |-> "none", order |-> NoOrder, unknown |-> FALSE, replaced |-> FALSE]
    /\ expired = FALSE /\ refunds = {} /\ saleHeld = FALSE
    /\ late = {} /\ lane = FreeLane /\ notice = NoNotice
    /\ orders = [o \in Order |-> "none"] /\ inflight = 0 /\ notices = {}
    /\ faults = 0

Fault == faults < MaxFaults /\ faults' = faults + 1

------------------------------------------------------------------------------
(* What the cloud writes of the row, whoever holds the lane. *)

StateOf == [open |-> "PENDING", paid |-> "APPROVED", closed |-> "CLOSED"]

\* isLateApproval of the row as the statement that wrote it returns it.
LateRefund(r) == IF r.state = "APPROVED" /\ r.replaced THEN {NoOrder} ELSE {}

Write(r) == row' = r /\ refunds' = refunds \union LateRefund(r)

\* recordMercadoPagoOrderResult, of the order of a payment still pending.
WithResult(result) == [row EXCEPT !.state = StateOf[result]]

\* Faulty: the order's own status is kept instead of the payment's state.
WithOrderStatus(o, result, otherPossible) ==
    [row EXCEPT !.order = o, !.state = result, !.unknown = @ /\ otherPossible]

\* recordCreatedMercadoPagoOrder.
WithOrder(o, result, otherPossible) ==
    [row EXCEPT !.order = o, !.state = StateOf[result], !.unknown = @ /\ otherPossible]

\* Faulty: the payment expires without an order though one may exist.
AfterExpiryAnyway ==
    IF row.state = "PENDING" /\ row.order = NoOrder /\ expired
    THEN [row EXCEPT !.state = "CLOSED"] ELSE row

\* recordExpiryWithoutOrder: an order that may exist keeps the payment pending.
AfterExpiry ==
    IF row.state = "PENDING" /\ row.order = NoOrder /\ expired /\ ~row.unknown
    THEN [row EXCEPT !.state = "CLOSED"] ELSE row

AwaitsUnrecordedOrder == row.state = "PENDING" /\ row.order = NoOrder /\ row.unknown

------------------------------------------------------------------------------
(* The lane (inPaymentTransactionLane) is an advisory lock of the session    *)
(* that also writes: a holder that loses its connection writes no more.      *)

LaneIsFree == lane.step = "free"

registerRows == <<sale, local, sends, checked, outbox>>

\* The request leaves the network: its activity awaits it, or gave up on it.
Taken(kind, a) ==
    IF a = "nobody" THEN kind \in late /\ late' = late \ {kind}
    ELSE act[a] = kind /\ UNCHANGED late

Release(a, reply) ==
    /\ lane' = FreeLane
    /\ act' = IF a = "nobody" THEN act ELSE [act EXCEPT ![a] = reply]

\* What the finished work answers of the row.
AnswerOf(job, r) ==
    IF job = "create" THEN "created"
    ELSE IF job = "cancel" /\ r.state = "PENDING" THEN "unreachable" ELSE r.state

ProviderUnavailable(job) == IF job = "create" THEN "provider_unavailable" ELSE "unreachable"

\* refreshMercadoPagoTransaction up to its call, for a read or before a cancellation.
Refresh(job, a) ==
    IF row.state = "PENDING" /\ row.order # NoOrder
    THEN lane' = Held("reading", job, a, "none") /\ UNCHANGED <<row, refunds, act>>
    ELSE row' = AfterExpiry /\ UNCHANGED refunds /\ Release(a, AnswerOf(job, AfterExpiry))

\* createMercadoPagoOrder up to the call that creates the order: that an order may exist is
\* recorded before it is asked for.
BeginCreate(a) ==
    /\ LaneIsFree /\ Taken("create", a)
    /\ LET creates == \/ row.state = "none"
                      \/ row.state = "PENDING" /\ row.order = NoOrder /\ ~expired
           earlier == IF row.state = "none" THEN "none"
                      ELSE IF row.unknown THEN "unknown" ELSE "nothing"
       IN  \/ /\ creates
              /\ row' = [row EXCEPT !.state = "PENDING", !.unknown = TRUE]
              /\ expired' = FALSE
              /\ lane' = Held("creating", "create", a, earlier)
              /\ UNCHANGED <<act, refunds>>
           \/ ~creates /\ Refresh("create", a) /\ UNCHANGED expired
    /\ UNCHANGED <<registerRows, saleHeld, notice, providerVars, faults>>

\* readMercadoPagoOrderPayment.
BeginRead(a) ==
    /\ LaneIsFree /\ Taken("read", a)
    /\ IF row.state = "none"
       THEN Release(a, "not_recorded") /\ UNCHANGED <<row, refunds>>
       ELSE Refresh("read", a)
    /\ UNCHANGED <<registerRows, expired, saleHeld, notice, providerVars, faults>>

\* Faulty: a payment the cloud does not know is answered as cancelled and not recorded.
BeginCancelUnrecorded(a) ==
    /\ LaneIsFree /\ Taken("cancel", a)
    /\ IF row.state = "none"
       THEN UNCHANGED <<row, refunds>> /\ Release(a, "CLOSED")
       ELSE Refresh("cancel", a)
    /\ UNCHANGED <<registerRows, expired, saleHeld, notice, providerVars, faults>>

\* cancelMercadoPagoOrder: a payment the cloud does not know is recorded as cancelled, for the
\* request that would create its order may still come.
BeginCancel(a) ==
    /\ LaneIsFree /\ Taken("cancel", a)
    /\ IF row.state = "none"
       THEN /\ row' = [row EXCEPT !.state = "CLOSED"] /\ UNCHANGED refunds
            /\ Release(a, "CLOSED")
       ELSE Refresh("cancel", a)
    /\ UNCHANGED <<registerRows, expired, saleHeld, notice, providerVars, faults>>

\* openRegisterLatePaymentRefund makes no call.
BeginRefund(a) ==
    LET refundable == row.state = "APPROVED" /\ ~row.replaced /\ ~saleHeld
    IN  /\ LaneIsFree /\ Taken("refund", a)
        /\ refunds' = refunds \union IF refundable THEN {NoOrder} ELSE {}
        /\ Release(a, IF refundable THEN "opened" ELSE "not_opened")
        /\ UNCHANGED <<registerRows, row, expired, saleHeld, notice, providerVars, faults>>

Begin(a) == BeginCreate(a) \/ BeginRead(a) \/ BeginCancel(a) \/ BeginRefund(a)

\* checkPendingMercadoPagoPayments, of this payment; a replaced one is cancelled.
BeginCheck ==
    LET job == IF row.replaced THEN "cancel" ELSE "read"
    IN  /\ LaneIsFree /\ row.state = "PENDING"
        /\ IF AwaitsUnrecordedOrder
           THEN /\ lane' = Held("searching", job, "nobody", "none")
                /\ UNCHANGED <<row, refunds, act>>
           ELSE Refresh(job, "nobody")
        /\ UNCHANGED <<registerRows, expired, saleHeld, late, notice, providerVars, faults>>

------------------------------------------------------------------------------
(* What the holder does with the answers of Mercado Pago. *)

Existing == {o \in Order : orders[o] # "none"}
Paid == {o \in Order : orders[o] = "paid"}

\* A creation makes a new order, or repeats one that the same key already made.
Creatable == Existing \union {o \in Order : Existing = 1..(o - 1)}
CreateAtProvider(o) ==
    /\ orders' = [orders EXCEPT ![o] = IF @ = "none" THEN "open" ELSE @]
    /\ notices' = notices \union ({o} \ Existing)

laneOnly == <<registerRows, expired, saleHeld, late, notice>>

\* An attempt that no other can follow trusts the answer; a retry reads the order again.
OrderCreated ==
    /\ lane.step = "creating"
    /\ \E o \in Creatable :
        /\ CreateAtProvider(o)
        /\ IF lane.earlier = "none"
           THEN Write(WithOrder(o, orders'[o], FALSE)) /\ Release(lane.for, "created")
           ELSE /\ row' = [row EXCEPT !.order = o, !.unknown = (lane.earlier = "unknown")]
                /\ lane' = Held("reading", "create", lane.for, "none")
                /\ UNCHANGED <<refunds, act>>
    /\ UNCHANGED <<laneOnly, inflight, faults>>

\* Faulty: a refused retry settles that no order exists, though an earlier attempt may have made one.
OrderNotCreatedForgetting ==
    /\ lane.step = "creating"
    /\ row' = [row EXCEPT !.unknown = FALSE]
    /\ \E reply \in {"refused", "provider_unavailable"} : Release(lane.for, reply)
    /\ UNCHANGED <<laneOnly, refunds, providerVars, faults>>

\* Refused, throttled, not configured, or the terminal holds another order.
OrderNotCreated ==
    /\ lane.step = "creating"
    /\ row' = [row EXCEPT !.unknown = (lane.earlier = "unknown")]
    /\ \E reply \in {"refused", "provider_unavailable"} \union
                    (IF lane.earlier = "unknown" THEN {"created"} ELSE {}) :
        Release(lane.for, reply)
    /\ UNCHANGED <<laneOnly, refunds, providerVars, faults>>

\* The answer does not come: the call may still be processed.
CreationUnanswered ==
    /\ lane.step = "creating" /\ Fault
    /\ inflight' = inflight + 1
    /\ Release(lane.for, "provider_unavailable")
    /\ UNCHANGED <<laneOnly, row, refunds, orders, notices>>

OrderRead ==
    LET result == orders[row.order]
    IN  /\ lane.step = "reading"
        /\ Write(WithResult(result))
        /\ IF lane.job = "cancel" /\ result = "open"
           THEN lane' = [lane EXCEPT !.step = "cancelling"] /\ UNCHANGED act
           ELSE Release(lane.for, AnswerOf(lane.job, WithResult(result)))
        /\ UNCHANGED <<laneOnly, providerVars, faults>>

\* A notification answered with an error is sent again.
Renotified == IF lane.job = "notice" THEN {row.order} ELSE {}

OrderNotRead ==
    /\ lane.step = "reading" /\ Fault
    /\ notices' = notices \union Renotified
    /\ Release(lane.for, ProviderUnavailable(lane.job))
    /\ UNCHANGED <<laneOnly, row, refunds, orders, inflight>>

\* recordUnrecordedMercadoPagoOrder: of the orders found a paid one is kept, or the only one.
OrdersSearched ==
    LET Kept == IF Paid # {} THEN Paid ELSE IF Cardinality(Existing) = 1 THEN Existing ELSE {}
    IN  /\ lane.step = "searching"
        /\ \/ \E o \in Kept :
                LET after == WithOrder(o, orders[o], TRUE)
                IN  /\ row' = after
                    /\ refunds' = refunds \union LateRefund(after) \union (Paid \ {o})
                    /\ Release("nobody", "PENDING") /\ UNCHANGED faults
           \/ /\ IF Kept = {} THEN UNCHANGED faults ELSE Fault
              /\ Refresh(lane.job, "nobody")
        /\ UNCHANGED <<laneOnly, providerVars>>

\* cancelOrder: Mercado Pago may also answer that the order cannot be cancelled, as one that
\* waits at the terminal; the order is then read again.
CancellationAnswered ==
    LET o == row.order
        open == orders[o] = "open"
    IN  /\ lane.step = "cancelling"
        /\ \/ /\ open
              /\ orders' = [orders EXCEPT ![o] = "closed"] /\ notices' = notices \union {o}
              /\ Write(WithResult("closed")) /\ Release(lane.for, "CLOSED")
           \/ /\ Write(WithResult(orders[o]))
              /\ Release(lane.for, IF local.method = "POINT" /\ open THEN "cancel_on_terminal"
                                   ELSE AnswerOf("cancel", WithResult(orders[o])))
              /\ UNCHANGED <<orders, notices>>
        /\ UNCHANGED <<laneOnly, inflight, faults>>

CancellationUnanswered ==
    /\ lane.step = "cancelling" /\ Fault
    /\ \/ UNCHANGED <<orders, notices>>
       \/ /\ orders[row.order] = "open"
          /\ orders' = [orders EXCEPT ![row.order] = "closed"]
          /\ notices' = notices \union {row.order}
    /\ Release(lane.for, "unreachable")
    /\ UNCHANGED <<laneOnly, row, refunds, inflight>>

\* The holder fails between its call and what it writes: the lock goes with its session, and
\* a creation is answered with an internal error, which the register takes for a refusal.
LaneLost ==
    /\ ~LaneIsFree /\ Fault
    /\ inflight' = inflight + IF lane.step = "creating" THEN 1 ELSE 0
    /\ notices' = notices \union Renotified
    /\ \E reply \in IF lane.job = "create" THEN {"refused", "order_unreachable"}
                    ELSE {"unreachable"} : Release(lane.for, reply)
    /\ UNCHANGED <<laneOnly, row, refunds, orders>>

HolderStep == OrderCreated \/ OrderNotCreated \/ OrderRead \/ OrdersSearched \/ CancellationAnswered

HolderFault == CreationUnanswered \/ OrderNotRead \/ CancellationUnanswered \/ LaneLost

------------------------------------------------------------------------------
(* Notifications, events and time, at the cloud. *)

\* confirmMercadoPagoOrderNotification: an order no payment recorded is read at once, before
\* the lane is taken, if a payment may have an order that was not recorded (this one: that
\* another may is left out); otherwise the notification is dropped.
TakeNotice(o) ==
    /\ o \in notices /\ notices' = notices \ {o}
    /\ \/ /\ row.order = o /\ LaneIsFree
          /\ Refresh("notice", "nobody") /\ UNCHANGED notice
       \/ /\ row.order # o /\ notice = NoNotice
          /\ notice' = IF row.unknown THEN [order |-> o, result |-> orders[o]] ELSE notice
          /\ UNCHANGED <<row, refunds, lane, act>>
    /\ UNCHANGED <<registerRows, expired, saleHeld, late, orders, inflight, faults>>

\* Faulty: what was read before the lane was taken is handled as another order, without looking
\* whether the payment recorded it meanwhile.
HandleNoticeUnchecked ==
    LET o == notice.order
        result == notice.result
    IN  /\ notice # NoNotice /\ LaneIsFree /\ notice' = NoNotice
        /\ IF AwaitsUnrecordedOrder THEN Write(WithOrder(o, result, TRUE))
           ELSE /\ refunds' = refunds \union IF result = "paid" THEN {o} ELSE {}
                /\ UNCHANGED row
        /\ UNCHANGED <<lane, act, registerRows, expired, saleHeld, late, providerVars, faults>>

\* confirmOrderOfUnrecordedCreation, in the lane: what was read may be old by now.
HandleNotice ==
    LET o == notice.order
        result == notice.result
    IN  /\ notice # NoNotice /\ LaneIsFree /\ notice' = NoNotice
        /\ \/ row.order = o /\ Refresh("notice", "nobody")
           \/ /\ row.order \notin {o, NoOrder}
              /\ refunds' = refunds \union IF result = "paid" THEN {o} ELSE {}
              /\ UNCHANGED <<row, lane, act>>
           \/ /\ row.order = NoOrder
              /\ IF AwaitsUnrecordedOrder THEN Write(WithOrder(o, result, TRUE))
                 ELSE UNCHANGED <<row, refunds>>
              /\ UNCHANGED <<lane, act>>
        /\ UNCHANGED <<registerRows, expired, saleHeld, late, providerVars, faults>>

\* applyMercadoPagoPaymentReplacement, outside the lane; without the row the event waits.
ApplyReplaced ==
    /\ "replaced" \in outbox /\ row.state # "none"
    /\ outbox' = outbox \ {"replaced"}
    /\ Write([row EXCEPT !.replaced = TRUE])
    /\ UNCHANGED <<sale, local, act, sends, checked, expired, saleHeld, late, lane, notice,
                   providerVars, faults>>

\* The completed sale's payments, approved at the register, reach sale_payments; the events
\* are applied in their order.
ApplyCompleted ==
    /\ "completed" \in outbox /\ "replaced" \notin outbox
    /\ outbox' = outbox \ {"completed"} /\ saleHeld' = TRUE
    /\ UNCHANGED <<sale, local, act, sends, checked, row, expired, refunds, late, lane, notice,
                   providerVars, faults>>

\* expires_at leaves room for the longest creation call; only a payment without an order heeds it.
ExpiryPasses ==
    /\ row.state = "PENDING" /\ row.order = NoOrder /\ ~expired /\ lane.step # "creating"
    /\ expired' = TRUE
    /\ UNCHANGED <<registerVars, row, refunds, saleHeld, late, lane, notice, providerVars, faults>>

------------------------------------------------------------------------------
(* Mercado Pago and its customers. *)

Ends(o, result) ==
    /\ orders[o] = "open"
    /\ orders' = [orders EXCEPT ![o] = result] /\ notices' = notices \union {o}
    /\ UNCHANGED <<registerVars, cloudVars, inflight, faults>>

\* A creation call that nobody awaits is processed, or never was.
LateCreation ==
    /\ inflight > 0 /\ inflight' = inflight - 1
    /\ \/ UNCHANGED <<orders, notices>>
       \/ \E o \in Creatable : CreateAtProvider(o)
    /\ UNCHANGED <<registerVars, cloudVars, faults>>

------------------------------------------------------------------------------
(* The register. *)

registerOnly == <<cloudVars, providerVars, faults>>

Idle(a) == act' = [act EXCEPT ![a] = "idle"]
Ask(a, kind) == act' = [act EXCEPT ![a] = kind]

\* Faulty: a charge that was replaced can still be settled.
ChargePendingOrReplaced == local.state = "PENDING"

\* pendingCharge.
ChargePending == local.state = "PENDING" /\ ~local.replaced

\* A follow and an abandonment name the payment, which the answer of the start made known.
Started == act["charge"] \notin {"create", "created", "refused", "provider_unavailable",
                                 "order_unreachable"}

\* startMercadoPagoCharge.
Start ==
    /\ local.state = "none" /\ sale = "open" /\ sends < MaxSends
    /\ local' = [local EXCEPT !.state = "PENDING"]
    /\ Ask("charge", "create") /\ sends' = sends + 1
    /\ UNCHANGED <<sale, checked, outbox, registerOnly>>

\* recordEnded and recordWaitEnd write of a pending payment only, replaced or not.
Ended == IF local.state = "PENDING" THEN [local EXCEPT !.state = "CLOSED"] ELSE local
WaitOver(over) == IF local.state = "PENDING" THEN [local EXCEPT !.over = over] ELSE local

\* What startMercadoPagoCharge does with its answer; only what the cloud itself refused for
\* a while is sent again.
StartAnswered ==
    /\ \/ /\ act["charge"] = "created"
          /\ local' = IF local.method = "QR" THEN WaitOver(FALSE) ELSE local
          /\ Idle("charge") /\ sends' = 0
       \/ /\ act["charge"] = "refused"
          /\ local' = IF local.method = "QR" THEN WaitOver(TRUE) ELSE Ended
          /\ Idle("charge") /\ sends' = 0
       \/ /\ act["charge"] = "provider_unavailable" /\ sends < MaxSends
          /\ Ask("charge", "create") /\ sends' = sends + 1 /\ UNCHANGED local
       \/ /\ \/ act["charge"] = "order_unreachable"
             \/ act["charge"] = "provider_unavailable" /\ sends = MaxSends
          /\ local' = IF local.method = "QR" THEN WaitOver(TRUE) ELSE local
          /\ Idle("charge") /\ sends' = 0
    /\ UNCHANGED <<sale, checked, outbox, registerOnly>>

\* followMercadoPagoCharge, asked by the window and for the charges left pending at a start.
Follow ==
    /\ act["charge"] = "idle" /\ ChargePending
    /\ Ask("charge", "read")
    /\ UNCHANGED <<sale, local, sends, checked, outbox, registerOnly>>

\* abandonMercadoPagoCharge.
Abandon ==
    /\ act["abandon"] = "idle" /\ Started /\ ChargePending
    /\ Ask("abandon", "cancel")
    /\ UNCHANGED <<sale, local, sends, checked, outbox, registerOnly>>

\* settleApprovedMercadoPagoPayment: the payment is held, and if it was all that was due the
\* sale is completed.
Settle ==
    IF ChargePending /\ sale = "open"
    THEN /\ local' = [local EXCEPT !.state = "APPROVED"]
         /\ \/ sale' = "closed" /\ outbox' = outbox \union {"completed"}
            \/ UNCHANGED <<sale, outbox>>
    ELSE UNCHANGED <<local, sale, outbox>>

\* replacePendingMercadoPagoPayment.
Replace ==
    IF ChargePending /\ sale = "open"
    THEN /\ local' = [local EXCEPT !.replaced = TRUE, !.over = TRUE]
         /\ outbox' = outbox \union {"replaced"} /\ UNCHANGED sale
    ELSE UNCHANGED <<local, sale, outbox>>

\* The rest of followMercadoPagoCharge; a payment the cloud does not know is cancelled there.
FollowAnswered ==
    /\ \/ /\ act["charge"] = "not_recorded" /\ Ask("charge", "cancel")
          /\ UNCHANGED <<local, sale, outbox>>
       \/ act["charge"] = "APPROVED" /\ Settle /\ Idle("charge")
       \/ act["charge"] = "CLOSED" /\ local' = Ended /\ Idle("charge") /\ UNCHANGED <<sale, outbox>>
       \/ /\ act["charge"] \in {"PENDING", "unreachable", "cancel_on_terminal"} /\ Idle("charge")
          /\ UNCHANGED <<local, sale, outbox>>
    /\ UNCHANGED <<sends, checked, registerOnly>>

\* The rest of abandonMercadoPagoCharge: a terminal payment is replaced only when the cloud
\* says that it must be cancelled on the terminal.
AbandonAnswered ==
    /\ Idle("abandon")
    /\ \/ act["abandon"] = "APPROVED" /\ Settle
       \/ act["abandon"] = "CLOSED" /\ local' = Ended /\ UNCHANGED <<sale, outbox>>
       \/ /\ act["abandon"] \in {"unreachable", "cancel_on_terminal"}
          /\ IF local.method = "QR" \/ act["abandon"] = "cancel_on_terminal" THEN Replace
             ELSE UNCHANGED <<local, sale, outbox>>
    /\ UNCHANGED <<sends, checked, registerOnly>>

\* discoverPaidOrdersWithoutSale: at the start and after each synchronization, until one
\* handled all that the cloud listed.
Discover ==
    /\ ~checked /\ act["discovery"] = "idle"
    /\ Ask("discovery", "list")
    /\ UNCHANGED <<sale, local, sends, checked, outbox, registerOnly>>

\* approvedWithoutSaleSince.
ListPaidOrders ==
    /\ act["discovery"] = "list"
    /\ Ask("discovery", IF row.state = "APPROVED" /\ ~row.replaced /\ ~saleHeld
                        THEN "listed" ELSE "empty")
    /\ UNCHANGED <<sale, local, sends, checked, outbox, registerOnly>>

\* The listed order, by what the register keeps of its payment and of its sale.
DiscoveryAnswered ==
    /\ \/ /\ \/ act["discovery"] \in {"empty", "opened"}
             \/ act["discovery"] = "listed" /\ local.state \in {"PENDING", "APPROVED"}
          /\ Idle("discovery") /\ checked' = TRUE /\ UNCHANGED <<sale, local, outbox>>
       \/ /\ act["discovery"] = "listed" /\ local.state = "CLOSED" /\ sale = "open"
          /\ local' = [local EXCEPT !.state = "APPROVED", !.replaced = FALSE]
          /\ \/ sale' = "closed" /\ outbox' = outbox \union {"completed"}
             \/ UNCHANGED <<sale, outbox>>
          /\ Idle("discovery") /\ checked' = TRUE
       \/ /\ act["discovery"] = "listed" /\ local.state = "CLOSED" /\ sale = "closed"
          /\ Ask("discovery", "refund") /\ UNCHANGED <<sale, local, outbox, checked>>
       \/ /\ act["discovery"] \in {"not_opened", "unreachable"}
          /\ Idle("discovery") /\ UNCHANGED <<sale, local, outbox, checked>>
    /\ UNCHANGED <<sends, registerOnly>>

InProgress == ChargePending /\ (local.method = "POINT" \/ ~local.over)

\* The sale is completed by other means of payment, which a charge in progress does not admit.
CloseSale ==
    /\ sale = "open" /\ sale' = "closed"
    /\ ~InProgress
    /\ outbox' = outbox \union IF local.state = "APPROVED" THEN {"completed"} ELSE {}
    /\ UNCHANGED <<local, act, sends, checked, registerOnly>>

WaitElapses ==
    /\ local.state = "PENDING" /\ ~local.over /\ local.method = "QR"
    /\ local' = [local EXCEPT !.over = TRUE]
    /\ UNCHANGED <<sale, act, sends, checked, outbox, registerOnly>>

\* The register's patience ends: the request is lost, or still comes.
GiveUp(a) ==
    /\ act[a] \in Calls /\ Fault
    /\ act' = [act EXCEPT ![a] = IF @ = "create" THEN "order_unreachable" ELSE "unreachable"]
    /\ IF lane.for = a THEN lane' = [lane EXCEPT !.for = "nobody"] /\ UNCHANGED late
       ELSE UNCHANGED lane /\ late' \in {late, late \union ({act[a]} \ {"read", "list"})}
    /\ UNCHANGED <<sale, local, sends, checked, outbox, row, expired, refunds, saleHeld, notice,
                   providerVars>>

\* The register stops at any moment and starts again.
Restart ==
    /\ Fault /\ act' = [a \in Activity |-> "idle"] /\ checked' = FALSE /\ sends' = 0
    /\ lane' = [lane EXCEPT !.for = "nobody"]
    /\ late' \in {late, late \union ({act[a] : a \in Activity \ {lane.for}}
                                     \intersect {"create", "cancel", "refund"})}
    /\ UNCHANGED <<sale, local, outbox, row, expired, refunds, saleHeld, notice, providerVars>>

\* The register is started once more, as it is every day.
NextStart ==
    /\ checked /\ checked' = FALSE /\ \A a \in Activity : act[a] = "idle"
    /\ UNCHANGED <<sale, local, act, sends, outbox, registerOnly>>

------------------------------------------------------------------------------
Next ==
    \/ Start \/ StartAnswered \/ Follow \/ FollowAnswered \/ Abandon \/ AbandonAnswered
    \/ Discover \/ ListPaidOrders \/ DiscoveryAnswered
    \/ CloseSale \/ WaitElapses \/ Restart \/ NextStart
    \/ \E a \in Activity : GiveUp(a)
    \/ \E a \in Activity \union {"nobody"} : Begin(a)
    \/ BeginCheck \/ HolderStep \/ HolderFault
    \/ \E o \in Order : TakeNotice(o)
    \/ HandleNotice \/ ApplyReplaced \/ ApplyCompleted \/ ExpiryPasses
    \/ \E o \in Order, result \in {"paid", "closed"} : Ends(o, result)
    \/ LateCreation

Spec == Init /\ [][Next]_vars

------------------------------------------------------------------------------
\* An order that Mercado Pago created, or may still create, for the charge is the recorded one,
\* or it is recorded that another may exist: without that nobody would look for it
\* (createMercadoPagoOrder: recordOrderMayExist before the call, and what a retry must keep of it).
NoOrderOutOfSight ==
    /\ \A o \in Existing : row.order = o \/ row.unknown
    /\ inflight > 0 => row.unknown

\* A payment that the register holds for its sale is never given back, though a replacement, an
\* approval that comes late and a discovery of paid orders meet in any order
\* (settleApprovedMercadoPagoPayment, applyMercadoPagoPaymentReplacement, openLatePaymentRefund).
HeldIsNotRefunded == local.state = "APPROVED" => NoOrder \notin refunds

\* The order of the payment is not also refunded as an order that nobody recorded, whoever found
\* it first: a search, a notification read before the lane was taken, or the creation itself
\* (recordUnrecordedMercadoPagoOrder, confirmOrderOfUnrecordedCreation).
RefundedOnce == row.order \notin (refunds \ {NoOrder})

\* A QR charge that the register took for ended, so that the sale may be charged again, has
\* ended at the cloud too: a creation that comes later makes no order to pay
\* (cancelMercadoPagoOrder: recordCancelledWithoutOrder; abandonMercadoPagoCharge). A terminal's
\* charge whose start was refused is closed without asking.
EndedAgreesWithCloud ==
    local.method = "QR" /\ local.state = "CLOSED" => row.state = "CLOSED"

\* Mercado Pago will notify the order, or a check of the pending payments will come upon it.
ToBeSeen(o) ==
    \/ o \in notices \/ notice = [order |-> o, result |-> "paid"]
    \/ row.state = "PENDING" /\ (row.order = o \/ (row.order = NoOrder /\ row.unknown))

\* The register's follow, its discovery or its event that waits will settle or refund it.
ToBeSettled(o) ==
    /\ row.order = o /\ row.state = "APPROVED"
    /\ \/ ChargePending /\ sale = "open"
       \/ local.state = "CLOSED" /\ ~row.replaced /\ ~saleHeld
       \/ "replaced" \in outbox

\* The charge is still pending at the register, and its sale ended by other means: neither a
\* settlement nor a discovery takes the payment (charge_under_way).
OutOfTime(o) == row.order = o /\ row.state = "APPROVED" /\ ChargePending /\ sale = "closed"

\* No order that the customer paid is left to nobody: its sale holds it, a refund of it is open,
\* or a step that something still takes will come upon it, whatever was lost, given up on or
\* restarted in between; the one exception is OutOfTime.
NoPaymentIsForgotten ==
    \A o \in Paid :
        \/ o \in refunds
        \/ row.order = o /\ (local.state = "APPROVED" \/ NoOrder \in refunds)
        \/ ToBeSeen(o) \/ ToBeSettled(o) \/ OutOfTime(o)

\* How often an order's payment was given back: as the row's own, and as another.
TimesGiven(o) ==
    (IF o \in refunds THEN 1 ELSE 0) + (IF NoOrder \in refunds /\ row.order = o THEN 1 ELSE 0)

\* The order of which the register holds the payment for its sale.
SaleKeeps == IF local.state = "APPROVED" THEN {row.order} ELSE {}

\* What the charge does with the money is what OrderFates allows: a payment is kept or given
\* back, each once and never both, and only after its order was paid, though a search, a
\* notification, a replacement and a discovery may each come upon the order, and what
\* they read of it may be old (settleApprovedMercadoPagoPayment, openLatePaymentRefund,
\* recordUnrecordedMercadoPagoOrder, confirmOrderOfUnrecordedCreation).
Fates == INSTANCE OrderFates WITH
    paid <- Paid,
    kept <- SaleKeeps,
    timesGiven <- [o \in Order |-> TimesGiven(o)]

ImplementsOrderFates == Fates!Spec
=============================================================================
