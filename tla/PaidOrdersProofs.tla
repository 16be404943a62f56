--------------------------- MODULE PaidOrdersProofs ---------------------------
(***************************************************************************)
(* For any number of orders, attempts and faults: no order that the        *)
(* customer paid is left to nobody. Until a paid order is recorded it is   *)
(* refunded, or Mercado Pago or the cloud still has a notification of it   *)
(* (Noticed); the cloud's row ends as its order ended (RowTrue); and what  *)
(* the register and the cloud keep of the charge leaves someone to settle  *)
(* or refund a recorded one (Kept). And what the charge does with the      *)
(* money implements OrderFates: only an order that was paid is refunded    *)
(* (RefundsPaid), and a recorded order stays the recorded one.             *)
(***************************************************************************)
EXTENDS PaymentCustodyProofs

-----------------------------------------------------------------------------
(* The inductive invariant *)

Noticed ==
    \A o \in Paid : o # row.order =>
        o \in refunds \/ o \in notices \/ notice = [order |-> o, result |-> "paid"]

RowTrue ==
    /\ row.state = "CLOSED" =>
          IF row.order = NoOrder THEN ~row.unknown ELSE orders[row.order] = "closed"
    /\ row.state = "APPROVED" => row.order \in Paid
    /\ notice.result \in {"paid", "closed"} => orders[notice.order] = notice.result

Kept ==
    /\ row.replaced /\ row.state = "APPROVED" => NoOrder \in refunds
    /\ saleHeld \/ "completed" \in outbox => local.state = "APPROVED"
    /\ local.replaced => Replaced
    /\ local.state = "none" =>
          /\ row.state = "none" /\ late = {}
          /\ act["discovery"] \notin {"create", "read", "cancel"}

PInv == JInv /\ Noticed /\ RowTrue /\ Kept

LEMMA InitPaid == Init => PInv
<1> SUFFICES ASSUME Init PROVE PInv
  OBVIOUS
<1>1. /\ row = [state |-> "none", order |-> NoOrder, unknown |-> FALSE, replaced |-> FALSE]
      /\ notice = NoNotice /\ outbox = {} /\ late = {} /\ saleHeld = FALSE /\ local.replaced = FALSE
      /\ act["discovery"] = "idle"
  BY DEF Init, Activity
<1>2. Paid = {}
  BY DEF Init, Paid
<1> QED BY <1>1, <1>2, InitCustody DEF PInv, Noticed, RowTrue, Kept, NoNotice

\* Every paid order is in the care of someone.
LEMMA CareSuffices == ASSUME PInv PROVE NoPaymentIsForgotten
<1> SUFFICES ASSUME NEW o \in Paid
             PROVE  \/ o \in refunds
                    \/ row.order = o /\ (local.state = "APPROVED" \/ NoOrder \in refunds)
                    \/ ToBeSeen(o) \/ ToBeSettled(o) \/ OutOfTime(o)
  BY DEF NoPaymentIsForgotten
<1>1. o \in Order /\ orders[o] = "paid"
  BY DEF Paid
<1>2. CASE row.order # o
  BY <1>2 DEF PInv, Noticed, ToBeSeen
<1>3. CASE row.order = o
  <2>1. row.state # "CLOSED" /\ row.state # "none"
    BY <1>1, <1>3, NoOrderIsNone DEF PInv, RowTrue, JInv, IInv, Sight
  <2>2. row.state \in {"PENDING", "APPROVED"}
    BY <2>1 DEF PInv, JInv, IInv, TypeOK, States
  <2>3. CASE row.state = "PENDING"
    BY <1>3, <2>3 DEF ToBeSeen
  <2>4. CASE row.state = "APPROVED"
    <3>1. local.state \in {"PENDING", "APPROVED", "CLOSED"} /\ sale \in {"open", "closed"}
      BY <2>4 DEF PInv, Kept, JInv, IInv, TypeOK, States
    <3>2. Replaced => "replaced" \in outbox \/ NoOrder \in refunds
      BY <2>4 DEF Replaced, PInv, Kept
    <3>3. CASE local.state = "PENDING"
      BY <1>3, <2>4, <3>1, <3>2, <3>3
         DEF PInv, Kept, ToBeSettled, OutOfTime, ChargePending
    <3>4. CASE local.state = "CLOSED"
      BY <1>3, <2>4, <3>2, <3>4 DEF PInv, Kept, Replaced, ToBeSettled
    <3> QED BY <1>3, <3>1, <3>3, <3>4
  <2> QED BY <2>2, <2>3, <2>4
<1> QED BY <1>2, <1>3

-----------------------------------------------------------------------------
(* The steps of the register *)

\* What the register holds it holds for good, and a sale that reaches the cloud with the payment
\* holds it; a payment is replaced with an event that says so.
LEMMA RegisterKeepsPaid ==
    ASSUME PInv, JInv', UNCHANGED registerOnly,
           local.state = "APPROVED" => local'.state = "APPROVED",
           "completed" \in outbox' => "completed" \in outbox \/ local'.state = "APPROVED",
           local'.replaced => local.replaced \/ "replaced" \in outbox', outbox \subseteq outbox',
           local'.state = "none" => local.state = "none",
           act'["discovery"] = act["discovery"]
              \/ act'["discovery"] \notin {"create", "read", "cancel"}
    PROVE  PInv'
<1>1. UNCHANGED <<row, refunds, notices, notice, orders, saleHeld, late>>
  BY DEF registerOnly, cloudVars, providerVars
<1>2. Paid' = Paid
  BY <1>1 DEF Paid
<1>3. Noticed' /\ RowTrue'
  BY <1>1, <1>2 DEF PInv, Noticed, RowTrue
<1>4. Replaced => Replaced'
  BY <1>1 DEF Replaced
<1>5. "replaced" \in outbox' => Replaced'
  BY DEF Replaced
<1>6. Kept'
  BY <1>1, <1>4, <1>5 DEF PInv, Kept
<1> QED BY <1>3, <1>6 DEF PInv

LEMMA RegisterStepsKeepPaid ==
    ASSUME PInv,
           \/ Start \/ StartAnswered \/ Follow \/ FollowAnswered \/ Abandon \/ AbandonAnswered
           \/ Discover \/ ListPaidOrders \/ DiscoveryAnswered
           \/ CloseSale \/ WaitElapses \/ NextStart
    PROVE  PInv'
<1>1. JInv'
  BY StartKeepsCustody, StartAnsweredKeepsCustody, FollowKeepsCustody, AbandonKeepsCustody,
     FollowAnsweredKeepsCustody, AbandonAnsweredKeepsCustody, DiscoverKeepsCustody,
     DiscoveryAnsweredKeepsCustody, AsideKeepsCustody DEF PInv
<1>2. UNCHANGED registerOnly
  BY DEF Start, StartAnswered, Follow, FollowAnswered, Abandon, AbandonAnswered, Discover,
     ListPaidOrders, DiscoveryAnswered, CloseSale, WaitElapses, NextStart
<1>3. /\ local \in [state : States, method : {"QR", "POINT"}, replaced : BOOLEAN, over : BOOLEAN]
      /\ act \in ActSet
  BY LocalTyped DEF PInv, JInv, IInv, TypeOK, ActSet
<1>4. \/ UNCHANGED act
      \/ \E a \in {"charge", "abandon"} : \E v : act' = [act EXCEPT ![a] = v]
      \/ \E v \in {"idle", "list", "listed", "empty", "refund"} :
            act' = [act EXCEPT !["discovery"] = v]
  BY DEF Start, StartAnswered, Follow, FollowAnswered, Abandon, AbandonAnswered, Discover,
     ListPaidOrders, DiscoveryAnswered, CloseSale, WaitElapses, NextStart, Idle, Ask
<1>5. act'["discovery"] = act["discovery"]
         \/ act'["discovery"] \notin {"create", "read", "cancel"}
  BY <1>3, <1>4 DEF ActSet, Activity
<1>6. \/ UNCHANGED <<local, outbox>>
      \/ local' \in {Ended, WaitOver(FALSE), WaitOver(TRUE)} /\ UNCHANGED outbox
      \/ local.state = "none" /\ local' = [local EXCEPT !.state = "PENDING"] /\ UNCHANGED outbox
      \/ local' = [local EXCEPT !.over = TRUE] /\ UNCHANGED outbox
      \/ Settle \/ Replace
      \/ /\ local' = [local EXCEPT !.state = "APPROVED", !.replaced = FALSE]
         /\ outbox' \in {outbox, outbox \union {"completed"}}
      \/ UNCHANGED local /\ outbox' = outbox \union (IF local.state = "APPROVED" THEN {"completed"} ELSE {})
  BY DEF Start, StartAnswered, Follow, FollowAnswered, Abandon, AbandonAnswered, Discover,
     ListPaidOrders, DiscoveryAnswered, CloseSale, WaitElapses, NextStart
<1>7. /\ local.state = "APPROVED" => local'.state = "APPROVED"
      /\ "completed" \in outbox' => "completed" \in outbox \/ local'.state = "APPROVED"
      /\ local'.replaced => local.replaced \/ "replaced" \in outbox'
      /\ outbox \subseteq outbox'
      /\ local'.state = "none" => local.state = "none"
  <2>1. CASE Settle
    BY <1>3, <2>1 DEF Settle, ChargePending
  <2>2. CASE Replace
    BY <1>3, <2>2 DEF Replace, ChargePending
  <2>3. CASE local' \in {Ended, WaitOver(FALSE), WaitOver(TRUE)} /\ UNCHANGED outbox
    BY <1>3, <2>3 DEF Ended, WaitOver
  <2> QED BY <1>3, <1>6, <2>1, <2>2, <2>3
<1> QED BY <1>1, <1>2, <1>5, <1>7, RegisterKeepsPaid

-----------------------------------------------------------------------------
(* What the steps of the cloud have in common *)

OrdersSteady == \A o \in Order : orders[o] \in {"paid", "closed"} => orders'[o] = orders[o]

\* What the row says after a step: nothing new, that it waits, that it ended as its order did,
\* or that it ended with no order to end.
RowAgrees ==
    \/ row'.state = row.state /\ row'.order = row.order /\ row'.unknown = row.unknown
    \/ row'.state \in {"none", "PENDING"}
    \/ /\ row'.order \in Order /\ orders'[row'.order] \in Results
       /\ row'.state = StateOf[orders'[row'.order]]
    \/ row'.state = "CLOSED" /\ row'.order = NoOrder /\ ~row'.unknown

PaysBack == row'.replaced /\ row'.state = "APPROVED" => NoOrder \in refunds'

LEMMA RowStaysTrue ==
    ASSUME PInv, JInv', OrdersSteady, notice' \in {notice, NoNotice}, RowAgrees
    PROVE  RowTrue'
<1>1. notice'.result \in {"paid", "closed"} => orders'[notice'.order] = notice'.result
  <2>1. CASE notice' = NoNotice
    BY <2>1 DEF NoNotice
  <2>2. CASE notice' = notice /\ notice # NoNotice
    <3>1. notice.order \in Order
      BY <2>2 DEF PInv, JInv, IInv, Sight, Existing
    <3> QED BY <2>2, <3>1 DEF PInv, RowTrue, OrdersSteady
  <2> QED BY <2>1, <2>2
<1>2. row \in RowSet /\ row' \in RowSet
  BY DEF PInv, JInv, IInv, TypeOK, RowSet
<1>3. CASE row'.state = row.state /\ row'.order = row.order /\ row'.unknown = row.unknown
  BY <1>1, <1>2, <1>3 DEF PInv, RowTrue, OrdersSteady, RowSet, Paid
<1>4. CASE row'.state \in {"none", "PENDING"}
  BY <1>1, <1>4 DEF RowTrue
<1>5. CASE /\ row'.order \in Order /\ orders'[row'.order] \in Results
           /\ row'.state = StateOf[orders'[row'.order]]
  BY <1>1, <1>5, NoOrderIsNone DEF RowTrue, StateOf, Results, Paid
<1>6. CASE row'.state = "CLOSED" /\ row'.order = NoOrder /\ ~row'.unknown
  BY <1>1, <1>6 DEF RowTrue
<1> QED BY <1>3, <1>4, <1>5, <1>6 DEF RowAgrees

LEMMA CloudStepKeeps ==
    ASSUME PInv, local.state # "none", UNCHANGED local, outbox' \subseteq outbox,
           saleHeld' => saleHeld \/ "completed" \in outbox, Replaced' <=> Replaced, PaysBack
    PROVE  Kept'
BY DEF PInv, Kept, PaysBack

\* A step that reads no notification.
LEMMA CloudKeepsPaid ==
    ASSUME PInv, JInv', local.state # "none", UNCHANGED <<local, saleHeld, outbox, notice>>,
           row'.replaced = row.replaced, refunds \subseteq refunds', notices \subseteq notices',
           Paid' \subseteq Paid, row'.order = row.order \/ row.order = NoOrder,
           OrdersSteady, RowAgrees, PaysBack
    PROVE  PInv'
<1>1. \A o \in Paid' : o \in Paid /\ (row.order = NoOrder => o # row.order)
  BY NoOrderIsNone DEF Paid
<1>2. Noticed'
  BY <1>1 DEF PInv, Noticed
<1>3. RowTrue'
  BY RowStaysTrue
<1>4. Kept'
  BY ReplacedKept, CloudStepKeeps
<1> QED BY <1>2, <1>3, <1>4 DEF PInv

\* Nothing of the charge is at the cloud before it is started.
LEMMA NothingBeforeStart ==
    ASSUME PInv, local.state = "none"
    PROVE  /\ row.state = "none" /\ Existing = {} /\ inflight = 0 /\ late = {} /\ ~RefundAsked
           /\ lane.step = "free" /\ notices = {} /\ notice = NoNotice /\ outbox \subseteq {"replaced"}
           /\ \A a \in Activity : act[a] \notin {"create", "read", "cancel", "refund"}
<1>1. row.state = "none" /\ late = {} /\ row.order = NoOrder /\ ~row.unknown
  BY DEF PInv, Kept, JInv, IInv, Sight
<1>2. Existing = {} /\ inflight = 0
  BY <1>1, NothingExists DEF PInv, JInv
<1>3. notices = {} /\ notice = NoNotice
  BY <1>2 DEF PInv, JInv, IInv, Sight
<1>4. lane.step = "free"
  BY <1>1 DEF PInv, JInv, IInv, TypeOK, Holder, AwaitsUnrecordedOrder
<1>5. ~RefundAsked /\ outbox \subseteq {"replaced"}
  BY DEF PInv, Kept, JInv, IInv, TypeOK, Custody, ChargedOtherwise
<1>6. \A a \in Activity : act[a] \notin {"create", "read", "cancel", "refund"}
  BY <1>5 DEF PInv, Kept, JInv, Answers, RefundAsked, Activity
<1> QED BY <1>1, <1>2, <1>3, <1>4, <1>5, <1>6

LEMMA WritePaysBack ==
    ASSUME NEW r, Write(r)
    PROVE  PaysBack /\ refunds \subseteq refunds' /\ row' = r
BY DEF Write, LateRefund, PaysBack

LEMMA SameRowPaysBack ==
    ASSUME PInv, row'.replaced = row.replaced, refunds \subseteq refunds',
           row'.state \in {row.state, "none", "PENDING", "CLOSED"}
    PROVE  PaysBack
BY DEF PInv, Kept, PaysBack

LEMMA RefreshAgrees ==
    ASSUME PInv, NEW job, NEW a, Refresh(job, a)
    PROVE  /\ RowAgrees /\ PaysBack /\ row'.order = row.order /\ row'.replaced = row.replaced
           /\ refunds' = refunds
<1>1. row \in RowSet /\ refunds' = refunds
  BY DEF PInv, JInv, IInv, TypeOK, RowSet, Refresh
<1>2. \/ row' = row
      \/ /\ row' = [row EXCEPT !.state = "CLOSED"]
         /\ row.order = NoOrder /\ ~row.unknown
  BY DEF Refresh, AfterExpiry
<1>3. /\ row'.order = row.order /\ row'.replaced = row.replaced /\ row'.unknown = row.unknown
      /\ \/ row'.state = row.state
         \/ row'.state = "CLOSED" /\ row.order = NoOrder /\ ~row.unknown
  BY <1>1, <1>2 DEF RowSet
<1> QED BY <1>1, <1>3, SameRowPaysBack DEF RowAgrees

LEMMA SameOrders == ASSUME UNCHANGED orders PROVE OrdersSteady /\ Paid' = Paid
BY DEF OrdersSteady, Paid

\* A created order is open, or the one that was there.
LEMMA CreationSteady ==
    ASSUME PInv, NEW o \in Creatable, CreateAtProvider(o)
    PROVE  OrdersSteady /\ Paid' \subseteq Paid /\ notices \subseteq notices'
<1>1. o \in Order /\ orders \in [Order -> {"none", "open", "paid", "closed"}]
  BY CreationSpec DEF PInv, JInv, IInv, TypeOK
<1>2. /\ orders' = [orders EXCEPT ![o] = IF orders[o] = "none" THEN "open" ELSE orders[o]]
      /\ notices \subseteq notices'
  BY DEF CreateAtProvider
<1>3. \A p \in Order : orders'[p] = orders[p] \/ (orders[p] = "none" /\ orders'[p] = "open")
  BY <1>1, <1>2
<1> QED BY <1>2, <1>3 DEF OrdersSteady, Paid

LEMMA ClosedSteady ==
    ASSUME PInv, NEW o \in Order, orders[o] = "open", orders' = [orders EXCEPT ![o] = "closed"]
    PROVE  OrdersSteady /\ Paid' \subseteq Paid
<1>1. \A p \in Order : orders'[p] = IF p = o THEN "closed" ELSE orders[p]
  BY DEF PInv, JInv, IInv, TypeOK
<1> QED BY <1>1 DEF OrdersSteady, Paid

LEMMA ResultState ==
    ASSUME PInv, NEW result \in Results
    PROVE  WithResult(result).state = StateOf[result] /\ WithResult(result).order = row.order
<1>1. row \in RowSet
  BY DEF PInv, JInv, IInv, TypeOK, RowSet
<1> QED BY <1>1 DEF WithResult, RowSet, StateOf, Results

LEMMA RowTyped == ASSUME PInv PROVE row \in RowSet
BY DEF PInv, JInv, IInv, TypeOK, RowSet

-----------------------------------------------------------------------------
(* The steps of the cloud *)

LEMMA BeginKeepsPaid == ASSUME PInv, NEW a \in Someone, Begin(a) PROVE PInv'
<1>1. JInv' /\ row \in RowSet
  BY BeginKeepsCustody DEF PInv, JInv, IInv, TypeOK, RowSet
<1>2. /\ UNCHANGED <<local, outbox, saleHeld, notice, orders, notices>>
      /\ \E kind \in {"create", "read", "cancel", "refund"} : Taken(kind, a)
  BY DEF Begin, BeginCreate, BeginRead, BeginCancel, BeginRefund, registerRows, providerVars
<1>3. local.state # "none"
  BY <1>2, NothingBeforeStart DEF Taken, Someone
<1>4. /\ RowAgrees /\ PaysBack /\ row'.order = row.order /\ row'.replaced = row.replaced
      /\ refunds \subseteq refunds'
  <2>1. CASE \E kind : Refresh(kind, a)
    BY <2>1, RefreshAgrees
  <2>2. CASE row' = [row EXCEPT !.state = "PENDING", !.unknown = TRUE] /\ UNCHANGED refunds
    <3>1. row'.state = "PENDING" /\ row'.order = row.order /\ row'.replaced = row.replaced
      BY <1>1, <2>2 DEF RowSet
    <3> QED BY <2>2, <3>1, SameRowPaysBack DEF RowAgrees
  <2>3. CASE UNCHANGED <<row, refunds>>
    BY <2>3, SameRowPaysBack DEF RowAgrees
  <2>4. CASE row.state = "none" /\ row' = [row EXCEPT !.state = "CLOSED"] /\ UNCHANGED refunds
    <3>1. row.order = NoOrder /\ ~row.unknown
      BY <2>4 DEF PInv, JInv, IInv, Sight
    <3>2. /\ row'.state = "CLOSED" /\ row'.order = row.order /\ row'.unknown = row.unknown
          /\ row'.replaced = row.replaced
      BY <1>1, <2>4 DEF RowSet
    <3> QED BY <2>4, <3>1, <3>2, SameRowPaysBack DEF RowAgrees
  <2>5. CASE UNCHANGED row /\ refunds \subseteq refunds'
    BY <2>5, SameRowPaysBack DEF RowAgrees
  <2>6. CASE BeginCreate(a)
    BY <2>1, <2>2, <2>6 DEF BeginCreate
  <2>7. CASE BeginRead(a)
    BY <2>1, <2>3, <2>7 DEF BeginRead
  <2>8. CASE BeginCancel(a)
    BY <2>1, <2>4, <2>8 DEF BeginCancel
  <2>9. CASE BeginRefund(a)
    BY <2>5, <2>9 DEF BeginRefund
  <2> QED BY <2>6, <2>7, <2>8, <2>9 DEF Begin
<1> QED BY <1>1, <1>2, <1>3, <1>4, SameOrders, CloudKeepsPaid

LEMMA BeginCheckKeepsPaid == ASSUME PInv, BeginCheck PROVE PInv'
<1> DEFINE job == IF row.replaced THEN "cancel" ELSE "read"
<1>1. JInv' /\ UNCHANGED <<local, outbox, saleHeld, notice, orders, notices>>
  BY BeginCheckKeepsCustody DEF PInv, BeginCheck, registerRows, providerVars
<1>2. local.state # "none"
  BY NothingBeforeStart DEF BeginCheck
<1>3. /\ RowAgrees /\ PaysBack /\ row'.order = row.order /\ row'.replaced = row.replaced
      /\ refunds \subseteq refunds'
  <2>1. CASE UNCHANGED <<row, refunds>>
    BY <2>1, SameRowPaysBack DEF RowAgrees
  <2>2. CASE Refresh(job, "nobody")
    BY <2>2, RefreshAgrees
  <2> QED BY <2>1, <2>2 DEF BeginCheck
<1> QED BY <1>1, <1>2, <1>3, SameOrders, CloudKeepsPaid

\* The holder works on a charge that was started, and takes no notification.
LEMMA HolderKeepsPaid ==
    ASSUME PInv, JInv', lane.step # "free", UNCHANGED laneOnly, row'.replaced = row.replaced,
           refunds \subseteq refunds', notices \subseteq notices', Paid' \subseteq Paid,
           row'.order = row.order \/ row.order = NoOrder, OrdersSteady, RowAgrees, PaysBack
    PROVE  PInv'
<1>1. local.state # "none"
  BY NothingBeforeStart
<1>2. UNCHANGED <<local, saleHeld, outbox, notice>>
  BY DEF laneOnly, registerRows
<1> QED BY <1>1, <1>2, CloudKeepsPaid

LEMMA OrderCreatedKeepsPaid == ASSUME PInv, OrderCreated PROVE PInv'
<1>1. /\ JInv' /\ UNCHANGED laneOnly /\ lane.step # "free"
      /\ row \in RowSet /\ row.order = NoOrder /\ row.state = "PENDING"
  BY CreationKeepsCustody
     DEF PInv, OrderCreated, JInv, IInv, TypeOK, RowSet, Holder, AwaitsUnrecordedOrder
<1>2. PICK o \in Creatable :
        /\ CreateAtProvider(o)
        /\ \/ Write(WithOrder(o, orders'[o], FALSE))
           \/ row' = [row EXCEPT !.order = o, !.unknown = (lane.earlier = "unknown")] /\ UNCHANGED refunds
  BY DEF OrderCreated
<1>3. /\ OrdersSteady /\ Paid' \subseteq Paid /\ notices \subseteq notices'
      /\ o \in Order /\ orders'[o] \in Results
  BY <1>2, CreationSteady, CreationSpec DEF PInv, JInv
<1>4. RowAgrees /\ PaysBack /\ row'.replaced = row.replaced /\ refunds \subseteq refunds'
  <2>1. CASE Write(WithOrder(o, orders'[o], FALSE))
    <3>1. row' = WithOrder(o, orders'[o], FALSE) /\ PaysBack /\ refunds \subseteq refunds'
      BY <2>1, WritePaysBack
    <3>2. row'.state = StateOf[orders'[o]] /\ row'.order = o /\ row'.replaced = row.replaced
      <4> DEFINE result == orders'[o]
                 after == WithOrder(o, result, FALSE)
      <4>1. result \in Results /\ row' = after
        BY <1>3, <3>1
      <4> HIDE DEF result
      <4>2. after.state = StateOf[result] /\ after.order = o /\ after.replaced = row.replaced
        BY <4>1, RowTyped DEF WithOrder, RowSet, StateOf, Results
      <4> HIDE DEF after
      <4>3. row'.state = StateOf[result] /\ row'.order = o /\ row'.replaced = row.replaced
        BY <4>1, <4>2
      <4> QED BY <4>3 DEF result
    <3> QED BY <1>3, <3>1, <3>2 DEF RowAgrees
  <2>2. CASE /\ row' = [row EXCEPT !.order = o, !.unknown = (lane.earlier = "unknown")]
             /\ UNCHANGED refunds
    <3>1. row'.state = "PENDING" /\ row'.replaced = row.replaced
      BY <1>1, <2>2 DEF RowSet
    <3> QED BY <2>2, <3>1, SameRowPaysBack DEF RowAgrees
  <2> QED BY <1>2, <2>1, <2>2
<1> QED BY <1>1, <1>3, <1>4, HolderKeepsPaid

\* The holder learns nothing of an order.
LEMMA NothingLearntKeepsPaid ==
    ASSUME PInv,
           OrderNotCreated \/ CreationUnanswered \/ OrderNotRead \/ CancellationUnanswered \/ LaneLost
    PROVE  PInv'
<1>1. /\ JInv' /\ UNCHANGED <<laneOnly, refunds>> /\ lane.step # "free" /\ row \in RowSet
      /\ notices \subseteq notices'
  BY CreationKeepsCustody, NotAnsweredKeepsCustody
     DEF PInv, JInv, IInv, TypeOK, RowSet, OrderNotCreated, CreationUnanswered, OrderNotRead,
         CancellationUnanswered, LaneLost, LaneIsFree, providerVars
<1>2. row' = row \/ (row.state = "PENDING" /\ row' = [row EXCEPT !.unknown = (lane.earlier = "unknown")])
  BY DEF PInv, JInv, IInv, Holder, AwaitsUnrecordedOrder, OrderNotCreated, CreationUnanswered,
         OrderNotRead, CancellationUnanswered, LaneLost
<1>3. /\ row'.state = row.state /\ row'.order = row.order /\ row'.replaced = row.replaced
      /\ row'.unknown = row.unknown \/ row'.state = "PENDING"
  BY <1>1, <1>2 DEF RowSet
<1>4. RowAgrees /\ PaysBack
  BY <1>1, <1>3, SameRowPaysBack DEF RowAgrees
<1>5. OrdersSteady /\ Paid' \subseteq Paid
  <2>1. CASE UNCHANGED orders
    BY <2>1, SameOrders
  <2>2. CASE CancellationUnanswered /\ ~UNCHANGED orders
    <3>1. row.order \in Order
      BY <2>2, OrderInHand DEF CancellationUnanswered, PInv, JInv
    <3> QED BY <2>2, <3>1, ClosedSteady DEF CancellationUnanswered
  <2> QED BY <2>1, <2>2 DEF OrderNotCreated, CreationUnanswered, OrderNotRead, LaneLost, providerVars
<1> QED BY <1>1, <1>3, <1>4, <1>5, HolderKeepsPaid

LEMMA OrderReadKeepsPaid == ASSUME PInv, OrderRead PROVE PInv'
<1> DEFINE result == orders[row.order]
<1>1. /\ JInv' /\ UNCHANGED <<laneOnly, orders, notices>> /\ lane.step = "reading"
      /\ Write(WithResult(result))
  BY OrderReadKeepsCustody DEF PInv, OrderRead, providerVars
<1>2. row.order \in Order /\ result \in Results
  BY <1>1, OrderInHand DEF PInv, JInv
<1>3. row' = WithResult(result) /\ PaysBack /\ refunds \subseteq refunds'
  BY <1>1, WritePaysBack
<1>4. /\ row'.state = StateOf[result] /\ row'.order = row.order /\ row'.replaced = row.replaced
  BY <1>2, <1>3, ResultState, ResultKeepsReplaced DEF PInv
<1>5. RowAgrees
  BY <1>1, <1>2, <1>4 DEF RowAgrees
<1> QED BY <1>1, <1>3, <1>4, <1>5, SameOrders, HolderKeepsPaid

LEMMA OrdersSearchedKeepsPaid == ASSUME PInv, OrdersSearched PROVE PInv'
<1>1. /\ JInv' /\ UNCHANGED <<laneOnly, orders, notices>> /\ lane.step # "free"
      /\ row.order = NoOrder
  BY OrdersSearchedKeepsCustody
     DEF PInv, OrdersSearched, providerVars, JInv, IInv, Holder, AwaitsUnrecordedOrder
<1>2. CASE \E o \in Existing : LET after == WithOrder(o, orders[o], TRUE)
                               IN  /\ row' = after
                                   /\ refunds' = refunds \union LateRefund(after) \union (Paid \ {o})
  <2>1. PICK o \in Existing :
          /\ row' = WithOrder(o, orders[o], TRUE)
          /\ refunds' = refunds \union LateRefund(row') \union (Paid \ {o})
    BY <1>2
  <2>2. o \in Order /\ orders[o] \in Results
    BY DEF Existing, PInv, JInv, IInv, TypeOK, Results
  <2>3. row'.state = StateOf[orders[o]] /\ row'.order = o /\ row'.replaced = row.replaced
    <3> DEFINE result == orders[o]
               after == WithOrder(o, result, TRUE)
    <3>1. result \in Results /\ row' = after
      BY <2>1, <2>2
    <3> HIDE DEF result
    <3>2. after.state = StateOf[result] /\ after.order = o /\ after.replaced = row.replaced
      BY <3>1, RowTyped DEF WithOrder, RowSet, StateOf, Results
    <3> HIDE DEF after
    <3>3. row'.state = StateOf[result] /\ row'.order = o /\ row'.replaced = row.replaced
      BY <3>1, <3>2
    <3> QED BY <3>3 DEF result
  <2>4. RowAgrees
    BY <1>1, <2>2, <2>3 DEF RowAgrees
  <2>5. PaysBack /\ refunds \subseteq refunds'
    BY <2>1 DEF PaysBack, LateRefund
  <2> QED BY <1>1, <2>3, <2>4, <2>5, SameOrders, HolderKeepsPaid
<1>3. CASE Refresh(lane.job, "nobody")
  BY <1>1, <1>3, RefreshAgrees, SameOrders, HolderKeepsPaid
<1>4. Paid \subseteq Existing
  BY DEF Paid, Existing
<1> QED BY <1>2, <1>3, <1>4 DEF OrdersSearched

LEMMA CancellationAnsweredKeepsPaid == ASSUME PInv, CancellationAnswered PROVE PInv'
<1>1. JInv' /\ UNCHANGED laneOnly /\ lane.step = "cancelling"
  BY CancellationAnsweredKeepsCustody DEF PInv, CancellationAnswered
<1>2. row.order \in Order /\ orders[row.order] \in Results
  BY <1>1, OrderInHand DEF PInv, JInv
<1>3. PICK result \in Results :
        /\ Write(WithResult(result)) /\ notices \subseteq notices'
        /\ orders'[row.order] = result /\ OrdersSteady /\ Paid' \subseteq Paid
  <2>1. CASE /\ orders[row.order] = "open"
             /\ orders' = [orders EXCEPT ![row.order] = "closed"]
             /\ notices' = notices \union {row.order} /\ Write(WithResult("closed"))
    <3>1. orders'[row.order] = "closed"
      BY <1>2, <2>1 DEF PInv, JInv, IInv, TypeOK
    <3> QED BY <1>2, <2>1, <3>1, ClosedSteady DEF Results
  <2>2. CASE Write(WithResult(orders[row.order])) /\ UNCHANGED <<orders, notices>>
    BY <1>2, <2>2, SameOrders
  <2> QED BY <2>1, <2>2 DEF CancellationAnswered
<1>4. row' = WithResult(result) /\ PaysBack /\ refunds \subseteq refunds'
  BY <1>3, WritePaysBack
<1>5. row'.state = StateOf[result] /\ row'.order = row.order /\ row'.replaced = row.replaced
  BY <1>4, ResultState, ResultKeepsReplaced DEF PInv
<1>6. RowAgrees
  BY <1>2, <1>3, <1>5 DEF RowAgrees
<1> QED BY <1>1, <1>3, <1>4, <1>5, <1>6, HolderKeepsPaid

-----------------------------------------------------------------------------
(* Notifications, events and time, and the orders of Mercado Pago *)

LEMMA TakeNoticeKeepsPaid == ASSUME PInv, NEW o \in Order, TakeNotice(o) PROVE PInv'
<1>1. /\ JInv' /\ UNCHANGED <<local, outbox, saleHeld, orders>>
      /\ o \in notices /\ notices' = notices \ {o}
  BY NoticeKeepsCustody DEF PInv, TakeNotice, registerRows
<1>2. local.state # "none" /\ o \in Existing
  BY <1>1, NothingBeforeStart DEF PInv, JInv, IInv, Sight
<1>3. OrdersSteady /\ Paid' = Paid
  BY <1>1, SameOrders
<1>4. CASE row.order = o /\ Refresh("notice", "nobody") /\ UNCHANGED notice
  <2>1. /\ RowAgrees /\ PaysBack /\ row'.order = row.order /\ row'.replaced = row.replaced
        /\ refunds' = refunds
    BY <1>4, RefreshAgrees
  <2>2. Noticed'
    BY <1>1, <1>3, <1>4, <2>1 DEF PInv, Noticed
  <2>3. RowTrue'
    BY <1>1, <1>3, <1>4, <2>1, RowStaysTrue
  <2>4. Kept'
    BY <1>1, <1>2, <2>1, ReplacedKept, CloudStepKeeps
  <2> QED BY <1>1, <2>2, <2>3, <2>4 DEF PInv
<1>5. CASE /\ row.order # o /\ notice = NoNotice
           /\ notice' = IF row.unknown THEN [order |-> o, result |-> orders[o]] ELSE notice
           /\ UNCHANGED <<row, refunds, lane, act>>
  <2>1. row.unknown
    BY <1>2, <1>5 DEF PInv, JInv, IInv, Sight, NoOrderOutOfSight
  <2>2. notice' = [order |-> o, result |-> orders[o]]
    BY <1>5, <2>1
  <2>3. \A p \in Paid : notice # [order |-> p, result |-> "paid"]
    BY <1>5 DEF NoNotice
  <2>4. Noticed'
    BY <1>1, <1>3, <1>5, <2>2, <2>3 DEF PInv, Noticed, Paid
  <2>5. RowTrue'
    BY <1>1, <1>3, <1>5, <2>2 DEF PInv, RowTrue, Paid
  <2>6. Kept'
    BY <1>1, <1>2, <1>5, ReplacedKept, SameRowPaysBack, CloudStepKeeps
  <2> QED BY <1>1, <2>4, <2>5, <2>6 DEF PInv
<1> QED BY <1>4, <1>5 DEF TakeNotice

LEMMA HandleNoticeKeepsPaid == ASSUME PInv, HandleNotice PROVE PInv'
<1> DEFINE o == notice.order
           result == notice.result
<1>1. /\ JInv' /\ UNCHANGED <<local, outbox, saleHeld, orders, notices>>
      /\ notice # NoNotice /\ notice' = NoNotice
  BY NoticeKeepsCustody DEF PInv, HandleNotice, registerRows, providerVars
<1>2. /\ local.state # "none" /\ o \in Existing /\ o \in Order /\ result \in Results
      /\ notice = [order |-> o, result |-> result]
  <2>1. local.state # "none" /\ notice \in NoticeSet /\ o \in Existing /\ result # "none"
    BY <1>1, NothingBeforeStart DEF PInv, JInv, IInv, Sight, TypeOK, NoticeSet
  <2> QED BY <2>1 DEF NoticeSet, Results, Existing
<1>3. OrdersSteady /\ Paid' = Paid
  BY <1>1, SameOrders
<1>4. \A p : notice = [order |-> p, result |-> "paid"] => p = o /\ result = "paid"
  OBVIOUS
<1> HIDE DEF o, result
<1>5. /\ row'.replaced = row.replaced /\ PaysBack /\ Noticed'
      /\ RowAgrees
  <2>1. CASE row.order = o /\ Refresh("notice", "nobody")
    <3>1. /\ RowAgrees /\ PaysBack /\ row'.order = row.order /\ row'.replaced = row.replaced
          /\ refunds' = refunds
      BY <2>1, RefreshAgrees
    <3> QED BY <1>1, <1>3, <1>4, <2>1, <3>1 DEF PInv, Noticed
  <2>2. CASE /\ row.order \notin {o, NoOrder}
             /\ refunds' = refunds \union IF result = "paid" THEN {o} ELSE {}
             /\ UNCHANGED <<row, lane, act>>
    <3>1. Noticed'
      BY <1>1, <1>3, <1>4, <2>2 DEF PInv, Noticed
    <3> QED BY <2>2, <3>1, SameRowPaysBack DEF RowAgrees
  <2>3. CASE row.order = NoOrder /\ AwaitsUnrecordedOrder /\ Write(WithOrder(o, result, TRUE))
    <3>1. row' = WithOrder(o, result, TRUE) /\ PaysBack /\ refunds \subseteq refunds'
      BY <2>3, WritePaysBack
    <3>2. row'.state = StateOf[result] /\ row'.order = o /\ row'.replaced = row.replaced
      <4> DEFINE after == WithOrder(o, result, TRUE)
      <4>1. result \in Results /\ row' = after
        BY <1>2, <3>1
      <4>2. after.state = StateOf[result] /\ after.order = o /\ after.replaced = row.replaced
        BY <4>1, RowTyped DEF WithOrder, RowSet, StateOf, Results
      <4> HIDE DEF after
      <4> QED BY <4>1, <4>2
    <3>3. \A p \in Paid : p # NoOrder
      BY NoOrderIsNone DEF Paid
    <3>4. Noticed'
      BY <1>1, <1>3, <1>4, <2>3, <3>1, <3>2, <3>3 DEF PInv, Noticed
    <3>5. RowAgrees
      <4>1. CASE result = "open"
        BY <3>2, <4>1 DEF RowAgrees, StateOf
      <4>2. CASE result # "open"
        <5>1. orders[o] = result
          BY <1>2, <4>2 DEF PInv, RowTrue, Results, o, result
        <5> QED BY <1>1, <1>2, <3>2, <5>1 DEF RowAgrees
      <4> QED BY <4>1, <4>2
    <3> QED BY <3>1, <3>2, <3>4, <3>5
  <2>4. CASE row.order = NoOrder /\ ~AwaitsUnrecordedOrder /\ UNCHANGED <<row, refunds>>
    <3>1. row.unknown
      BY <1>2, <2>4, NoOrderIsNone DEF PInv, JInv, IInv, Sight, NoOrderOutOfSight
    <3>2. row.state \in States
      BY DEF PInv, JInv, IInv, TypeOK
    <3>3. FALSE
      BY <2>4, <3>1, <3>2, NoOrderIsNone
         DEF PInv, RowTrue, JInv, IInv, Sight, States, AwaitsUnrecordedOrder, Paid
    <3> QED BY <3>3
  <2> QED BY <2>1, <2>2, <2>3, <2>4 DEF HandleNotice, o, result
<1>6. RowTrue'
  BY <1>1, <1>3, <1>5, RowStaysTrue
<1>7. Kept'
  BY <1>1, <1>2, <1>5, ReplacedKept, CloudStepKeeps
<1> QED BY <1>1, <1>5, <1>6, <1>7 DEF PInv

LEMMA EventKeepsPaid == ASSUME PInv, ApplyReplaced \/ ApplyCompleted PROVE PInv'
<1>1. /\ JInv' /\ UNCHANGED <<local, notice, orders, notices>> /\ outbox' \subseteq outbox
      /\ saleHeld' => saleHeld \/ "completed" \in outbox
      /\ row \in RowSet
  <2>1. JInv'
    BY EventKeepsCustody DEF PInv
  <2>2. UNCHANGED <<local, notice, orders, notices>>
    BY DEF ApplyReplaced, ApplyCompleted, providerVars
  <2>3. outbox' \subseteq outbox /\ (saleHeld' => saleHeld \/ "completed" \in outbox)
    BY DEF ApplyReplaced, ApplyCompleted
  <2>4. row \in RowSet
    BY DEF PInv, JInv, IInv, TypeOK, RowSet
  <2> QED BY <2>1, <2>2, <2>3, <2>4
<1>2. local.state # "none"
  BY NothingBeforeStart DEF ApplyReplaced, ApplyCompleted
<1>3. /\ PaysBack /\ refunds \subseteq refunds' /\ (Replaced' <=> Replaced)
      /\ row'.state = row.state /\ row'.order = row.order /\ row'.unknown = row.unknown
  <2>1. CASE ApplyReplaced
    <3>1. Write([row EXCEPT !.replaced = TRUE]) /\ "replaced" \in outbox
      BY <2>1 DEF ApplyReplaced
    <3>2. PaysBack /\ refunds \subseteq refunds' /\ row' = [row EXCEPT !.replaced = TRUE]
      BY <3>1, WritePaysBack
    <3>3. /\ row'.state = row.state /\ row'.order = row.order /\ row'.unknown = row.unknown
          /\ row'.replaced
      BY <1>1, <3>2 DEF RowSet
    <3> QED BY <3>1, <3>2, <3>3 DEF Replaced
  <2>2. CASE ApplyCompleted
    <3>1. UNCHANGED <<row, refunds>> /\ outbox' = outbox \ {"completed"}
      BY <2>2 DEF ApplyCompleted
    <3> QED BY <3>1, SameRowPaysBack DEF Replaced
  <2> QED BY <2>1, <2>2
<1>4. Noticed' /\ RowTrue'
  BY <1>1, <1>3, SameOrders, RowStaysTrue DEF PInv, Noticed, RowAgrees
<1>5. Kept'
  BY <1>1, <1>2, <1>3, CloudStepKeeps
<1> QED BY <1>1, <1>4, <1>5 DEF PInv

\* Neither row changes, and what the register asks of nobody the cloud does not hear.
LEMMA OutsideKeepsPaid ==
    ASSUME PInv, JInv', UNCHANGED <<local, outbox, row, refunds, saleHeld, notice>>,
           notices \subseteq notices', OrdersSteady, \A o \in Paid' : o \in Paid \union notices',
           local.state = "none" =>
              late' = {} /\ act'["discovery"] \notin {"create", "read", "cancel"}
    PROVE  PInv'
<1>1. Noticed'
  BY DEF PInv, Noticed
<1>2. RowTrue'
  BY RowStaysTrue DEF RowAgrees
<1>3. Kept'
  BY DEF PInv, Kept, Replaced
<1> QED BY <1>1, <1>2, <1>3 DEF PInv

LEMMA ProviderKeepsPaid ==
    ASSUME PInv,
           \/ ExpiryPasses \/ LateCreation
           \/ \E o \in Order, result \in {"paid", "closed"} : Ends(o, result)
    PROVE  PInv'
<1>1. /\ JInv' /\ UNCHANGED <<local, outbox, row, refunds, saleHeld, notice, act, late>>
  BY ProviderKeepsCustody DEF PInv, ExpiryPasses, LateCreation, Ends, registerVars, cloudVars
<1>2. /\ notices \subseteq notices' /\ OrdersSteady /\ \A o \in Paid' : o \in Paid \union notices'
  <2>1. CASE UNCHANGED <<orders, notices>>
    BY <2>1, SameOrders
  <2>2. CASE \E o \in Creatable : CreateAtProvider(o)
    BY <2>2, CreationSteady
  <2>3. CASE \E o \in Order, result \in {"paid", "closed"} : Ends(o, result)
    <3>1. PICK o \in Order, result \in {"paid", "closed"} : Ends(o, result)
      BY <2>3
    <3>2. \A p \in Order : orders'[p] = IF p = o THEN result ELSE orders[p]
      BY <3>1 DEF Ends, PInv, JInv, IInv, TypeOK
    <3> QED BY <3>1, <3>2 DEF Ends, OrdersSteady, Paid
  <2> QED BY <2>1, <2>2, <2>3 DEF ExpiryPasses, LateCreation, providerVars
<1>3. local.state = "none" => late' = {} /\ act'["discovery"] \notin {"create", "read", "cancel"}
  BY <1>1 DEF PInv, Kept
<1> QED BY <1>1, <1>2, <1>3, OutsideKeepsPaid

LEMMA GiveUpKeepsPaid == ASSUME PInv, NEW a \in Activity, GiveUp(a) PROVE PInv'
<1>1. JInv' /\ UNCHANGED <<local, outbox, row, refunds, saleHeld, notice, orders, notices>>
  BY GiveUpKeepsCustody DEF PInv, GiveUp, providerVars
<1>2. local.state = "none" => late' = {} /\ act'["discovery"] \notin {"create", "read", "cancel"}
  <2> SUFFICES ASSUME local.state = "none"
               PROVE  late' = {} /\ act'["discovery"] \notin {"create", "read", "cancel"}
    OBVIOUS
  <2>1. late = {} /\ act[a] \notin {"create", "read", "cancel", "refund"}
    BY NothingBeforeStart
  <2>2. act[a] = "list"
    BY <2>1 DEF GiveUp, Calls
  <2>3. late' = {}
    BY <2>1, <2>2 DEF GiveUp
  <2>4. act'["discovery"] \in {act["discovery"], "unreachable"}
    BY <2>2 DEF GiveUp, PInv, JInv, IInv, TypeOK, Activity
  <2> QED BY <2>3, <2>4, NothingBeforeStart DEF Activity
<1>3. OrdersSteady /\ \A o \in Paid' : o \in Paid \union notices'
  BY <1>1, SameOrders
<1> QED BY <1>1, <1>2, <1>3, OutsideKeepsPaid

LEMMA RestartKeepsPaid == ASSUME PInv, Restart PROVE PInv'
<1>1. /\ JInv' /\ UNCHANGED <<local, outbox, row, refunds, saleHeld, notice, orders, notices>>
      /\ act'["discovery"] = "idle"
  BY RestartKeepsCustody DEF PInv, Restart, providerVars, Activity
<1>2. local.state = "none" => late' = {}
  <2> SUFFICES ASSUME local.state = "none" PROVE late' = {}
    OBVIOUS
  <2>1. /\ late = {}
        /\ \A a \in Activity : act[a] \notin {"create", "read", "cancel", "refund"}
    BY NothingBeforeStart
  <2> QED BY <2>1 DEF Restart
<1>3. OrdersSteady /\ \A o \in Paid' : o \in Paid \union notices'
  BY <1>1, SameOrders
<1> QED BY <1>1, <1>2, <1>3, OutsideKeepsPaid

-----------------------------------------------------------------------------
(* No paid order is left to nobody *)

LEMMA StepKeepsPaid == ASSUME PInv, Next PROVE PInv'
<1>1. CASE \/ Start \/ StartAnswered \/ Follow \/ FollowAnswered \/ Abandon \/ AbandonAnswered
           \/ Discover \/ ListPaidOrders \/ DiscoveryAnswered
           \/ CloseSale \/ WaitElapses \/ NextStart
  BY <1>1, RegisterStepsKeepPaid
<1>2. CASE Restart \/ \E a \in Activity : GiveUp(a)
  BY <1>2, RestartKeepsPaid, GiveUpKeepsPaid
<1>3. CASE (\E a \in Activity \union {"nobody"} : Begin(a)) \/ BeginCheck
  BY <1>3, BeginKeepsPaid, BeginCheckKeepsPaid DEF Someone
<1>4. CASE HolderStep \/ HolderFault
  BY <1>4, OrderCreatedKeepsPaid, NothingLearntKeepsPaid, OrderReadKeepsPaid,
     OrdersSearchedKeepsPaid, CancellationAnsweredKeepsPaid DEF HolderStep, HolderFault
<1>5. CASE (\E o \in Order : TakeNotice(o)) \/ HandleNotice \/ ApplyReplaced \/ ApplyCompleted
  BY <1>5, TakeNoticeKeepsPaid, HandleNoticeKeepsPaid, EventKeepsPaid
<1>6. CASE \/ ExpiryPasses \/ LateCreation
           \/ \E o \in Order, result \in {"paid", "closed"} : Ends(o, result)
  BY <1>6, ProviderKeepsPaid
<1> QED BY <1>1, <1>2, <1>3, <1>4, <1>5, <1>6 DEF Next

LEMMA StutterKeepsPaid == ASSUME PInv, UNCHANGED vars PROVE PInv'
<1>1. /\ UNCHANGED <<sale, local, outbox, act, row, refunds, late, lane>>
      /\ UNCHANGED <<saleHeld, notice, orders, notices>>
  BY DEF vars, registerVars, cloudVars, providerVars
<1>2. JInv'
  BY <1>1, StutterKeeps, OutsideKeepsCustody DEF PInv, JInv
<1>3. local.state = "none" => late' = {} /\ act'["discovery"] \notin {"create", "read", "cancel"}
  BY <1>1 DEF PInv, Kept
<1> QED BY <1>1, <1>2, <1>3, SameOrders, OutsideKeepsPaid

\* No order that the customer paid is left to nobody: its sale holds it, a refund of it is open,
\* or something that still happens will come upon it.
THEOREM PaymentsInCare == Spec => []NoPaymentIsForgotten
<1>1. PInv /\ [Next]_vars => PInv'
  BY StutterKeepsPaid, StepKeepsPaid
<1>2. PInv => NoPaymentIsForgotten
  BY CareSuffices
<1> QED BY InitPaid, <1>1, <1>2, PTL DEF Spec

-----------------------------------------------------------------------------
(* What the charge does with the money: every step is one of OrderFates, or none *)

\* An order refunded as another was paid.
RefundsPaid == refunds \ {NoOrder} \subseteq Paid

QInv == PInv /\ RefundsPaid

\* What the steps do that are not the register's, and not Mercado Pago's customers': they may
\* record an order where there was none, and refund what was paid.
MayGiveBack ==
    /\ UNCHANGED <<local, sale>> /\ Paid' = Paid
    /\ row.order = NoOrder \/ row'.order = row.order
    /\ refunds \subseteq refunds' /\ refunds' \ {NoOrder} \subseteq refunds \cup Paid

LEMMA RefundsStayPaid ==
    ASSUME QInv, PInv', MayGiveBack
    PROVE  QInv'
BY DEF QInv, RefundsPaid, MayGiveBack

\* What follows for each order.
OnceEach ==
    /\ \A o \in Order :
        /\ TimesGiven(o) \in {0, 1} /\ (TimesGiven(o) = 1 => o \in Paid)
        /\ TimesGiven(o) = 1 <=> o \in refunds \/ (NoOrder \in refunds /\ row.order = o)
    /\ local.state = "APPROVED" => row.order \in Paid /\ TimesGiven(row.order) = 0

LEMMA RefundedAtMostOnce == ASSUME QInv PROVE OnceEach
<1>1. row.order \notin refunds \/ row.order = NoOrder
  BY DEF QInv, PInv, JInv, IInv, Sight, RefundedOnce
<1>2. NoOrder \in refunds => row.order \in Paid
  BY DEF QInv, PInv, JInv, Custody, RowTrue
<1>3. ASSUME NEW o \in Order
      PROVE  /\ TimesGiven(o) \in {0, 1} /\ (TimesGiven(o) = 1 => o \in Paid)
             /\ TimesGiven(o) = 1 <=> o \in refunds \/ (NoOrder \in refunds /\ row.order = o)
  <2>1. o # NoOrder
    BY NoOrderIsNone
  <2>2. /\ TimesGiven(o) \in {0, 1}
        /\ TimesGiven(o) = 1 <=> o \in refunds \/ (NoOrder \in refunds /\ row.order = o)
    BY <1>1, <2>1 DEF TimesGiven
  <2>3. o \in refunds => o \in Paid
    BY <2>1 DEF QInv, RefundsPaid
  <2> QED BY <1>2, <2>2, <2>3
<1>4. ASSUME local.state = "APPROVED" PROVE row.order \in Paid /\ TimesGiven(row.order) = 0
  <2>1. NoOrder \notin refunds /\ row.order \in Paid
    BY <1>4 DEF QInv, PInv, JInv, Custody, ChargedOtherwise, RowTrue
  <2>2. row.order \notin refunds
    BY <1>1, <2>1
  <2> QED BY <2>1, <2>2 DEF TimesGiven
<1> QED BY <1>3, <1>4 DEF OnceEach

\* A step of OrderFates, or none.
Allowed == [Fates!Next]_(Fates!vars)

LEMMA GivingBackAllowed ==
    ASSUME OnceEach, OnceEach', MayGiveBack
    PROVE  Allowed
<1> DEFINE back == {o \in Order : TimesGiven(o) = 0 /\ TimesGiven(o)' = 1}
<1>1. UNCHANGED <<local, sale>> /\ Paid' = Paid
  BY DEF MayGiveBack
<1>2. local.state = "APPROVED" => row'.order = row.order /\ TimesGiven(row.order)' = 0
  <2> SUFFICES ASSUME local.state = "APPROVED"
               PROVE  row'.order = row.order /\ TimesGiven(row.order)' = 0
    OBVIOUS
  <2>1. row.order \in Order
    BY DEF OnceEach, Paid
  <2>2. row'.order = row.order
    BY <2>1, NoOrderIsNone DEF MayGiveBack
  <2> QED BY <1>1, <2>2 DEF OnceEach
<1>3. UNCHANGED SaleKeeps
  BY <1>1, <1>2 DEF SaleKeeps
<1>4. \A o \in Order : /\ TimesGiven(o) \in {0, 1} /\ TimesGiven(o)' \in {0, 1}
                       /\ TimesGiven(o) = 1 => TimesGiven(o)' = 1
                       /\ TimesGiven(o)' = 1 => o \in Paid
  <2> TAKE o \in Order
  <2>1. /\ TimesGiven(o) \in {0, 1} /\ TimesGiven(o)' \in {0, 1}
        /\ TimesGiven(o)' = 1 => o \in Paid
    BY <1>1 DEF OnceEach
  <2>2. TimesGiven(o) = 1 => o \in refunds \/ (NoOrder \in refunds /\ row.order = o)
    BY DEF OnceEach
  <2>3. o \in refunds' \/ (NoOrder \in refunds' /\ row'.order = o) => TimesGiven(o)' = 1
    BY DEF OnceEach
  <2> QED BY <2>1, <2>2, <2>3, NoOrderIsNone DEF MayGiveBack
<1>5. back \subseteq Paid \ SaleKeeps
  <2>1. \A o \in back : o \notin SaleKeeps
    BY <1>2 DEF SaleKeeps
  <2> QED BY <1>4, <2>1
<1>6. back \in SUBSET Order /\ \A o \in back : TimesGiven(o) = 0
  OBVIOUS
<1>7. [o \in Order |-> TimesGiven(o)]'
        = [o \in Order |-> IF o \in back THEN 1 ELSE [p \in Order |-> TimesGiven(p)][o]]
  <2>1. \A o \in Order : TimesGiven(o)' = IF o \in back THEN 1 ELSE TimesGiven(o)
    BY <1>4
  <2> HIDE DEF back
  <2> QED BY <2>1
<1>8. \A o \in back : [p \in Order |-> TimesGiven(p)][o] = 0
  BY <1>6
<1> HIDE DEF back
<1>9. Fates!GiveBack(back)
  BY <1>1, <1>3, <1>5, <1>7, <1>8 DEF Fates!GiveBack
<1> QED BY <1>6, <1>9 DEF Allowed, Fates!Next

\* Nothing is paid, refunded or recorded while the register decides what its sale keeps.
LEMMA KeepingAllowed ==
    ASSUME PInv, OnceEach, OnceEach', UNCHANGED <<row, refunds, orders>>,
           local.state = "APPROVED" => local'.state = "APPROVED",
           local'.state = "APPROVED" => local.state = "APPROVED" \/ sale = "open",
           sale' \in {sale, "closed"}
    PROVE  Allowed
<1>1. Paid' = Paid /\ sale \in {"open", "closed"}
  BY DEF Paid, PInv, JInv, IInv, TypeOK
<1>2. [o \in Order |-> TimesGiven(o)]' = [o \in Order |-> TimesGiven(o)]
  BY DEF TimesGiven
<1>3. CASE local.state = "APPROVED" \/ local'.state # "APPROVED"
  <2>1. UNCHANGED SaleKeeps
    BY <1>3 DEF SaleKeeps
  <2>2. CASE sale' = sale
    BY <1>1, <1>2, <2>1, <2>2 DEF Allowed, Fates!vars
  <2>3. CASE sale = "open" /\ sale' = "closed"
    <3>1. Fates!Close
      BY <1>1, <1>2, <2>1, <2>3 DEF Fates!Close
    <3> QED BY <3>1 DEF Allowed, Fates!Next
  <2> QED BY <1>1, <2>2, <2>3
<1>4. CASE local.state # "APPROVED" /\ local'.state = "APPROVED"
  <2> DEFINE o == row.order
  <2>1. o \in Paid /\ o \in Order /\ TimesGiven(o) = 0
    <3>1. row.order \in Paid' /\ TimesGiven(row.order)' = 0
      BY <1>4 DEF OnceEach
    <3>2. TimesGiven(row.order)' = TimesGiven(row.order)
      BY DEF TimesGiven
    <3> QED BY <1>1, <3>1, <3>2 DEF Paid
  <2>2. SaleKeeps = {} /\ SaleKeeps' = {o} /\ sale = "open" /\ sale' \in {"open", "closed"}
    BY <1>4 DEF SaleKeeps
  <2> HIDE DEF o
  <2>3. [p \in Order |-> TimesGiven(p)][o] = 0
    BY <2>1
  <2>4. Fates!Keep(o)
    BY <1>1, <1>2, <2>1, <2>2, <2>3 DEF Fates!Keep
  <2> QED BY <2>1, <2>4 DEF Allowed, Fates!Next
<1> QED BY <1>3, <1>4

LEMMA RegisterAllowed ==
    ASSUME QInv, OnceEach, OnceEach',
           \/ Start \/ StartAnswered \/ Follow \/ FollowAnswered \/ Abandon \/ AbandonAnswered
           \/ Discover \/ ListPaidOrders \/ DiscoveryAnswered
           \/ CloseSale \/ WaitElapses \/ NextStart
    PROVE  Allowed
<1>1. UNCHANGED registerOnly
  BY DEF Start, StartAnswered, Follow, FollowAnswered, Abandon, AbandonAnswered, Discover,
     ListPaidOrders, DiscoveryAnswered, CloseSale, WaitElapses, NextStart
<1>2. UNCHANGED <<row, refunds, orders>>
  BY <1>1 DEF registerOnly, cloudVars, providerVars
<1>3. local \in [state : States, method : {"QR", "POINT"}, replaced : BOOLEAN, over : BOOLEAN]
  BY LocalTyped DEF QInv, PInv
<1>4. \/ UNCHANGED <<local, sale>>
      \/ local' \in {Ended, WaitOver(FALSE), WaitOver(TRUE)} /\ UNCHANGED sale
      \/ local.state = "none" /\ local' = [local EXCEPT !.state = "PENDING"] /\ UNCHANGED sale
      \/ local' = [local EXCEPT !.over = TRUE] /\ UNCHANGED sale
      \/ Settle \/ Replace
      \/ /\ local' = [local EXCEPT !.state = "APPROVED", !.replaced = FALSE]
         /\ sale = "open" /\ sale' \in {sale, "closed"}
      \/ UNCHANGED local /\ sale' = "closed"
  BY DEF Start, StartAnswered, Follow, FollowAnswered, Abandon, AbandonAnswered, Discover,
     ListPaidOrders, DiscoveryAnswered, CloseSale, WaitElapses, NextStart
<1>5. /\ local.state = "APPROVED" => local'.state = "APPROVED"
      /\ local'.state = "APPROVED" => local.state = "APPROVED" \/ sale = "open"
      /\ sale' \in {sale, "closed"}
  <2>1. CASE Settle
    BY <1>3, <2>1 DEF Settle, ChargePending
  <2>2. CASE Replace
    BY <1>3, <2>2 DEF Replace, ChargePending
  <2>3. CASE local' \in {Ended, WaitOver(FALSE), WaitOver(TRUE)} /\ UNCHANGED sale
    BY <1>3, <2>3 DEF Ended, WaitOver
  <2> QED BY <1>3, <1>4, <2>1, <2>2, <2>3
<1> QED BY <1>2, <1>5, KeepingAllowed DEF QInv

LEMMA RegisterRefundsStayPaid ==
    ASSUME QInv, PInv', UNCHANGED <<refunds, orders>>
    PROVE  QInv'
BY DEF QInv, RefundsPaid, Paid

\* The cloud refunds the row's own order only.
LEMMA QuietMoves ==
    ASSUME UNCHANGED <<local, sale>>, Paid' = Paid,
           row' = row \/ row'.order = row.order \/ row.order = NoOrder,
           refunds' \in {refunds, refunds \cup {NoOrder}}
    PROVE  MayGiveBack
BY DEF MayGiveBack

LEMMA RefreshedOrder ==
    ASSUME PInv, NEW job, NEW a, Refresh(job, a)
    PROVE  row'.order = row.order /\ refunds' = refunds
BY RefreshAgrees

LEMMA WrittenRefunds ==
    ASSUME NEW r, Write(r)
    PROVE  row' = r /\ refunds' \in {refunds, refunds \cup {NoOrder}}
BY DEF Write, LateRefund

LEMMA BeginMoves == ASSUME PInv, NEW a \in Someone, Begin(a) \/ BeginCheck PROVE MayGiveBack
<1>1. UNCHANGED <<local, sale, orders>> /\ row \in RowSet
  BY RowTyped DEF Begin, BeginCreate, BeginRead, BeginCancel, BeginRefund, BeginCheck, registerRows,
     providerVars
<1>2. CASE \E job, b : Refresh(job, b)
  BY <1>1, <1>2, RefreshedOrder, SameOrders, QuietMoves
<1>3. CASE /\ row' = row \/ (\E s, u : row' = [row EXCEPT !.state = s, !.unknown = u])
              \/ (\E s : row' = [row EXCEPT !.state = s])
           /\ refunds' \in {refunds, refunds \cup {NoOrder}}
  <2>1. row'.order = row.order
    BY <1>1, <1>3 DEF RowSet
  <2> QED BY <1>1, <1>3, <2>1, SameOrders, QuietMoves
<1>4. CASE BeginCreate(a)
  BY <1>2, <1>3, <1>4 DEF BeginCreate
<1>5. CASE BeginRead(a)
  BY <1>2, <1>3, <1>5 DEF BeginRead
<1>6. CASE BeginCancel(a)
  BY <1>2, <1>3, <1>6 DEF BeginCancel
<1>7. CASE BeginRefund(a)
  <2>1. row' = row /\ refunds' \in {refunds, refunds \cup {NoOrder}}
    BY <1>7 DEF BeginRefund
  <2> QED BY <1>3, <2>1
<1>8. CASE BeginCheck
  BY <1>2, <1>3, <1>8 DEF BeginCheck
<1> QED BY <1>4, <1>5, <1>6, <1>7, <1>8 DEF Begin

\* Whatever becomes of an order that was paid, it stays paid, and none is paid by a call.
LEMMA SteadyPaid ==
    ASSUME OrdersSteady, Paid' \subseteq Paid
    PROVE  Paid' = Paid
BY DEF OrdersSteady, Paid

LEMMA HolderMoves ==
    ASSUME PInv, HolderStep \/ HolderFault
    PROVE  MayGiveBack
<1>1. UNCHANGED <<local, sale>> /\ row \in RowSet
  BY RowTyped DEF HolderStep, HolderFault, OrderCreated, OrderNotCreated, OrderRead, OrdersSearched,
     CancellationAnswered, CreationUnanswered, OrderNotRead, CancellationUnanswered, LaneLost,
     laneOnly, registerRows
<1>2. CASE OrderCreated
  <2>1. PICK o \in Creatable : CreateAtProvider(o)
    BY <1>2 DEF OrderCreated
  <2>2. Paid' = Paid
    BY <2>1, CreationSteady, SteadyPaid
  <2>3. row.order = NoOrder
    BY <1>2 DEF OrderCreated, PInv, JInv, IInv, Holder, AwaitsUnrecordedOrder
  <2>4. refunds' \in {refunds, refunds \cup {NoOrder}}
    BY <1>2, WrittenRefunds DEF OrderCreated
  <2> QED BY <1>1, <2>2, <2>3, <2>4, QuietMoves
<1>3. CASE OrderNotCreated \/ CreationUnanswered \/ OrderNotRead \/ LaneLost
  <2>1. UNCHANGED <<orders, refunds>>
    BY <1>3 DEF OrderNotCreated, CreationUnanswered, OrderNotRead, LaneLost, providerVars
  <2>2. row' = row \/ \E u : row' = [row EXCEPT !.unknown = u]
    BY <1>3 DEF OrderNotCreated, CreationUnanswered, OrderNotRead, LaneLost
  <2>3. row'.order = row.order
    BY <1>1, <2>2 DEF RowSet
  <2> QED BY <1>1, <2>1, <2>3, SameOrders, QuietMoves
<1>4. CASE OrderRead
  <2>1. Write(WithResult(orders[row.order])) /\ UNCHANGED orders
    BY <1>4 DEF OrderRead, providerVars
  <2>2. row'.order = row.order /\ refunds' \in {refunds, refunds \cup {NoOrder}}
    BY <1>1, <2>1, WrittenRefunds DEF WithResult, RowSet
  <2> QED BY <1>1, <2>1, <2>2, SameOrders, QuietMoves
<1>5. CASE OrdersSearched
  <2>1. UNCHANGED orders /\ Paid' = Paid /\ row.order = NoOrder
    BY <1>5, SameOrders
       DEF OrdersSearched, providerVars, PInv, JInv, IInv, Holder, AwaitsUnrecordedOrder
  <2>2. CASE \E o, after : refunds' = refunds \cup LateRefund(after) \cup (Paid \ {o})
    BY <1>1, <2>1, <2>2 DEF MayGiveBack, LateRefund
  <2>3. CASE Refresh(lane.job, "nobody")
    BY <1>1, <2>1, <2>3, RefreshedOrder, QuietMoves
  <2> QED BY <1>5, <2>2, <2>3 DEF OrdersSearched
<1>6. CASE CancellationAnswered \/ CancellationUnanswered
  <2>1. row.order \in Order
    BY <1>6, OrderInHand DEF CancellationAnswered, CancellationUnanswered, PInv, JInv
  <2>2. \/ UNCHANGED orders
        \/ orders[row.order] = "open" /\ orders' = [orders EXCEPT ![row.order] = "closed"]
    BY <1>6 DEF CancellationAnswered, CancellationUnanswered
  <2>3. Paid' = Paid
    BY <2>1, <2>2, SameOrders, ClosedSteady, SteadyPaid
  <2>4. (\E result : Write(WithResult(result))) \/ UNCHANGED <<row, refunds>>
    BY <1>6 DEF CancellationAnswered, CancellationUnanswered
  <2>5. /\ refunds' \in {refunds, refunds \cup {NoOrder}}
        /\ row' = row \/ \E result : row' = WithResult(result)
    BY <2>4, WrittenRefunds
  <2>6. row'.order = row.order
    BY <1>1, <2>5 DEF WithResult, RowSet
  <2> QED BY <1>1, <2>3, <2>5, <2>6, QuietMoves
<1> QED BY <1>2, <1>3, <1>4, <1>5, <1>6 DEF HolderStep, HolderFault

LEMMA NoticeMoves ==
    ASSUME PInv, (\E o \in Order : TakeNotice(o)) \/ HandleNotice
    PROVE  MayGiveBack
<1>1. UNCHANGED <<local, sale, orders>> /\ Paid' = Paid
  BY SameOrders DEF TakeNotice, HandleNotice, registerRows, providerVars
<1>2. CASE Refresh("notice", "nobody")
  BY <1>1, <1>2, RefreshedOrder, QuietMoves
<1>3. CASE UNCHANGED <<row, refunds>>
  BY <1>1, <1>3, QuietMoves
<1>4. CASE row.order = NoOrder /\ Write(WithOrder(notice.order, notice.result, TRUE))
  BY <1>1, <1>4, WrittenRefunds, QuietMoves
<1>5. CASE /\ HandleNotice /\ UNCHANGED row
           /\ refunds' = refunds \union IF notice.result = "paid" THEN {notice.order} ELSE {}
  <2>1. notice.order \in Order
    BY <1>5 DEF HandleNotice, PInv, JInv, IInv, Sight, Existing
  <2>2. notice.result = "paid" => notice.order \in Paid
    BY <2>1 DEF PInv, RowTrue, Paid
  <2> QED BY <1>1, <1>5, <2>2 DEF MayGiveBack
<1>6. CASE \E o \in Order : TakeNotice(o)
  BY <1>2, <1>3, <1>6 DEF TakeNotice
<1>7. CASE HandleNotice
  BY <1>2, <1>3, <1>4, <1>5, <1>7 DEF HandleNotice
<1> QED BY <1>6, <1>7

LEMMA OtherMoves ==
    ASSUME PInv,
           \/ ApplyReplaced \/ ApplyCompleted \/ ExpiryPasses \/ LateCreation \/ Restart
           \/ \E a \in Activity : GiveUp(a)
    PROVE  MayGiveBack
<1>1. UNCHANGED <<local, sale>> /\ row \in RowSet
  BY RowTyped DEF ApplyReplaced, ApplyCompleted, ExpiryPasses, LateCreation, Restart, GiveUp,
     registerVars
<1>2. Paid' = Paid
  <2>1. CASE UNCHANGED orders
    BY <2>1, SameOrders
  <2>2. CASE \E o \in Creatable : CreateAtProvider(o)
    BY <2>2, CreationSteady, SteadyPaid
  <2> QED BY <2>1, <2>2 DEF ApplyReplaced, ApplyCompleted, ExpiryPasses, LateCreation, Restart, GiveUp,
     providerVars
<1>3. Write([row EXCEPT !.replaced = TRUE]) \/ UNCHANGED <<row, refunds>>
  BY DEF ApplyReplaced, ApplyCompleted, ExpiryPasses, LateCreation, Restart, GiveUp, cloudVars
<1>4. row'.order = row.order /\ refunds' \in {refunds, refunds \cup {NoOrder}}
  BY <1>1, <1>3, WrittenRefunds DEF RowSet
<1> QED BY <1>1, <1>2, <1>4, QuietMoves

LEMMA CustomersAllowed ==
    ASSUME QInv, NEW o \in Order, NEW result \in {"paid", "closed"}, Ends(o, result)
    PROVE  Allowed /\ Paid \subseteq Paid' /\ UNCHANGED refunds
<1>1. UNCHANGED <<local, sale, row, refunds>>
  BY DEF Ends, registerVars, cloudVars
<1>2. \A p \in Order : orders'[p] = IF p = o THEN result ELSE orders[p]
  BY DEF Ends, QInv, PInv, JInv, IInv, TypeOK
<1>3. orders[o] = "open"
  BY DEF Ends
<1>4. UNCHANGED SaleKeeps /\ [p \in Order |-> TimesGiven(p)]' = [p \in Order |-> TimesGiven(p)]
  BY <1>1 DEF SaleKeeps, TimesGiven
<1>5. CASE result = "paid"
  <2>1. o \notin Paid /\ Paid' = Paid \cup {o}
    BY <1>2, <1>3, <1>5 DEF Paid
  <2>2. Fates!Pay(o)
    BY <1>1, <1>4, <2>1 DEF Fates!Pay
  <2> QED BY <1>1, <2>1, <2>2 DEF Allowed, Fates!Next
<1>6. CASE result = "closed"
  <2>1. Paid' = Paid
    BY <1>2, <1>3, <1>6 DEF Paid
  <2> QED BY <1>1, <1>4, <2>1 DEF Allowed, Fates!vars
<1> QED BY <1>5, <1>6

RegisterStep ==
    \/ Start \/ StartAnswered \/ Follow \/ FollowAnswered \/ Abandon \/ AbandonAnswered
    \/ Discover \/ ListPaidOrders \/ DiscoveryAnswered
    \/ CloseSale \/ WaitElapses \/ NextStart
CustomerStep == \E o \in Order, result \in {"paid", "closed"} : Ends(o, result)

LEMMA WhoMoves == ASSUME PInv, [Next]_vars PROVE RegisterStep \/ CustomerStep \/ MayGiveBack
<1>1. CASE (\E a \in Activity \union {"nobody"} : Begin(a)) \/ BeginCheck
  BY <1>1, BeginMoves DEF Someone
<1>2. CASE UNCHANGED vars
  <2>1. UNCHANGED <<local, sale, row, refunds, orders>>
    BY <1>2 DEF vars, registerVars, cloudVars, providerVars
  <2> QED BY <2>1, SameOrders, QuietMoves
<1> QED BY <1>1, <1>2, HolderMoves, NoticeMoves, OtherMoves DEF Next, RegisterStep, CustomerStep

LEMMA StepKeepsRefundsPaid == ASSUME QInv, [Next]_vars, PInv' PROVE QInv'
<1>1. CASE RegisterStep
  <2>1. UNCHANGED registerOnly
    BY <1>1 DEF RegisterStep, Start, StartAnswered, Follow, FollowAnswered, Abandon,
       AbandonAnswered, Discover, ListPaidOrders, DiscoveryAnswered, CloseSale, WaitElapses,
       NextStart
  <2> QED BY <2>1, RegisterRefundsStayPaid DEF registerOnly, cloudVars, providerVars
<1>2. CASE CustomerStep
  <2>1. Paid \subseteq Paid' /\ UNCHANGED refunds
    BY <1>2, CustomersAllowed DEF CustomerStep
  <2> QED BY <2>1 DEF QInv, RefundsPaid
<1> QED BY <1>1, <1>2, WhoMoves, RefundsStayPaid DEF QInv

LEMMA StepImplementsOrderFates ==
    ASSUME QInv, OnceEach, OnceEach', [Next]_vars
    PROVE  Allowed
<1>1. CASE RegisterStep
  BY <1>1, RegisterAllowed DEF RegisterStep
<1>2. CASE CustomerStep
  BY <1>2, CustomersAllowed DEF CustomerStep
<1> QED BY <1>1, <1>2, WhoMoves, GivingBackAllowed DEF QInv

\* Whatever the register, the cloud and Mercado Pago do of a charge, and whatever is lost between
\* them, is a step of OrderFates or none: a payment is kept or given back, once, never both, and
\* only after its order was paid.
THEOREM ChargingImplementsOrderFates == Spec => ImplementsOrderFates
<1>1. Init => Fates!Init /\ QInv
  <2> SUFFICES ASSUME Init PROVE Fates!Init /\ QInv
    OBVIOUS
  <2>1. refunds = {} /\ local.state = "none" /\ sale = "open" /\ Paid = {}
    BY DEF Init, Paid
  <2>2. SaleKeeps = {} /\ \A o \in Order : TimesGiven(o) = 0
    BY <2>1 DEF SaleKeeps, TimesGiven
  <2> QED BY <2>1, <2>2, InitPaid DEF Fates!Init, QInv, RefundsPaid
<1>2. QInv /\ [Next]_vars => QInv'
  <2>1. QInv /\ [Next]_vars => PInv'
    BY StepKeepsPaid, StutterKeepsPaid DEF QInv
  <2> QED BY <2>1, StepKeepsRefundsPaid
<1>3. QInv => OnceEach
  BY RefundedAtMostOnce
<1>4. QInv /\ OnceEach /\ OnceEach' /\ [Next]_vars => [Fates!Next]_(Fates!vars)
  BY StepImplementsOrderFates DEF Allowed
<1> QED BY <1>1, <1>2, <1>3, <1>4, PTL DEF Spec, ImplementsOrderFates, Fates!Spec

=============================================================================
