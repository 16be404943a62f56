-------------------------- MODULE PaymentLaneProofs --------------------------
(***************************************************************************)
(* For any number of orders, attempts and faults: the types of PaymentLane *)
(* and what it says of the orders of Mercado Pago. That no order is out of *)
(* sight rests on what a creation under way knows of the attempts before   *)
(* it (Holder), and that no order is refunded twice on no other order      *)
(* being refunded before one is recorded (Sight).                          *)
(***************************************************************************)
EXTENDS PaymentLane, TLAPS

-----------------------------------------------------------------------------
(* The inductive invariant *)

\* What is recorded of the orders, and which of them notifications name.
Sight ==
    /\ NoOrderOutOfSight /\ RefundedOnce
    /\ row.order # NoOrder => row.order \in Existing
    /\ row.order = NoOrder => refunds \subseteq {NoOrder}
    /\ row.state = "none" => row.order = NoOrder /\ ~row.unknown
    /\ notices \subseteq Existing
    /\ notice = NoNotice \/ (notice.order \in Existing /\ notice.result # "none")
    /\ inflight <= faults

\* What the holder of the lane found in the row, which nobody writes but an event that replaces
\* the payment.
Holder ==
    /\ lane.step = "creating" =>
        /\ AwaitsUnrecordedOrder
        /\ lane.earlier # "unknown" => Existing = {} /\ inflight = 0
    /\ lane.step = "searching" => AwaitsUnrecordedOrder /\ lane.job \in {"read", "cancel"}
    /\ lane.step \in {"reading", "cancelling"} => row.state = "PENDING" /\ row.order # NoOrder
    /\ lane.job = "notice" => lane.step = "reading"

IInv == TypeOK /\ Sight /\ Holder

-----------------------------------------------------------------------------
(* Types of what changes together *)

RegisterTyped ==
    /\ sale \in {"open", "closed"}
    /\ local \in [state : States, method : {"QR", "POINT"}, replaced : BOOLEAN, over : BOOLEAN]
    /\ act \in [Activity -> {"idle"} \union Calls \union Replies]
    /\ sends \in 0..MaxSends /\ checked \in BOOLEAN
    /\ outbox \subseteq {"replaced", "completed"}

LEMMA RegisterStepKeeps ==
    ASSUME IInv, RegisterTyped', UNCHANGED registerOnly
    PROVE  IInv'
<1> USE DEF IInv, registerOnly, cloudVars, providerVars
<1>1. TypeOK'
  BY DEF RegisterTyped, TypeOK
<1>2. Existing' = Existing /\ AwaitsUnrecordedOrder' = AwaitsUnrecordedOrder
  BY DEF Existing, AwaitsUnrecordedOrder
<1>3. Sight'
  BY <1>2 DEF Sight, NoOrderOutOfSight, RefundedOnce
<1>4. Holder'
  BY <1>2 DEF Holder
<1> QED BY <1>1, <1>3, <1>4

LEMMA InitInvariant == Init => IInv
<1> SUFFICES ASSUME Init PROVE IInv
  OBVIOUS
<1>1. TypeOK
  <2>1. local \in [state : States, method : {"QR", "POINT"}, replaced : BOOLEAN, over : BOOLEAN]
    BY DEF Init, States
  <2>2. /\ act \in [Activity -> {"idle"} \union Calls \union Replies]
        /\ row \in [state : States, order : Order \union {NoOrder},
                    unknown : BOOLEAN, replaced : BOOLEAN]
        /\ orders \in [Order -> {"none", "open", "paid", "closed"}]
    BY DEF Init, States
  <2>3. lane = FreeLane /\ notice = NoNotice
    BY DEF Init
  <2>4. /\ sends \in 0..MaxSends /\ faults \in 0..MaxFaults /\ inflight \in 0..MaxFaults
    BY BoundsAssumption DEF Init
  <2>5. lane \in [step : {"free", "searching", "creating", "reading", "cancelling"},
                 job : {"none", "create", "read", "cancel", "notice"},
                 for : Activity \union {"nobody"}, earlier : {"none", "nothing", "unknown"}]
    BY <2>3 DEF FreeLane, Held
  <2>6. notice \in [order : Order \union {NoOrder}, result : {"none", "open", "paid", "closed"}]
    BY <2>3 DEF NoNotice
  <2>7. /\ sale \in {"open", "closed"} /\ checked \in BOOLEAN /\ expired \in BOOLEAN
        /\ saleHeld \in BOOLEAN /\ outbox = {} /\ refunds = {} /\ late = {} /\ notices = {}
    BY DEF Init
  <2> QED BY <2>1, <2>2, <2>4, <2>5, <2>6, <2>7 DEF TypeOK
<1>2. Existing = {}
  BY DEF Init, Existing
<1>3. Sight
  BY <1>2 DEF Init, Sight, NoOrderOutOfSight, RefundedOnce
<1>4. Holder
  BY <1>2 DEF Init, Holder, FreeLane, Held
<1> QED BY <1>1, <1>3, <1>4 DEF IInv

-----------------------------------------------------------------------------
(* The steps of the register *)

LEMMA StartKeeps == ASSUME IInv, Start PROVE IInv'
<1>1. RegisterTyped' /\ UNCHANGED registerOnly
  BY BoundsAssumption DEF IInv, TypeOK, RegisterTyped, Start, Ask, States, Activity,
     Calls, Replies
<1> QED BY <1>1, RegisterStepKeeps

LEMMA StartAnsweredKeeps == ASSUME IInv, StartAnswered PROVE IInv'
<1>1. act' \in [Activity -> {"idle"} \union Calls \union Replies]
  <2>1. \/ act' = [act EXCEPT !["charge"] = "idle"]
        \/ act' = [act EXCEPT !["charge"] = "create"]
    BY DEF StartAnswered, Idle, Ask
  <2> QED BY <2>1 DEF IInv, TypeOK, Activity, Calls
<1>2. local' \in {local, Ended, WaitOver(FALSE), WaitOver(TRUE)}
  BY DEF StartAnswered
<1>3. local' \in [state : States, method : {"QR", "POINT"}, replaced : BOOLEAN, over : BOOLEAN]
  <2>1. local \in [state : States, method : {"QR", "POINT"}, replaced : BOOLEAN, over : BOOLEAN]
    BY DEF IInv, TypeOK
  <2>2. CASE local' = Ended
    BY <2>1, <2>2 DEF Ended, States
  <2>3. CASE local' = WaitOver(FALSE)
    BY <2>1, <2>3 DEF WaitOver
  <2>4. CASE local' = WaitOver(TRUE)
    BY <2>1, <2>4 DEF WaitOver
  <2> QED BY <1>2, <2>1, <2>2, <2>3, <2>4
<1>4. sends' \in 0..MaxSends
  <2>1. sends' = 0 \/ (sends < MaxSends /\ sends' = sends + 1)
    BY DEF StartAnswered
  <2>2. sends \in 0..MaxSends
    BY DEF IInv, TypeOK
  <2> QED BY <2>1, <2>2, BoundsAssumption
<1>5. RegisterTyped' /\ UNCHANGED registerOnly
  BY <1>1, <1>3, <1>4 DEF IInv, TypeOK, RegisterTyped, StartAnswered
<1> QED BY <1>5, RegisterStepKeeps

LEMMA FollowKeeps == ASSUME IInv, Follow PROVE IInv'
<1>1. RegisterTyped' /\ UNCHANGED registerOnly
  BY BoundsAssumption DEF IInv, TypeOK, RegisterTyped, Follow, Ask, ChargePending, States, Activity,
     Calls, Replies
<1> QED BY <1>1, RegisterStepKeeps

LEMMA FollowAnsweredKeeps == ASSUME IInv, FollowAnswered PROVE IInv'
<1>1. RegisterTyped' /\ UNCHANGED registerOnly
  BY BoundsAssumption DEF IInv, TypeOK, RegisterTyped, FollowAnswered, Idle, Ask, Ended, Settle, ChargePending, States, Activity,
     Calls, Replies
<1> QED BY <1>1, RegisterStepKeeps

LEMMA AbandonKeeps == ASSUME IInv, Abandon PROVE IInv'
<1>1. RegisterTyped' /\ UNCHANGED registerOnly
  BY BoundsAssumption DEF IInv, TypeOK, RegisterTyped, Abandon, Ask, ChargePending, States, Activity,
     Calls, Replies
<1> QED BY <1>1, RegisterStepKeeps

LEMMA AbandonAnsweredKeeps == ASSUME IInv, AbandonAnswered PROVE IInv'
<1>2. act' \in [Activity -> {"idle"} \union Calls \union Replies]
  BY DEF IInv, TypeOK, AbandonAnswered, Idle, Activity
<1>3. /\ local' \in [state : States, method : {"QR", "POINT"}, replaced : BOOLEAN, over : BOOLEAN]
      /\ sale' \in {"open", "closed"} /\ outbox' \subseteq {"replaced", "completed"}
  <2>1. CASE Settle
    BY <2>1 DEF IInv, TypeOK, Settle, States
  <2>2. CASE Replace
    <3>1. \/ local' = [local EXCEPT !.replaced = TRUE, !.over = TRUE]
          \/ UNCHANGED local
      BY <2>2 DEF Replace
    <3>2. local \in [state : States, method : {"QR", "POINT"}, replaced : BOOLEAN, over : BOOLEAN]
      BY DEF IInv, TypeOK
    <3>3. local' \in [state : States, method : {"QR", "POINT"}, replaced : BOOLEAN, over : BOOLEAN]
      BY <3>1, <3>2
    <3> QED BY <2>2, <3>3 DEF IInv, TypeOK, Replace
  <2>3. CASE local' = Ended /\ UNCHANGED <<sale, outbox>>
    BY <2>3 DEF IInv, TypeOK, Ended, States
  <2>4. CASE UNCHANGED <<local, sale, outbox>>
    BY <2>4 DEF IInv, TypeOK
  <2> QED BY <2>1, <2>2, <2>3, <2>4 DEF AbandonAnswered
<1>1. RegisterTyped' /\ UNCHANGED registerOnly
  BY <1>2, <1>3 DEF IInv, TypeOK, RegisterTyped, AbandonAnswered
<1> QED BY <1>1, RegisterStepKeeps

LEMMA DiscoverKeeps == ASSUME IInv, Discover PROVE IInv'
<1>1. RegisterTyped' /\ UNCHANGED registerOnly
  BY BoundsAssumption DEF IInv, TypeOK, RegisterTyped, Discover, Ask, States, Activity,
     Calls, Replies
<1> QED BY <1>1, RegisterStepKeeps

LEMMA ListPaidOrdersKeeps == ASSUME IInv, ListPaidOrders PROVE IInv'
<1>1. RegisterTyped' /\ UNCHANGED registerOnly
  BY BoundsAssumption DEF IInv, TypeOK, RegisterTyped, ListPaidOrders, Ask, States, Activity,
     Calls, Replies
<1> QED BY <1>1, RegisterStepKeeps

LEMMA DiscoveryAnsweredKeeps == ASSUME IInv, DiscoveryAnswered PROVE IInv'
<1>2. act' \in [Activity -> {"idle"} \union Calls \union Replies]
  BY DEF IInv, TypeOK, DiscoveryAnswered, Idle, Ask, Activity, Calls
<1>3. \/ UNCHANGED local
      \/ local' = [local EXCEPT !.state = "APPROVED", !.replaced = FALSE]
  BY DEF DiscoveryAnswered
<1>4. local' \in [state : States, method : {"QR", "POINT"}, replaced : BOOLEAN, over : BOOLEAN]
  BY <1>3 DEF IInv, TypeOK, States
<1>5. sale' \in {"open", "closed"} /\ checked' \in BOOLEAN /\ outbox' \subseteq {"replaced", "completed"}
  BY DEF IInv, TypeOK, DiscoveryAnswered
<1>1. RegisterTyped' /\ UNCHANGED registerOnly
  BY <1>2, <1>4, <1>5 DEF IInv, TypeOK, RegisterTyped, DiscoveryAnswered
<1> QED BY <1>1, RegisterStepKeeps

LEMMA CloseSaleKeeps == ASSUME IInv, CloseSale PROVE IInv'
<1>1. RegisterTyped' /\ UNCHANGED registerOnly
  BY BoundsAssumption DEF IInv, TypeOK, RegisterTyped, CloseSale, InProgress, ChargePending, States, Activity,
     Calls, Replies
<1> QED BY <1>1, RegisterStepKeeps

LEMMA WaitElapsesKeeps == ASSUME IInv, WaitElapses PROVE IInv'
<1>1. RegisterTyped' /\ UNCHANGED registerOnly
  BY BoundsAssumption DEF IInv, TypeOK, RegisterTyped, WaitElapses, States, Activity,
     Calls, Replies
<1> QED BY <1>1, RegisterStepKeeps

LEMMA NextStartKeeps == ASSUME IInv, NextStart PROVE IInv'
<1>1. RegisterTyped' /\ UNCHANGED registerOnly
  BY BoundsAssumption DEF IInv, TypeOK, RegisterTyped, NextStart, States, Activity,
     Calls, Replies
<1> QED BY <1>1, RegisterStepKeeps

-----------------------------------------------------------------------------
(* What the cloud writes *)

RowSet == [state : States, order : Order \union {NoOrder}, unknown : BOOLEAN, replaced : BOOLEAN]
LaneSet == [step : {"free", "searching", "creating", "reading", "cancelling"},
            job : {"none", "create", "read", "cancel", "notice"},
            for : Activity \union {"nobody"}, earlier : {"none", "nothing", "unknown"}]
NoticeSet == [order : Order \union {NoOrder}, result : {"none", "open", "paid", "closed"}]
ActSet == [Activity -> {"idle"} \union Calls \union Replies]
Someone == Activity \union {"nobody"}
Jobs == {"create", "read", "cancel", "notice"}
Results == {"open", "paid", "closed"}

LEMMA NoOrderIsNone == NoOrder \notin Order
BY BoundsAssumption DEF NoOrder, Order

LEMMA TypesKept ==
    ASSUME TypeOK, UNCHANGED registerRows, act' \in ActSet, row' \in RowSet, lane' \in LaneSet,
           notice' \in NoticeSet, refunds' \subseteq Order \union {NoOrder},
           late' \subseteq {"create", "cancel", "refund"},
           expired' \in BOOLEAN, saleHeld' \in BOOLEAN,
           orders' \in [Order -> {"none", "open", "paid", "closed"}], notices' \subseteq Order,
           inflight' \in 0..MaxFaults, faults' \in 0..MaxFaults
    PROVE  TypeOK'
BY DEF TypeOK, registerRows, RowSet, LaneSet, NoticeSet, ActSet

LEMMA ReleaseTyped ==
    ASSUME TypeOK, NEW a \in Someone, NEW reply, a = "nobody" \/ reply \in Replies,
           Release(a, reply)
    PROVE  lane' = FreeLane /\ lane' \in LaneSet /\ act' \in ActSet
<1>1. lane' = FreeLane /\ lane' \in LaneSet
  BY DEF Release, LaneSet, FreeLane, Held
<1>2. act \in ActSet
  BY DEF TypeOK, ActSet
<1>3. CASE a = "nobody"
  BY <1>1, <1>2, <1>3 DEF Release
<1>4. CASE a # "nobody"
  <2>1. a \in Activity /\ reply \in Replies /\ act' = [act EXCEPT ![a] = reply]
    BY <1>4 DEF Release, Someone
  <2> QED BY <1>1, <1>2, <2>1 DEF ActSet
<1> QED BY <1>3, <1>4

LEMMA WriteSpec ==
    ASSUME NEW r, Write(r)
    PROVE  row' = r /\ refunds' \subseteq refunds \union {NoOrder}
BY DEF Write, LateRefund

LEMMA WithResultSpec ==
    ASSUME TypeOK, NEW result \in Results
    PROVE  LET r == WithResult(result)
           IN  /\ r \in RowSet /\ r.order = row.order /\ r.unknown = row.unknown
               /\ r.state \in {"PENDING", "APPROVED", "CLOSED"}
<1>1. row \in RowSet
  BY DEF TypeOK, RowSet
<1>2. StateOf[result] \in {"PENDING", "APPROVED", "CLOSED"}
  BY DEF StateOf, Results
<1> QED BY <1>1, <1>2 DEF WithResult, RowSet, States

LEMMA WithOrderSpec ==
    ASSUME TypeOK, NEW result \in Results, NEW o \in Order, NEW otherPossible \in BOOLEAN
    PROVE  LET r == WithOrder(o, result, otherPossible)
           IN  /\ r \in RowSet /\ r.order = o
               /\ r.unknown = (row.unknown /\ otherPossible)
               /\ r.state \in {"PENDING", "APPROVED", "CLOSED"}
<1>1. row \in RowSet
  BY DEF TypeOK, RowSet
<1>2. StateOf[result] \in {"PENDING", "APPROVED", "CLOSED"}
  BY DEF StateOf, Results
<1> QED BY <1>1, <1>2 DEF WithOrder, RowSet, States

\* Nothing is recorded of another order, and none is created.
LEMMA SightKept ==
    ASSUME IInv, Existing' = Existing, inflight' <= faults', inflight' > 0 => row.unknown,
           row'.order = row.order, row'.unknown = row.unknown,
           row'.state = "none" => row.state = "none",
           refunds' \subseteq refunds \union {NoOrder}, notices' \subseteq Existing,
           notice' = NoNotice \/ (notice'.order \in Existing /\ notice'.result # "none")
    PROVE  Sight'
<1> QED BY DEF IInv, Sight, NoOrderOutOfSight, RefundedOnce

LEMMA RefreshKeeps ==
    ASSUME IInv, NEW job \in Jobs, NEW a \in Someone, row.state # "none" \/ a = "nobody",
           job = "notice" => a = "nobody",
           Refresh(job, a), UNCHANGED <<registerRows, expired, saleHeld, orders, inflight>>,
           late' \subseteq {"create", "cancel", "refund"}, notices' \subseteq notices,
           notice' \in {notice, NoNotice}, faults' \in 0..MaxFaults, faults <= faults'
    PROVE  IInv'
<1>1. row \in RowSet /\ refunds' = refunds /\ Existing' = Existing
  BY DEF IInv, TypeOK, RowSet, Refresh, Existing
<1>2. row' \in {row, [row EXCEPT !.state = "CLOSED"]}
  BY DEF Refresh, AfterExpiry
<1>3. /\ row' \in RowSet /\ row'.order = row.order /\ row'.unknown = row.unknown
      /\ row'.state = "none" => row.state = "none"
  BY <1>1, <1>2 DEF RowSet, States
<1>4. /\ lane' \in LaneSet /\ act' \in ActSet
      /\ \/ lane' = FreeLane
         \/ /\ lane'.step = "reading" /\ row' = row
            /\ row.state = "PENDING" /\ row.order # NoOrder
  <2>1. CASE row.state = "PENDING" /\ row.order # NoOrder
    <3>1. lane' = Held("reading", job, a, "none") /\ row' = row /\ act' = act
      BY <2>1 DEF Refresh
    <3> QED BY <2>1, <3>1 DEF Held, LaneSet, Jobs, Someone, IInv, TypeOK, ActSet
  <2>2. CASE ~(row.state = "PENDING" /\ row.order # NoOrder)
    <3>1. Release(a, AnswerOf(job, AfterExpiry))
      BY <2>2 DEF Refresh
    <3>2. AfterExpiry \in {row, [row EXCEPT !.state = "CLOSED"]}
      BY DEF AfterExpiry
    <3>3. row.state # "none" => AnswerOf(job, AfterExpiry) \in Replies
      BY <1>1, <3>2 DEF AnswerOf, Replies, RowSet, States
    <3> QED BY <3>1, <3>3, ReleaseTyped DEF IInv
  <2> QED BY <2>1, <2>2
<1>5. TypeOK'
  <2>1. /\ notice' \in NoticeSet /\ refunds' \subseteq Order \union {NoOrder}
        /\ notices' \subseteq Order
    BY <1>1 DEF IInv, TypeOK, NoNotice, NoticeSet
  <2> QED BY <1>3, <1>4, <2>1, TypesKept DEF IInv, TypeOK
<1>6. Sight'
  <2>1. inflight' <= faults'
    BY DEF IInv, Sight, TypeOK
  <2>2. /\ inflight' > 0 => row.unknown
        /\ notices' \subseteq Existing
        /\ notice' = NoNotice \/ (notice'.order \in Existing /\ notice'.result # "none")
    BY DEF IInv, Sight, NoOrderOutOfSight
  <2> QED BY <1>1, <1>3, <2>1, <2>2, SightKept
<1>7. Holder'
  BY <1>4 DEF Holder, FreeLane, Held
<1> QED BY <1>5, <1>6, <1>7 DEF IInv

LEMMA NothingExists ==
    ASSUME IInv, row.order = NoOrder, ~row.unknown
    PROVE  Existing = {} /\ inflight = 0
<1>1. Existing \subseteq Order
  BY DEF Existing
<1>2. \A o \in Existing : row.order = o
  BY DEF IInv, Sight, NoOrderOutOfSight
<1>3. inflight \in Nat /\ ~(inflight > 0)
  BY BoundsAssumption DEF IInv, TypeOK, Sight, NoOrderOutOfSight
<1> QED BY <1>1, <1>2, <1>3, NoOrderIsNone

LEMMA RegisterRowsKept ==
    ASSUME TypeOK, UNCHANGED registerRows, act' \in ActSet
    PROVE  RegisterTyped'
BY DEF TypeOK, registerRows, RegisterTyped, ActSet

\* A step that records nothing of another order, that creates none, and that the holder's
\* knowledge survives.
LEMMA QuietStep ==
    ASSUME IInv, RegisterTyped', row' \in RowSet, lane' \in LaneSet, notice' \in NoticeSet,
           late' \subseteq {"create", "cancel", "refund"},
           expired' \in BOOLEAN, saleHeld' \in BOOLEAN,
           orders' \in [Order -> {"none", "open", "paid", "closed"}], Existing' = Existing,
           faults' \in 0..MaxFaults, inflight' \in Nat, inflight' <= faults',
           inflight' > 0 => row.unknown,
           row'.order = row.order, row'.unknown = row.unknown,
           row'.state = "none" => row.state = "none",
           refunds' \subseteq refunds \union {NoOrder}, notices' \subseteq Existing,
           notice' = NoNotice \/ (notice'.order \in Existing /\ notice'.result # "none"),
           Holder'
    PROVE  IInv'
<1>1. inflight' \in 0..MaxFaults
  BY BoundsAssumption
<1>2. notices' \subseteq Order /\ refunds' \subseteq Order \union {NoOrder}
  BY DEF IInv, TypeOK, Existing
<1>3. TypeOK'
  BY <1>1, <1>2 DEF TypeOK, RegisterTyped, RowSet, LaneSet, NoticeSet
<1>4. Sight'
  BY SightKept
<1> QED BY <1>3, <1>4 DEF IInv

\* What such a step may leave as it is.
LEMMA Unchanged ==
    ASSUME IInv
    PROVE  /\ UNCHANGED row => /\ row' \in RowSet /\ row'.order = row.order
                               /\ row'.unknown = row.unknown
                               /\ row'.state = "none" => row.state = "none"
           /\ UNCHANGED lane => lane' \in LaneSet
           /\ UNCHANGED act => act' \in ActSet
           /\ UNCHANGED notice =>
                /\ notice' \in NoticeSet
                /\ notice' = NoNotice \/ (notice'.order \in Existing /\ notice'.result # "none")
           /\ UNCHANGED expired => expired' \in BOOLEAN
           /\ UNCHANGED saleHeld => saleHeld' \in BOOLEAN
           /\ UNCHANGED refunds => refunds' \subseteq refunds \union {NoOrder}
           /\ UNCHANGED late => late' \subseteq {"create", "cancel", "refund"}
           /\ UNCHANGED orders =>
                /\ orders' \in [Order -> {"none", "open", "paid", "closed"}]
                /\ Existing' = Existing
           /\ UNCHANGED notices => notices' \subseteq Existing
           /\ UNCHANGED faults => faults' \in 0..MaxFaults
           /\ UNCHANGED <<inflight, faults>> => inflight' \in Nat /\ inflight' <= faults'
           /\ UNCHANGED inflight => (inflight' > 0 => row.unknown)
<1>1. inflight \in Nat /\ inflight <= faults
  BY BoundsAssumption DEF IInv, TypeOK, Sight
<1>2. /\ row \in RowSet /\ lane \in LaneSet /\ act \in ActSet /\ notice \in NoticeSet
      /\ orders \in [Order -> {"none", "open", "paid", "closed"}]
  BY DEF IInv, TypeOK, RowSet, LaneSet, ActSet, NoticeSet
<1>3. /\ expired \in BOOLEAN /\ saleHeld \in BOOLEAN /\ faults \in 0..MaxFaults
      /\ late \subseteq {"create", "cancel", "refund"}
  BY DEF IInv, TypeOK
<1>4. /\ notices \subseteq Existing
      /\ inflight > 0 => row.unknown
      /\ notice = NoNotice \/ (notice.order \in Existing /\ notice.result # "none")
  BY DEF IInv, Sight, NoOrderOutOfSight
<1>5. UNCHANGED orders => Existing' = Existing
  BY DEF Existing
<1>6. UNCHANGED <<inflight, faults>> => inflight' \in Nat /\ inflight' <= faults'
  BY <1>1
<1> QED BY <1>2, <1>3, <1>4, <1>5, <1>6

-----------------------------------------------------------------------------
(* The steps of the cloud: what begins a work in the lane *)

LEMMA TakenKeepsLate ==
    ASSUME IInv, NEW kind, NEW a \in Someone, Taken(kind, a)
    PROVE  late' \subseteq {"create", "cancel", "refund"}
BY DEF IInv, TypeOK, Taken

LEMMA BeginCreateKeeps == ASSUME IInv, NEW a \in Someone, BeginCreate(a) PROVE IInv'
<1> DEFINE creates == \/ row.state = "none"
                      \/ row.state = "PENDING" /\ row.order = NoOrder /\ ~expired
           earlier == IF row.state = "none" THEN "none"
                      ELSE IF row.unknown THEN "unknown" ELSE "nothing"
<1>1. late' \subseteq {"create", "cancel", "refund"}
  BY TakenKeepsLate DEF BeginCreate
<1>2. UNCHANGED <<registerRows, saleHeld, notice, orders, inflight, notices, faults>>
  BY DEF BeginCreate, providerVars
<1>3. CASE /\ creates
           /\ row' = [row EXCEPT !.state = "PENDING", !.unknown = TRUE]
           /\ expired' = FALSE
           /\ lane' = Held("creating", "create", a, earlier)
           /\ UNCHANGED <<act, refunds>>
  <2>1. /\ row \in RowSet
        /\ row' \in RowSet /\ row'.order = row.order /\ row'.unknown = TRUE
        /\ row'.state = "PENDING"
    BY <1>3 DEF IInv, TypeOK, RowSet, States
  <2>2. row.order = NoOrder
    BY <1>3 DEF IInv, Sight
  <2>3. lane' \in LaneSet /\ lane'.step = "creating" /\ lane'.job = "create" /\ lane'.earlier = earlier
    BY <1>3 DEF Held, LaneSet, Someone
  <2>4. earlier # "unknown" => Existing = {} /\ inflight = 0
    BY <2>2, NothingExists DEF IInv, Sight
  <2>5. Existing' = Existing
    BY <1>2 DEF Existing
  <2>6. TypeOK'
    BY <1>1, <1>2, <1>3, <2>1, <2>3, Unchanged, TypesKept DEF IInv, TypeOK
  <2>7. Sight'
    BY <1>2, <1>3, <2>1, <2>2, <2>5 DEF IInv, Sight, NoOrderOutOfSight, RefundedOnce
  <2>8. Holder'
    BY <1>2, <2>1, <2>2, <2>3, <2>4, <2>5 DEF Holder, AwaitsUnrecordedOrder
  <2> QED BY <2>6, <2>7, <2>8 DEF IInv
<1>4. CASE ~creates /\ Refresh("create", a) /\ UNCHANGED expired
  <2>1. faults' \in 0..MaxFaults /\ faults <= faults'
    BY <1>2, BoundsAssumption DEF IInv, TypeOK
  <2> QED BY <1>1, <1>2, <1>4, <2>1, RefreshKeeps DEF Jobs
<1> QED BY <1>3, <1>4 DEF BeginCreate

LEMMA BeginReadKeeps == ASSUME IInv, NEW a \in Someone, BeginRead(a) PROVE IInv'
<1>1. late' \subseteq {"create", "cancel", "refund"}
  BY TakenKeepsLate DEF BeginRead
<1>2. UNCHANGED <<registerRows, expired, saleHeld, notice, orders, inflight, notices, faults>>
  BY DEF BeginRead, providerVars
<1>3. CASE row.state = "none"
  <2>1. Release(a, "not_recorded") /\ UNCHANGED <<row, refunds>>
    BY <1>3 DEF BeginRead
  <2>2. lane' = FreeLane /\ lane' \in LaneSet /\ act' \in ActSet
    BY <2>1, ReleaseTyped DEF IInv, Replies
  <2>3. Holder'
    BY <2>2 DEF Holder, FreeLane, Held
  <2>4. RegisterTyped'
    BY <1>2, <2>2, RegisterRowsKept DEF IInv
  <2> QED BY <1>1, <1>2, <2>1, <2>2, <2>3, <2>4, Unchanged, QuietStep
<1>4. CASE row.state # "none"
  <2>1. faults' \in 0..MaxFaults /\ faults <= faults' /\ Refresh("read", a)
    BY <1>2, <1>4, BoundsAssumption DEF IInv, TypeOK, BeginRead
  <2> QED BY <1>1, <1>2, <1>4, <2>1, RefreshKeeps DEF Jobs
<1> QED BY <1>3, <1>4

LEMMA BeginCancelKeeps == ASSUME IInv, NEW a \in Someone, BeginCancel(a) PROVE IInv'
<1>1. late' \subseteq {"create", "cancel", "refund"}
  BY TakenKeepsLate DEF BeginCancel
<1>2. UNCHANGED <<registerRows, expired, saleHeld, notice, orders, inflight, notices, faults>>
  BY DEF BeginCancel, providerVars
<1>3. CASE row.state = "none"
  <2>1. /\ row' = [row EXCEPT !.state = "CLOSED"] /\ UNCHANGED refunds
        /\ Release(a, "CLOSED")
    BY <1>3 DEF BeginCancel
  <2>2. lane' = FreeLane /\ lane' \in LaneSet /\ act' \in ActSet
    BY <2>1, ReleaseTyped DEF IInv, Replies
  <2>3. Holder'
    BY <2>2 DEF Holder, FreeLane, Held
  <2>4. RegisterTyped'
    BY <1>2, <2>2, RegisterRowsKept DEF IInv
  <2>5. /\ row' \in RowSet /\ row'.order = row.order /\ row'.unknown = row.unknown
        /\ row'.state = "CLOSED"
    BY <2>1 DEF IInv, TypeOK, RowSet, States
  <2> QED BY <1>1, <1>2, <2>1, <2>2, <2>3, <2>4, <2>5, Unchanged, QuietStep
<1>4. CASE row.state # "none"
  <2>1. faults' \in 0..MaxFaults /\ faults <= faults' /\ Refresh("cancel", a)
    BY <1>2, <1>4, BoundsAssumption DEF IInv, TypeOK, BeginCancel
  <2> QED BY <1>1, <1>2, <1>4, <2>1, RefreshKeeps DEF Jobs
<1> QED BY <1>3, <1>4

LEMMA BeginRefundKeeps == ASSUME IInv, NEW a \in Someone, BeginRefund(a) PROVE IInv'
<1>1. late' \subseteq {"create", "cancel", "refund"}
  BY TakenKeepsLate DEF BeginRefund
<1>2. /\ UNCHANGED <<registerRows, row, expired, saleHeld, notice, orders, inflight, notices, faults>>
      /\ refunds' \subseteq refunds \union {NoOrder}
      /\ Release(a, "opened") \/ Release(a, "not_opened")
  BY DEF BeginRefund, providerVars
<1>3. lane' = FreeLane /\ lane' \in LaneSet /\ act' \in ActSet
  BY <1>2, ReleaseTyped DEF IInv, Replies
<1>4. Holder'
  BY <1>3 DEF Holder, FreeLane, Held
<1>5. RegisterTyped'
  BY <1>2, <1>3, RegisterRowsKept DEF IInv
<1> QED BY <1>1, <1>2, <1>3, <1>4, <1>5, Unchanged, QuietStep

LEMMA BeginCheckKeeps == ASSUME IInv, BeginCheck PROVE IInv'
<1> DEFINE job == IF row.replaced THEN "cancel" ELSE "read"
<1>1. UNCHANGED <<registerRows, expired, saleHeld, late, notice, orders, inflight, notices, faults>>
  BY DEF BeginCheck, providerVars
<1>2. CASE AwaitsUnrecordedOrder
  <2>1. lane' = Held("searching", job, "nobody", "none") /\ UNCHANGED <<row, refunds, act>>
    BY <1>2 DEF BeginCheck
  <2>2. lane' \in LaneSet /\ Holder'
    BY <1>2, <2>1 DEF LaneSet, Held, Holder, AwaitsUnrecordedOrder
  <2>3. RegisterTyped'
    BY <1>1, <2>1, Unchanged, RegisterRowsKept DEF IInv
  <2> QED BY <1>1, <2>1, <2>2, <2>3, Unchanged, QuietStep
<1>3. CASE ~AwaitsUnrecordedOrder
  <2>1. job \in Jobs /\ job # "notice" /\ Refresh(job, "nobody")
    BY <1>3 DEF BeginCheck, Jobs
  <2>2. faults' \in 0..MaxFaults /\ faults <= faults' /\ late' \subseteq {"create", "cancel", "refund"}
    BY <1>1, BoundsAssumption DEF IInv, TypeOK
  <2> HIDE DEF job
  <2> QED BY <1>1, <2>1, <2>2, RefreshKeeps DEF Someone
<1> QED BY <1>2, <1>3

-----------------------------------------------------------------------------
(* What the steps of a holder have in common *)

LEMMA Freed ==
    ASSUME IInv, NEW a \in Someone, NEW reply, a = "nobody" \/ reply \in Replies,
           Release(a, reply), UNCHANGED registerRows
    PROVE  lane' \in LaneSet /\ Holder' /\ RegisterTyped'
<1>1. lane' = FreeLane /\ lane' \in LaneSet /\ act' \in ActSet
  BY ReleaseTyped DEF IInv
<1>2. Holder'
  BY <1>1 DEF Holder, FreeLane, Held
<1>3. RegisterTyped'
  BY <1>1, RegisterRowsKept DEF IInv
<1> QED BY <1>1, <1>2, <1>3

LEMMA FaultCounted ==
    ASSUME IInv, Fault
    PROVE  /\ faults' \in 0..MaxFaults /\ faults <= faults'
           /\ inflight \in Nat /\ inflight <= faults' /\ inflight + 1 <= faults'
<1>1. inflight \in Nat /\ faults \in Nat /\ inflight <= faults
  BY BoundsAssumption DEF IInv, TypeOK, Sight
<1>2. faults < MaxFaults /\ faults' = faults + 1
  BY DEF Fault
<1> QED BY <1>1, <1>2, BoundsAssumption

LEMMA HolderIsSomeone ==
    ASSUME IInv
    PROVE  lane.for \in Someone /\ lane.job \in Jobs \union {"none"}
BY DEF IInv, TypeOK, Someone, Jobs

\* The order that the holder reads or cancels.
LEMMA OrderInHand ==
    ASSUME IInv, lane.step \in {"reading", "cancelling"}
    PROVE  /\ row.state = "PENDING" /\ row.order \in Existing /\ row.order \in Order
           /\ orders[row.order] \in Results
<1>1. row.state = "PENDING" /\ row.order \in Existing
  BY DEF IInv, Holder, Sight
<1>2. row.order \in Order /\ orders[row.order] # "none"
  BY <1>1 DEF Existing
<1> QED BY <1>1, <1>2 DEF IInv, TypeOK, Results

LEMMA HolderKept ==
    ASSUME IInv, lane'.step = lane.step, lane'.job = lane.job, lane'.earlier = lane.earlier,
           row'.state = row.state, row'.order = row.order, row'.unknown = row.unknown,
           Existing' = Existing, inflight' = inflight
    PROVE  Holder'
BY DEF IInv, Holder, AwaitsUnrecordedOrder

LEMMA ClosedStillExists ==
    ASSUME IInv, NEW o \in Existing, NEW result \in Results,
           orders' = [orders EXCEPT ![o] = result]
    PROVE  orders' \in [Order -> {"none", "open", "paid", "closed"}] /\ Existing' = Existing
<1>1. o \in Order /\ orders \in [Order -> {"none", "open", "paid", "closed"}] /\ orders[o] # "none"
  BY DEF IInv, TypeOK, Existing
<1>2. orders' \in [Order -> {"none", "open", "paid", "closed"}]
  BY <1>1 DEF Results
<1>3. \A p \in Order : orders'[p] # "none" <=> orders[p] # "none"
  BY <1>1 DEF Results
<1> QED BY <1>2, <1>3 DEF Existing

LEMMA CreationSpec ==
    ASSUME IInv, NEW o \in Creatable, CreateAtProvider(o)
    PROVE  /\ o \in Order /\ orders' \in [Order -> {"none", "open", "paid", "closed"}]
           /\ Existing' = Existing \union {o} /\ orders'[o] \in Results
           /\ notices' \subseteq Existing' /\ notices' \subseteq Order
<1>1. o \in Order /\ orders \in [Order -> {"none", "open", "paid", "closed"}]
  BY DEF IInv, TypeOK, Creatable, Existing
<1>2. /\ orders' = [orders EXCEPT ![o] = IF orders[o] = "none" THEN "open" ELSE orders[o]]
      /\ notices' = notices \union ({o} \ Existing)
  BY DEF CreateAtProvider
<1>3. orders' \in [Order -> {"none", "open", "paid", "closed"}] /\ orders'[o] \in Results
  BY <1>1, <1>2 DEF Results
<1>4. \A p \in Order : orders'[p] # "none" <=> (orders[p] # "none" \/ p = o)
  BY <1>1, <1>2, <1>3 DEF Results
<1>5. Existing' = Existing \union {o}
  BY <1>1, <1>4 DEF Existing
<1>6. notices \subseteq Existing /\ Existing \subseteq Order
  BY DEF IInv, Sight, Existing
<1> QED BY <1>1, <1>2, <1>3, <1>5, <1>6

-----------------------------------------------------------------------------
(* The steps of the cloud: what the holder does with the answers *)

LEMMA OrderCreatedKeeps == ASSUME IInv, OrderCreated PROVE IInv'
<1>1. /\ AwaitsUnrecordedOrder
      /\ lane.earlier # "unknown" => Existing = {} /\ inflight = 0
      /\ UNCHANGED <<registerRows, expired, saleHeld, late, notice, inflight, faults>>
  BY DEF OrderCreated, IInv, Holder, laneOnly
<1>2. row \in RowSet /\ row.state = "PENDING" /\ row.order = NoOrder /\ row.unknown = TRUE
  BY <1>1 DEF IInv, TypeOK, RowSet, AwaitsUnrecordedOrder
<1>3. refunds \subseteq {NoOrder} /\ lane.for \in Someone
  BY <1>2, HolderIsSomeone DEF IInv, Sight
<1>4. PICK o \in Creatable :
        /\ CreateAtProvider(o)
        /\ IF lane.earlier = "none"
           THEN Write(WithOrder(o, orders'[o], FALSE)) /\ Release(lane.for, "created")
           ELSE /\ row' = [row EXCEPT !.order = o, !.unknown = (lane.earlier = "unknown")]
                /\ lane' = Held("reading", "create", lane.for, "none")
                /\ UNCHANGED <<refunds, act>>
  BY DEF OrderCreated
<1>5. /\ o \in Order /\ orders' \in [Order -> {"none", "open", "paid", "closed"}]
      /\ Existing' = Existing \union {o} /\ orders'[o] \in Results
      /\ notices' \subseteq Existing' /\ notices' \subseteq Order
  BY <1>4, CreationSpec
<1>6. /\ row' \in RowSet /\ row'.order = o /\ row'.unknown = (lane.earlier = "unknown")
      /\ row'.state \in {"PENDING", "APPROVED", "CLOSED"} /\ refunds' \subseteq {NoOrder}
      /\ lane' \in LaneSet /\ act' \in ActSet
      /\ lane' = FreeLane \/ (/\ lane'.step = "reading" /\ lane'.job = "create"
                              /\ row'.state = "PENDING")
  <2>1. CASE lane.earlier = "none"
    <3>1. Write(WithOrder(o, orders'[o], FALSE)) /\ Release(lane.for, "created")
      BY <1>4, <2>1
    <3>2. lane' = FreeLane /\ lane' \in LaneSet /\ act' \in ActSet
      BY <1>3, <3>1, ReleaseTyped DEF IInv, Replies
    <3>3. row' = WithOrder(o, orders'[o], FALSE) /\ refunds' \subseteq refunds \union {NoOrder}
      BY <3>1, WriteSpec
    <3>4. /\ row' \in RowSet /\ row'.order = o /\ row'.unknown = FALSE
          /\ row'.state \in {"PENDING", "APPROVED", "CLOSED"}
      BY <1>2, <1>5, <3>3, WithOrderSpec DEF IInv
    <3> QED BY <1>3, <2>1, <3>2, <3>3, <3>4
  <2>2. CASE lane.earlier # "none"
    <3>1. /\ row' = [row EXCEPT !.order = o, !.unknown = (lane.earlier = "unknown")]
          /\ lane' = Held("reading", "create", lane.for, "none")
          /\ UNCHANGED <<refunds, act>>
      BY <1>4, <2>2
    <3>2. /\ row' \in RowSet /\ row'.order = o /\ row'.unknown = (lane.earlier = "unknown")
          /\ row'.state = "PENDING"
      BY <1>2, <1>5, <3>1 DEF RowSet
    <3>3. lane' \in LaneSet /\ lane'.step = "reading" /\ lane'.job = "create"
      BY <1>3, <3>1 DEF Held, LaneSet, Someone
    <3> QED BY <1>3, <3>1, <3>2, <3>3, Unchanged
  <2> QED BY <2>1, <2>2
<1>7. TypeOK'
  BY <1>1, <1>5, <1>6, Unchanged, TypesKept DEF IInv, TypeOK
<1>8. lane.earlier # "unknown" => Existing' = {o} /\ inflight' = 0
  BY <1>1, <1>5
<1>9. Sight'
  <2>1. NoOrderOutOfSight'
    <3>1. CASE lane.earlier = "unknown"
      BY <1>6, <3>1 DEF NoOrderOutOfSight
    <3>2. CASE lane.earlier # "unknown"
      BY <1>6, <1>8, <3>2 DEF NoOrderOutOfSight
    <3> QED BY <3>1, <3>2
  <2>2. RefundedOnce'
    BY <1>6 DEF RefundedOnce
  <2>3. inflight' <= faults' /\ row'.order \in Existing' /\ row'.order # NoOrder
    BY <1>1, <1>5, <1>6, NoOrderIsNone DEF IInv, Sight
  <2>4. notice' = NoNotice \/ (notice'.order \in Existing' /\ notice'.result # "none")
    BY <1>1, <1>5 DEF IInv, Sight
  <2> QED BY <1>5, <1>6, <2>1, <2>2, <2>3, <2>4 DEF Sight
<1>10. Holder'
  BY <1>5, <1>6, NoOrderIsNone DEF Holder, FreeLane, Held
<1> QED BY <1>7, <1>9, <1>10 DEF IInv

LEMMA OrderNotCreatedKeeps == ASSUME IInv, OrderNotCreated PROVE IInv'
<1>1. /\ AwaitsUnrecordedOrder
      /\ lane.earlier # "unknown" => Existing = {} /\ inflight = 0
      /\ UNCHANGED <<registerRows, expired, saleHeld, late, notice, refunds, orders, notices,
                     inflight, faults>>
  BY DEF OrderNotCreated, IInv, Holder, laneOnly, providerVars
<1>2. /\ row \in RowSet /\ row' = [row EXCEPT !.unknown = (lane.earlier = "unknown")]
      /\ row.state = "PENDING" /\ row.order = NoOrder
  BY <1>1 DEF IInv, TypeOK, RowSet, AwaitsUnrecordedOrder, OrderNotCreated
<1>3. /\ row' \in RowSet /\ row'.state = "PENDING" /\ row'.order = NoOrder
      /\ row'.unknown = (lane.earlier = "unknown")
  BY <1>2 DEF RowSet
<1>4. PICK reply \in Replies : Release(lane.for, reply)
  BY DEF OrderNotCreated, Replies
<1>5. lane' = FreeLane /\ lane' \in LaneSet /\ act' \in ActSet
  BY <1>4, HolderIsSomeone, ReleaseTyped DEF IInv
<1>6. Existing' = Existing
  BY <1>1 DEF Existing
<1>7. TypeOK'
  BY <1>1, <1>3, <1>5, Unchanged, TypesKept DEF IInv, TypeOK
<1>8. Sight'
  <2>1. NoOrderOutOfSight'
    <3>1. CASE lane.earlier = "unknown"
      BY <1>3, <3>1 DEF NoOrderOutOfSight
    <3>2. CASE lane.earlier # "unknown"
      BY <1>1, <1>6, <3>2 DEF NoOrderOutOfSight
    <3> QED BY <3>1, <3>2
  <2>2. RefundedOnce' /\ refunds' \subseteq {NoOrder}
    BY <1>1, <1>2, <1>3 DEF IInv, Sight, RefundedOnce
  <2>3. /\ inflight' <= faults' /\ notices' \subseteq Existing
        /\ notice' = NoNotice \/ (notice'.order \in Existing /\ notice'.result # "none")
    BY <1>1 DEF IInv, Sight
  <2> QED BY <1>3, <1>6, <2>1, <2>2, <2>3 DEF Sight
<1>9. Holder'
  BY <1>5 DEF Holder, FreeLane, Held
<1> QED BY <1>7, <1>8, <1>9 DEF IInv

LEMMA CreationUnansweredKeeps == ASSUME IInv, CreationUnanswered PROVE IInv'
<1>1. /\ UNCHANGED <<registerRows, row, expired, refunds, saleHeld, late, notice, orders, notices>>
      /\ inflight' = inflight + 1 /\ Release(lane.for, "provider_unavailable")
  BY DEF CreationUnanswered, laneOnly
<1>2. row.unknown
  BY DEF CreationUnanswered, IInv, Holder, AwaitsUnrecordedOrder
<1>3. lane' \in LaneSet /\ Holder' /\ RegisterTyped'
  BY <1>1, HolderIsSomeone, Freed DEF Replies
<1>4. faults' \in 0..MaxFaults /\ inflight' \in Nat /\ inflight' <= faults'
  BY <1>1, FaultCounted DEF CreationUnanswered
<1> QED BY <1>1, <1>2, <1>3, <1>4, Unchanged, QuietStep

LEMMA OrderReadKeeps == ASSUME IInv, OrderRead PROVE IInv'
<1> DEFINE result == orders[row.order]
<1>1. /\ lane.step = "reading" /\ Write(WithResult(result))
      /\ UNCHANGED <<registerRows, expired, saleHeld, late, notice, orders, inflight, notices, faults>>
  BY DEF OrderRead, laneOnly, providerVars
<1>2. row.state = "PENDING" /\ row.order \in Order /\ result \in Results
  BY <1>1, OrderInHand
<1>3. /\ row' = WithResult(result) /\ row' \in RowSet /\ row'.order = row.order
      /\ row'.unknown = row.unknown /\ row'.state \in {"PENDING", "APPROVED", "CLOSED"}
      /\ refunds' \subseteq refunds \union {NoOrder}
  BY <1>1, <1>2, WriteSpec, WithResultSpec DEF IInv
<1>4. lane' \in LaneSet /\ Holder' /\ RegisterTyped'
  <2>1. CASE lane.job = "cancel" /\ result = "open"
    <3>1. lane' = [lane EXCEPT !.step = "cancelling"] /\ UNCHANGED act
      BY <2>1 DEF OrderRead
    <3>2. lane' \in LaneSet /\ lane'.step = "cancelling" /\ lane'.job = "cancel"
      BY <2>1, <3>1 DEF IInv, TypeOK, LaneSet
    <3>3. row'.state = "PENDING"
      <4>1. row \in RowSet
        BY DEF IInv, TypeOK, RowSet
      <4> QED BY <1>3, <2>1, <4>1 DEF WithResult, StateOf, RowSet
    <3>4. Holder'
      BY <1>2, <1>3, <3>2, <3>3, NoOrderIsNone DEF Holder
    <3>5. RegisterTyped'
      BY <1>1, <3>1, Unchanged, RegisterRowsKept DEF IInv
    <3> QED BY <3>2, <3>4, <3>5
  <2>2. CASE ~(lane.job = "cancel" /\ result = "open")
    <3>1. Release(lane.for, AnswerOf(lane.job, WithResult(result)))
      BY <2>2 DEF OrderRead
    <3>2. AnswerOf(lane.job, WithResult(result)) \in Replies
      BY <1>3 DEF AnswerOf, Replies
    <3> HIDE DEF result
    <3> QED BY <1>1, <3>1, <3>2, HolderIsSomeone, Freed
  <2> QED BY <2>1, <2>2
<1> QED BY <1>1, <1>3, <1>4, Unchanged, QuietStep

LEMMA OrderNotReadKeeps == ASSUME IInv, OrderNotRead PROVE IInv'
<1>1. /\ lane.step = "reading" /\ Release(lane.for, ProviderUnavailable(lane.job))
      /\ UNCHANGED <<registerRows, row, expired, refunds, saleHeld, late, notice, orders, inflight>>
      /\ notices' = notices \union Renotified
  BY DEF OrderNotRead, laneOnly
<1>2. ProviderUnavailable(lane.job) \in Replies
  BY DEF ProviderUnavailable, Replies
<1>3. lane' \in LaneSet /\ Holder' /\ RegisterTyped'
  BY <1>1, <1>2, HolderIsSomeone, Freed
<1>4. faults' \in 0..MaxFaults /\ inflight' \in Nat /\ inflight' <= faults'
  BY <1>1, FaultCounted DEF OrderNotRead
<1>5. notices' \subseteq Existing
  BY <1>1, OrderInHand DEF Renotified, IInv, Sight
<1> QED BY <1>1, <1>3, <1>4, <1>5, Unchanged, QuietStep

LEMMA OrdersSearchedKeeps == ASSUME IInv, OrdersSearched PROVE IInv'
<1> DEFINE Kept == IF Paid # {} THEN Paid ELSE IF Cardinality(Existing) = 1 THEN Existing ELSE {}
<1>1. /\ AwaitsUnrecordedOrder /\ lane.job \in {"read", "cancel"}
      /\ UNCHANGED <<registerRows, expired, saleHeld, late, notice, orders, inflight, notices>>
  BY DEF OrdersSearched, IInv, Holder, laneOnly, providerVars
<1>2. row \in RowSet /\ row.state = "PENDING" /\ row.order = NoOrder /\ row.unknown = TRUE
  BY <1>1 DEF IInv, TypeOK, RowSet, AwaitsUnrecordedOrder
<1>3. Paid \subseteq Existing /\ Existing \subseteq Order /\ Existing' = Existing
  BY <1>1 DEF Paid, Existing
<1>4. CASE \E o \in Kept :
              LET after == WithOrder(o, orders[o], TRUE)
              IN  /\ row' = after
                  /\ refunds' = refunds \union LateRefund(after) \union (Paid \ {o})
                  /\ Release("nobody", "PENDING") /\ UNCHANGED faults
  <2>1. PICK o \in Kept :
          /\ row' = WithOrder(o, orders[o], TRUE)
          /\ refunds' = refunds \union LateRefund(WithOrder(o, orders[o], TRUE)) \union (Paid \ {o})
          /\ Release("nobody", "PENDING") /\ UNCHANGED faults
    BY <1>4
  <2>2. o \in Existing /\ o \in Order /\ orders[o] # "none"
    BY <1>3 DEF Existing
  <2>3. orders[o] \in Results
    BY <2>2 DEF IInv, TypeOK, Results
  <2>4. /\ row' \in RowSet /\ row'.order = o /\ row'.unknown = TRUE
        /\ row'.state \in {"PENDING", "APPROVED", "CLOSED"}
    BY <1>2, <2>1, <2>2, <2>3, WithOrderSpec DEF IInv
  <2>5. refunds' \subseteq {NoOrder} \union (Paid \ {o})
    BY <1>2, <2>1 DEF IInv, Sight, LateRefund
  <2>6. lane' = FreeLane /\ lane' \in LaneSet /\ act' \in ActSet
    BY <2>1, ReleaseTyped DEF IInv, Someone
  <2>7. refunds' \subseteq Order \union {NoOrder}
    BY <1>3, <2>5
  <2>8. TypeOK'
    BY <1>1, <2>1, <2>4, <2>6, <2>7, Unchanged, TypesKept DEF IInv, TypeOK
  <2>9. Sight'
    <3>1. NoOrderOutOfSight' /\ RefundedOnce'
      BY <2>4, <2>5 DEF NoOrderOutOfSight, RefundedOnce
    <3>2. row'.order \in Existing' /\ row'.order # NoOrder /\ row'.state # "none"
      BY <1>3, <2>2, <2>4, NoOrderIsNone
    <3>3. /\ inflight' <= faults' /\ notices' \subseteq Existing'
          /\ notice' = NoNotice \/ (notice'.order \in Existing' /\ notice'.result # "none")
      BY <1>1, <1>3, <2>1 DEF IInv, Sight
    <3> QED BY <3>1, <3>2, <3>3 DEF Sight
  <2>10. Holder'
    BY <2>6 DEF Holder, FreeLane, Held
  <2> QED BY <2>8, <2>9, <2>10 DEF IInv
<1>5. CASE /\ IF Kept = {} THEN UNCHANGED faults ELSE Fault
           /\ Refresh(lane.job, "nobody")
  <2>1. UNCHANGED faults \/ Fault
    BY <1>5
  <2>2. faults' \in 0..MaxFaults /\ faults <= faults' /\ late' \subseteq {"create", "cancel", "refund"}
    BY <1>1, <2>1, FaultCounted, BoundsAssumption DEF IInv, TypeOK
  <2> QED BY <1>1, <1>5, <2>2, RefreshKeeps DEF Someone, Jobs
<1> QED BY <1>4, <1>5 DEF OrdersSearched

LEMMA CancellationAnsweredKeeps == ASSUME IInv, CancellationAnswered PROVE IInv'
<1> DEFINE o == row.order
           open == orders[o] = "open"
<1>1. /\ lane.step = "cancelling"
      /\ UNCHANGED <<registerRows, expired, saleHeld, late, notice, inflight, faults>>
  BY DEF CancellationAnswered, laneOnly
<1>2. o \in Existing /\ orders[o] \in Results
  BY <1>1, OrderInHand
<1>3. PICK result \in Results, reply \in Replies :
        /\ Write(WithResult(result)) /\ Release(lane.for, reply)
        /\ \/ orders' = [orders EXCEPT ![o] = "closed"] /\ notices' = notices \union {o}
           \/ UNCHANGED <<orders, notices>>
  <2>1. CASE /\ open
             /\ orders' = [orders EXCEPT ![o] = "closed"] /\ notices' = notices \union {o}
             /\ Write(WithResult("closed")) /\ Release(lane.for, "CLOSED")
    BY <2>1 DEF Results, Replies
  <2>2. CASE /\ Write(WithResult(orders[o]))
             /\ Release(lane.for, IF local.method = "POINT" /\ open THEN "cancel_on_terminal"
                                  ELSE AnswerOf("cancel", WithResult(orders[o])))
             /\ UNCHANGED <<orders, notices>>
    <3>1. AnswerOf("cancel", WithResult(orders[o])) \in Replies
      BY <1>2, WithResultSpec DEF AnswerOf, Replies, IInv
    <3>2. PICK reply \in Replies : Release(lane.for, reply)
      BY <2>2, <3>1 DEF Replies
    <3> QED BY <1>2, <2>2, <3>2
  <2> QED BY <2>1, <2>2 DEF CancellationAnswered
<1>4. /\ row' = WithResult(result) /\ row' \in RowSet /\ row'.order = row.order
      /\ row'.unknown = row.unknown /\ row'.state \in {"PENDING", "APPROVED", "CLOSED"}
      /\ refunds' \subseteq refunds \union {NoOrder}
  BY <1>3, WriteSpec, WithResultSpec DEF IInv
<1>5. lane' \in LaneSet /\ Holder' /\ RegisterTyped'
  BY <1>1, <1>3, HolderIsSomeone, Freed
<1>6. /\ orders' \in [Order -> {"none", "open", "paid", "closed"}] /\ Existing' = Existing
      /\ notices' \subseteq Existing
  BY <1>2, <1>3, ClosedStillExists, Unchanged DEF IInv, Sight, Results
<1> QED BY <1>1, <1>4, <1>5, <1>6, Unchanged, QuietStep

LEMMA CancellationUnansweredKeeps == ASSUME IInv, CancellationUnanswered PROVE IInv'
<1>1. /\ lane.step = "cancelling" /\ Release(lane.for, "unreachable")
      /\ UNCHANGED <<registerRows, row, expired, refunds, saleHeld, late, notice, inflight>>
      /\ \/ orders' = [orders EXCEPT ![row.order] = "closed"] /\ notices' = notices \union {row.order}
         \/ UNCHANGED <<orders, notices>>
  BY DEF CancellationUnanswered, laneOnly
<1>2. row.order \in Existing
  BY <1>1, OrderInHand
<1>3. lane' \in LaneSet /\ Holder' /\ RegisterTyped'
  BY <1>1, HolderIsSomeone, Freed DEF Replies
<1>4. faults' \in 0..MaxFaults /\ inflight' \in Nat /\ inflight' <= faults'
  BY <1>1, FaultCounted DEF CancellationUnanswered
<1>5. /\ orders' \in [Order -> {"none", "open", "paid", "closed"}] /\ Existing' = Existing
      /\ notices' \subseteq Existing
  BY <1>1, <1>2, ClosedStillExists, Unchanged DEF IInv, Sight, Results
<1> QED BY <1>1, <1>3, <1>4, <1>5, Unchanged, QuietStep

LEMMA LaneLostKeeps == ASSUME IInv, LaneLost PROVE IInv'
<1>1. /\ UNCHANGED <<registerRows, row, expired, refunds, saleHeld, late, notice, orders>>
      /\ inflight' = inflight + IF lane.step = "creating" THEN 1 ELSE 0
      /\ notices' = notices \union Renotified
  BY DEF LaneLost, laneOnly
<1>2. PICK reply \in Replies : Release(lane.for, reply)
  BY DEF LaneLost, Replies
<1>3. lane' \in LaneSet /\ Holder' /\ RegisterTyped'
  BY <1>1, <1>2, HolderIsSomeone, Freed
<1>4. faults' \in 0..MaxFaults /\ inflight' \in Nat /\ inflight' <= faults'
  BY <1>1, FaultCounted DEF LaneLost
<1>5. inflight' > 0 => row.unknown
  <2>1. CASE lane.step = "creating"
    BY <2>1 DEF IInv, Holder, AwaitsUnrecordedOrder
  <2>2. CASE lane.step # "creating"
    BY <1>1, <2>2, FaultCounted DEF LaneLost, IInv, Sight, NoOrderOutOfSight
  <2> QED BY <2>1, <2>2
<1>6. notices' \subseteq Existing
  <2>1. lane.job = "notice" => row.order \in Existing
    BY OrderInHand DEF IInv, Holder
  <2> QED BY <1>1, <2>1 DEF Renotified, IInv, Sight
<1> QED BY <1>1, <1>3, <1>4, <1>5, <1>6, Unchanged, QuietStep

-----------------------------------------------------------------------------
(* Notifications, events and time, and the orders of Mercado Pago *)

LEMMA TakeNoticeKeeps == ASSUME IInv, NEW o \in Order, TakeNotice(o) PROVE IInv'
<1>1. /\ UNCHANGED <<registerRows, expired, saleHeld, late, orders, inflight, faults>>
      /\ o \in notices /\ notices' \subseteq notices
  BY DEF TakeNotice
<1>2. o \in Existing
  BY <1>1 DEF IInv, Sight
<1>3. CASE Refresh("notice", "nobody") /\ UNCHANGED notice
  <2>1. /\ faults' \in 0..MaxFaults /\ faults <= faults'
        /\ late' \subseteq {"create", "cancel", "refund"}
    BY <1>1, BoundsAssumption DEF IInv, TypeOK
  <2> QED BY <1>1, <1>3, <2>1, RefreshKeeps DEF Someone, Jobs
<1>4. CASE /\ notice' = IF row.unknown THEN [order |-> o, result |-> orders[o]] ELSE notice
           /\ UNCHANGED <<row, refunds, lane, act>>
  <2>1. /\ notice' \in NoticeSet
        /\ notice' = NoNotice \/ (notice'.order \in Existing /\ notice'.result # "none")
    <3>1. CASE row.unknown
      BY <1>2, <1>4, <3>1 DEF NoticeSet, IInv, TypeOK, Existing
    <3>2. CASE ~row.unknown
      BY <1>4, <3>2, Unchanged
    <3> QED BY <3>1, <3>2
  <2>2. Holder' /\ RegisterTyped' /\ notices' \subseteq Existing
    BY <1>1, <1>4, Unchanged, HolderKept, RegisterRowsKept DEF IInv, Sight
  <2> QED BY <1>1, <1>4, <2>1, <2>2, Unchanged, QuietStep
<1> QED BY <1>3, <1>4 DEF TakeNotice

LEMMA HandleNoticeKeeps == ASSUME IInv, HandleNotice PROVE IInv'
<1> DEFINE o == notice.order
           result == notice.result
<1>1. /\ UNCHANGED <<registerRows, expired, saleHeld, late, orders, inflight, notices, faults>>
      /\ notice' = NoNotice /\ lane.step = "free" /\ Existing' = Existing
  BY DEF HandleNotice, providerVars, LaneIsFree, Existing
<1>2. o \in Existing /\ o \in Order /\ result \in Results
  <2>1. notice \in NoticeSet /\ o \in Existing /\ result # "none"
    BY DEF HandleNotice, IInv, Sight, TypeOK, NoticeSet
  <2> QED BY <2>1 DEF NoticeSet, Results, Existing
<1>3. notice' \in NoticeSet
  BY <1>1 DEF NoNotice, NoticeSet
<1>4. CASE row.order = o /\ Refresh("notice", "nobody")
  <2>1. /\ faults' \in 0..MaxFaults /\ faults <= faults'
        /\ late' \subseteq {"create", "cancel", "refund"}
    BY <1>1, BoundsAssumption DEF IInv, TypeOK
  <2> QED BY <1>1, <1>4, <2>1, RefreshKeeps DEF Someone, Jobs
<1>5. CASE /\ row.order \notin {o, NoOrder}
           /\ refunds' = refunds \union IF result = "paid" THEN {o} ELSE {}
           /\ UNCHANGED <<row, lane, act>>
  <2>1. /\ lane' \in LaneSet /\ act' \in ActSet /\ Holder' /\ row' \in RowSet
        /\ late' \subseteq {"create", "cancel", "refund"}
    BY <1>1, <1>5, Unchanged, HolderKept
  <2>2. refunds' \subseteq refunds \union {o} /\ refunds' \subseteq Order \union {NoOrder}
    BY <1>2, <1>5 DEF IInv, TypeOK
  <2>3. TypeOK'
    BY <1>1, <1>3, <2>1, <2>2, Unchanged, TypesKept DEF IInv, TypeOK
  <2>4. Sight'
    <3>1. NoOrderOutOfSight' /\ RefundedOnce'
      BY <1>1, <1>5, <2>2 DEF IInv, Sight, NoOrderOutOfSight, RefundedOnce
    <3> QED BY <1>1, <1>5, <3>1 DEF IInv, Sight
  <2> QED BY <2>1, <2>3, <2>4 DEF IInv
<1>6. CASE /\ row.order = NoOrder /\ AwaitsUnrecordedOrder
           /\ Write(WithOrder(o, result, TRUE)) /\ UNCHANGED <<lane, act>>
  <2>1. /\ row' = WithOrder(o, result, TRUE)
        /\ refunds' \subseteq refunds \union {NoOrder} /\ refunds \subseteq {NoOrder}
    BY <1>6, WriteSpec DEF IInv, Sight
  <2>2. /\ row' \in RowSet /\ row'.order = o /\ row'.unknown
        /\ row'.state \in {"PENDING", "APPROVED", "CLOSED"}
    <3> HIDE DEF o, result
    <3> QED BY <1>2, <1>6, <2>1, WithOrderSpec DEF IInv, AwaitsUnrecordedOrder
  <2>3. /\ lane' \in LaneSet /\ act' \in ActSet /\ Holder'
        /\ late' \subseteq {"create", "cancel", "refund"}
    <3>1. lane' \in LaneSet /\ act' \in ActSet /\ late' \subseteq {"create", "cancel", "refund"}
      BY <1>1, <1>6, Unchanged
    <3>2. lane'.step = "free" /\ lane'.job # "notice"
      BY <1>1, <1>6 DEF IInv, Holder
    <3> QED BY <3>1, <3>2 DEF Holder
  <2>4. TypeOK'
    BY <1>1, <1>3, <2>1, <2>2, <2>3, Unchanged, TypesKept DEF IInv, TypeOK
  <2>5. Sight'
    <3>1. NoOrderOutOfSight' /\ RefundedOnce'
      BY <2>1, <2>2 DEF NoOrderOutOfSight, RefundedOnce
    <3>2. row'.order \in Existing' /\ row'.order # NoOrder /\ row'.state # "none"
      BY <1>1, <1>2, <2>2, NoOrderIsNone
    <3> QED BY <1>1, <3>1, <3>2 DEF IInv, Sight
  <2> QED BY <2>3, <2>4, <2>5 DEF IInv
<1>7. CASE UNCHANGED <<row, refunds, lane, act>>
  <2>1. Holder' /\ RegisterTyped'
    BY <1>1, <1>7, HolderKept, Unchanged, RegisterRowsKept DEF IInv
  <2> QED BY <1>1, <1>3, <1>7, <2>1, Unchanged, QuietStep
<1> QED BY <1>4, <1>5, <1>6, <1>7 DEF HandleNotice

LEMMA ApplyReplacedKeeps == ASSUME IInv, ApplyReplaced PROVE IInv'
<1> DEFINE r == [row EXCEPT !.replaced = TRUE]
<1>1. /\ UNCHANGED <<sale, local, act, sends, checked, expired, saleHeld, late, lane, notice,
                     orders, inflight, notices, faults>>
      /\ outbox' \subseteq outbox /\ Write(r) /\ row \in RowSet
  BY DEF ApplyReplaced, providerVars, IInv, TypeOK, RowSet
<1>2. row' = r /\ refunds' \subseteq refunds \union {NoOrder}
  BY <1>1, WriteSpec
<1>3. /\ row' \in RowSet /\ row'.order = row.order /\ row'.unknown = row.unknown
      /\ row'.state = row.state
  BY <1>1, <1>2 DEF RowSet
<1>4. RegisterTyped' /\ Holder'
  BY <1>1, <1>3, HolderKept, Unchanged DEF IInv, TypeOK, RegisterTyped
<1> QED BY <1>1, <1>2, <1>3, <1>4, Unchanged, QuietStep

LEMMA ApplyCompletedKeeps == ASSUME IInv, ApplyCompleted PROVE IInv'
<1>1. /\ UNCHANGED <<sale, local, act, sends, checked, row, expired, refunds, late, lane, notice,
                     orders, inflight, notices, faults>>
      /\ outbox' \subseteq outbox /\ saleHeld' \in BOOLEAN
  BY DEF ApplyCompleted, providerVars
<1>2. RegisterTyped' /\ Holder'
  BY <1>1, HolderKept, Unchanged DEF IInv, TypeOK, RegisterTyped
<1> QED BY <1>1, <1>2, Unchanged, QuietStep

LEMMA ExpiryPassesKeeps == ASSUME IInv, ExpiryPasses PROVE IInv'
<1>1. /\ UNCHANGED <<registerVars, row, refunds, saleHeld, late, lane, notice,
                     orders, inflight, notices, faults>>
      /\ expired' \in BOOLEAN
  BY DEF ExpiryPasses, providerVars
<1>2. RegisterTyped' /\ Holder'
  BY <1>1, HolderKept, Unchanged DEF IInv, TypeOK, RegisterTyped, registerVars
<1> QED BY <1>1, <1>2, Unchanged, QuietStep

LEMMA EndsKeeps ==
    ASSUME IInv, NEW o \in Order, NEW result \in {"paid", "closed"}, Ends(o, result)
    PROVE  IInv'
<1>1. /\ UNCHANGED <<registerVars, cloudVars, inflight, faults>>
      /\ orders' = [orders EXCEPT ![o] = result] /\ notices' = notices \union {o}
      /\ o \in Existing
  BY DEF Ends, Existing
<1>2. /\ orders' \in [Order -> {"none", "open", "paid", "closed"}] /\ Existing' = Existing
      /\ notices' \subseteq Existing
  BY <1>1, ClosedStillExists DEF IInv, Sight, Results
<1>3. RegisterTyped' /\ Holder'
  BY <1>1, <1>2, HolderKept, Unchanged DEF IInv, TypeOK, RegisterTyped, registerVars, cloudVars
<1> QED BY <1>1, <1>2, <1>3, Unchanged, QuietStep DEF cloudVars

LEMMA LateCreationKeeps == ASSUME IInv, LateCreation PROVE IInv'
<1>1. /\ UNCHANGED <<registerVars, cloudVars, faults>>
      /\ inflight > 0 /\ inflight' = inflight - 1 /\ row.unknown
      /\ lane.step = "creating" => lane.earlier = "unknown"
  BY DEF LateCreation, IInv, Sight, NoOrderOutOfSight, Holder
<1>2. inflight' \in 0..MaxFaults /\ inflight' \in Nat /\ inflight' <= faults'
  BY <1>1, BoundsAssumption DEF IInv, TypeOK, Sight
<1>3. RegisterTyped'
  BY <1>1, Unchanged DEF IInv, TypeOK, RegisterTyped, registerVars
<1>4. CASE UNCHANGED <<orders, notices>>
  <2>1. Holder' /\ notices' \subseteq Existing
    BY <1>1, <1>4 DEF Holder, AwaitsUnrecordedOrder, cloudVars, IInv, Sight
  <2> QED BY <1>1, <1>2, <1>3, <1>4, <2>1, Unchanged, QuietStep DEF cloudVars
<1>5. CASE \E o \in Creatable : CreateAtProvider(o)
  <2>1. PICK o \in Creatable : CreateAtProvider(o)
    BY <1>5
  <2>2. /\ o \in Order /\ orders' \in [Order -> {"none", "open", "paid", "closed"}]
        /\ Existing' = Existing \union {o}
        /\ notices' \subseteq Existing' /\ notices' \subseteq Order
    BY <2>1, CreationSpec
  <2>3. TypeOK'
    BY <1>1, <1>2, <2>2 DEF IInv, TypeOK, registerVars, cloudVars
  <2>4. Sight'
    <3>1. NoOrderOutOfSight' /\ RefundedOnce'
      BY <1>1 DEF NoOrderOutOfSight, RefundedOnce, cloudVars, IInv, Sight
    <3> QED BY <1>1, <1>2, <2>2, <3>1 DEF IInv, Sight, cloudVars
  <2>5. Holder'
    BY <1>1 DEF IInv, Holder, AwaitsUnrecordedOrder, cloudVars
  <2> QED BY <2>3, <2>4, <2>5 DEF IInv
<1> QED BY <1>4, <1>5 DEF LateCreation

-----------------------------------------------------------------------------
(* The register gives up, or stops *)

LEMMA GiveUpKeeps == ASSUME IInv, NEW a \in Activity, GiveUp(a) PROVE IInv'
<1>1. /\ UNCHANGED <<registerRows, row, expired, refunds, saleHeld, notice,
                     orders, inflight, notices>>
      /\ act[a] \in Calls
      /\ lane' \in {lane, [lane EXCEPT !.for = "nobody"]}
      /\ late' \subseteq late \union ({act[a]} \ {"read", "list"})
  BY DEF GiveUp, providerVars, registerRows
<1>2. act' \in ActSet
  <2>1. \/ act' = [act EXCEPT ![a] = "order_unreachable"]
        \/ act' = [act EXCEPT ![a] = "unreachable"]
    BY DEF GiveUp
  <2> QED BY <2>1 DEF IInv, TypeOK, ActSet, Replies
<1>3. late' \subseteq {"create", "cancel", "refund"}
  BY <1>1 DEF IInv, TypeOK, Calls
<1>4. /\ lane' \in LaneSet /\ lane'.step = lane.step /\ lane'.job = lane.job
      /\ lane'.earlier = lane.earlier
  <2>1. lane \in LaneSet
    BY DEF IInv, TypeOK, LaneSet
  <2> QED BY <1>1, <2>1 DEF LaneSet
<1>5. Existing' = Existing
  BY <1>1 DEF Existing
<1>6. Holder' /\ RegisterTyped'
  BY <1>1, <1>2, <1>4, <1>5, HolderKept, RegisterRowsKept DEF IInv
<1>7. faults' \in 0..MaxFaults /\ inflight' \in Nat /\ inflight' <= faults'
  BY <1>1, FaultCounted DEF GiveUp
<1> QED BY <1>1, <1>3, <1>4, <1>6, <1>7, Unchanged, QuietStep

LEMMA RestartKeeps == ASSUME IInv, Restart PROVE IInv'
<1>1. /\ UNCHANGED <<sale, local, outbox, row, expired, refunds, saleHeld, notice,
                     orders, inflight, notices>>
      /\ act' = [a \in Activity |-> "idle"] /\ checked' = FALSE /\ sends' = 0
      /\ lane' = [lane EXCEPT !.for = "nobody"]
      /\ late' \subseteq late \union {"create", "cancel", "refund"}
  BY DEF Restart, providerVars
<1>2. RegisterTyped'
  <2>1. act' \in [Activity -> {"idle"} \union Calls \union Replies]
    BY <1>1
  <2>2. sends' = 0 /\ checked' \in BOOLEAN
    BY <1>1
  <2>3. sends' \in 0..MaxSends
    BY <2>2, BoundsAssumption
  <2> QED BY <1>1, <2>1, <2>2, <2>3 DEF IInv, TypeOK, RegisterTyped
<1>3. /\ lane' \in LaneSet /\ lane'.step = lane.step /\ lane'.job = lane.job
      /\ lane'.earlier = lane.earlier
  <2>1. lane \in LaneSet
    BY DEF IInv, TypeOK, LaneSet
  <2> QED BY <1>1, <2>1 DEF LaneSet
<1>4. Existing' = Existing /\ late' \subseteq {"create", "cancel", "refund"}
  BY <1>1 DEF Existing, IInv, TypeOK
<1>5. Holder'
  BY <1>1, <1>3, <1>4, HolderKept
<1>6. faults' \in 0..MaxFaults /\ inflight' \in Nat /\ inflight' <= faults'
  BY <1>1, FaultCounted DEF Restart
<1> QED BY <1>1, <1>2, <1>3, <1>4, <1>5, <1>6, Unchanged, QuietStep

-----------------------------------------------------------------------------
(* The theorems *)

LEMMA BeginKeeps == ASSUME IInv, NEW a \in Someone, Begin(a) PROVE IInv'
BY BeginCreateKeeps, BeginReadKeeps, BeginCancelKeeps, BeginRefundKeeps DEF Begin

LEMMA HolderStepKeeps == ASSUME IInv, HolderStep PROVE IInv'
BY OrderCreatedKeeps, OrderNotCreatedKeeps, OrderReadKeeps, OrdersSearchedKeeps,
   CancellationAnsweredKeeps DEF HolderStep

LEMMA HolderFaultKeeps == ASSUME IInv, HolderFault PROVE IInv'
BY CreationUnansweredKeeps, OrderNotReadKeeps, CancellationUnansweredKeeps, LaneLostKeeps
   DEF HolderFault

LEMMA RegisterKeeps ==
    ASSUME IInv,
           \/ Start \/ StartAnswered \/ Follow \/ FollowAnswered \/ Abandon \/ AbandonAnswered
           \/ Discover \/ ListPaidOrders \/ DiscoveryAnswered
           \/ CloseSale \/ WaitElapses \/ Restart \/ NextStart
           \/ \E a \in Activity : GiveUp(a)
    PROVE  IInv'
BY StartKeeps, StartAnsweredKeeps, FollowKeeps, FollowAnsweredKeeps, AbandonKeeps,
   AbandonAnsweredKeeps, DiscoverKeeps, ListPaidOrdersKeeps, DiscoveryAnsweredKeeps,
   CloseSaleKeeps, WaitElapsesKeeps, RestartKeeps, NextStartKeeps, GiveUpKeeps

LEMMA StutterKeeps == ASSUME IInv, UNCHANGED vars PROVE IInv'
<1>1. RegisterTyped' /\ UNCHANGED registerOnly
  BY DEF IInv, TypeOK, RegisterTyped, vars, registerVars, registerOnly
<1> QED BY <1>1, RegisterStepKeeps

\* The invariant holds in every reachable state of the register, the cloud and Mercado Pago.
THEOREM Inductive == Spec => []IInv
<1>1. IInv /\ [Next]_vars => IInv'
  <2> SUFFICES ASSUME IInv, [Next]_vars PROVE IInv'
    OBVIOUS
  <2>1. CASE \/ Start \/ StartAnswered \/ Follow \/ FollowAnswered \/ Abandon \/ AbandonAnswered
             \/ Discover \/ ListPaidOrders \/ DiscoveryAnswered
             \/ CloseSale \/ WaitElapses \/ Restart \/ NextStart
             \/ \E a \in Activity : GiveUp(a)
    BY <2>1, RegisterKeeps
  <2>2. CASE \E a \in Activity \union {"nobody"} : Begin(a)
    BY <2>2, BeginKeeps DEF Someone
  <2>3. CASE BeginCheck \/ HolderStep \/ HolderFault
    BY <2>3, BeginCheckKeeps, HolderStepKeeps, HolderFaultKeeps
  <2>4. CASE \E o \in Order : TakeNotice(o)
    BY <2>4, TakeNoticeKeeps
  <2>5. CASE HandleNotice \/ ApplyReplaced \/ ApplyCompleted \/ ExpiryPasses \/ LateCreation
    BY <2>5, HandleNoticeKeeps, ApplyReplacedKeeps, ApplyCompletedKeeps, ExpiryPassesKeeps,
       LateCreationKeeps
  <2>6. CASE \E o \in Order, result \in {"paid", "closed"} : Ends(o, result)
    BY <2>6, EndsKeeps
  <2>7. CASE UNCHANGED vars
    BY <2>7, StutterKeeps
  <2> QED BY <2>1, <2>2, <2>3, <2>4, <2>5, <2>6, <2>7 DEF Next
<1> QED BY InitInvariant, <1>1, PTL DEF Spec

\* Every variable of the charge keeps the values that the tables and the requests allow.
THEOREM TypeCorrect == Spec => []TypeOK
<1>1. IInv => TypeOK
  BY DEF IInv
<1> QED BY Inductive, <1>1, PTL

\* No order that Mercado Pago created, or may still create, for the charge is unknown to the
\* cloud: the payment records it, or records that another may exist (createMercadoPagoOrder).
THEOREM OrdersInSight == Spec => []NoOrderOutOfSight
<1>1. IInv => NoOrderOutOfSight
  BY DEF IInv, Sight
<1> QED BY Inductive, <1>1, PTL

\* The recorded order is never refunded as one that no payment recorded, whoever found it first
\* (recordUnrecordedMercadoPagoOrder, confirmOrderOfUnrecordedCreation).
THEOREM NotRefundedAsAnother == Spec => []RefundedOnce
<1>1. IInv => RefundedOnce
  BY DEF IInv, Sight
<1> QED BY Inductive, <1>1, PTL

=============================================================================
