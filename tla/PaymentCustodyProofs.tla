------------------------- MODULE PaymentCustodyProofs -------------------------
(***************************************************************************)
(* For any number of orders, attempts and faults: a payment that the       *)
(* register holds for its sale is not given back, and a QR charge that it  *)
(* took for ended has ended at the cloud. A payment is given back because  *)
(* it was replaced or because its sale was charged otherwise; Custody says *)
(* that neither befalls a charge that can still be settled, and rests on   *)
(* what the answers under way to the register say of the cloud (Answers)   *)
(* and on who is answered (Awaited).                                       *)
(***************************************************************************)
EXTENDS PaymentLaneProofs

-----------------------------------------------------------------------------
(* The inductive invariant *)

Replaced == row.replaced \/ "replaced" \in outbox
ChargedOtherwise == local.state = "CLOSED" /\ sale = "closed"
RefundAsked == "refund" \in late \/ \E a \in Activity : act[a] = "refund"

\* The start of the charge is not answered, or its answer not handled yet.
InStart == {"create", "created", "refused", "provider_unavailable", "order_unreachable"}

\* What a payment ends as, once.
Final == {"APPROVED", "CLOSED"}

\* Why a payment is given back, and what of the charge excludes it.
Custody ==
    /\ EndedAgreesWithCloud
    /\ NoOrder \in refunds => row.state = "APPROVED" /\ (Replaced \/ ChargedOtherwise)
    /\ local.state = "APPROVED" => row.state = "APPROVED"
    /\ RefundAsked => ChargedOtherwise
    /\ Replaced => /\ local.replaced /\ local.state \in {"PENDING", "CLOSED"}
                   /\ local.state = "CLOSED" => row.state = "CLOSED"

\* What was answered still holds when it is handled, for the cloud's row ends once; and nothing
\* is asked of a charge before its start is answered.
Answers ==
    /\ \A a \in Activity : act[a] \in Final => row.state = act[a]
    /\ act["discovery"] = "listed" => row.state = "APPROVED"
    /\ act["charge"] \in InStart =>
          local.state = "PENDING" /\ ~local.replaced /\ act["abandon"] = "idle"
    /\ local.state = "none" =>
          ~local.replaced /\ act["charge"] = "idle" /\ act["abandon"] = "idle"

Awaited ==
    /\ lane.for # "nobody" => act[lane.for] = lane.job
    /\ lane.step = "creating" => lane.job = "create"

JInv == IInv /\ Custody /\ Answers /\ Awaited

LEMMA InitCustody == Init => JInv
<1> SUFFICES ASSUME Init PROVE JInv
  OBVIOUS
<1>1. IInv
  BY InitInvariant
<1>2. /\ outbox = {} /\ refunds = {} /\ late = {} /\ row.replaced = FALSE /\ lane = FreeLane
      /\ local.state = "none" /\ ~local.replaced /\ \A a \in Activity : act[a] = "idle"
  BY DEF Init
<1>3. Custody
  BY <1>2 DEF Custody, EndedAgreesWithCloud, Replaced, RefundAsked
<1>4. Answers
  BY <1>2 DEF Answers, Activity, InStart, Final
<1>5. Awaited
  BY <1>2 DEF Awaited, FreeLane, Held
<1> QED BY <1>1, <1>3, <1>4, <1>5 DEF JInv

-----------------------------------------------------------------------------
(* The steps of the register *)

\* An activity that no work is done for may ask anything.
LEMMA AskedKeepsAwaited ==
    ASSUME JInv, NEW a \in Activity, NEW v, act' = [act EXCEPT ![a] = v], UNCHANGED lane,
           act[a] \notin {"create", "read", "cancel"}
    PROVE  Awaited'
<1>1. act \in ActSet /\ lane \in LaneSet
  BY DEF JInv, IInv, TypeOK, ActSet, LaneSet
<1>2. act[a] \notin {"none", "notice"}
  BY <1>1 DEF ActSet, Calls, Replies
<1>3. lane.for # a
  BY <1>1, <1>2 DEF JInv, Awaited, LaneSet, Activity
<1>4. lane.for # "nobody" => act'[lane.for] = act[lane.for]
  BY <1>1, <1>3 DEF ActSet, LaneSet
<1> QED BY <1>4 DEF JInv, Awaited

\* What the register writes of its payment, and what it must know to write it.
LEMMA LocalTyped ==
    ASSUME JInv
    PROVE  local \in [state : States, method : {"QR", "POINT"}, replaced : BOOLEAN, over : BOOLEAN]
BY DEF JInv, IInv, TypeOK

LEMMA SameChargeKeepsCustody ==
    ASSUME JInv, UNCHANGED registerOnly, local'.state = local.state,
           local'.method = local.method, local'.replaced = local.replaced,
           sale' \in {sale, "closed"}, "replaced" \in outbox' <=> "replaced" \in outbox,
           RefundAsked' => RefundAsked \/ ChargedOtherwise
    PROVE  Custody'
<1>1. UNCHANGED <<row, refunds>> /\ (Replaced' <=> Replaced)
  BY DEF registerOnly, cloudVars, Replaced
<1>2. ChargedOtherwise => ChargedOtherwise'
  BY DEF ChargedOtherwise
<1> QED BY <1>1, <1>2 DEF JInv, Custody, EndedAgreesWithCloud

LEMMA EndedKeepsCustody ==
    ASSUME JInv, UNCHANGED <<registerOnly, sale, outbox>>, local' = Ended,
           row.state = "CLOSED" \/ (local.method = "POINT" /\ ~local.replaced),
           RefundAsked' => RefundAsked
    PROVE  Custody'
<1>1. UNCHANGED <<row, refunds>> /\ (Replaced' <=> Replaced)
  BY DEF registerOnly, cloudVars, Replaced
<1>2. /\ local'.state = (IF local.state = "PENDING" THEN "CLOSED" ELSE local.state)
      /\ local'.method = local.method /\ local'.replaced = local.replaced
  BY LocalTyped DEF Ended
<1>3. ChargedOtherwise => ChargedOtherwise'
  BY <1>2 DEF ChargedOtherwise
<1> QED BY <1>1, <1>2, <1>3 DEF JInv, Custody, EndedAgreesWithCloud

LEMMA HeldKeepsCustody ==
    ASSUME JInv, UNCHANGED registerOnly, sale = "open", ~Replaced, local'.state = "APPROVED",
           row.state = "APPROVED",
           "replaced" \in outbox' <=> "replaced" \in outbox, RefundAsked' => RefundAsked
    PROVE  Custody'
<1>1. UNCHANGED <<row, refunds>> /\ (Replaced' <=> Replaced)
  BY DEF registerOnly, cloudVars, Replaced
<1>2. NoOrder \notin refunds /\ ~RefundAsked
  BY DEF JInv, Custody, ChargedOtherwise
<1> QED BY <1>1, <1>2 DEF Custody, EndedAgreesWithCloud

LEMMA SettleKeepsCustody ==
    ASSUME JInv, UNCHANGED registerOnly, Settle, row.state = "APPROVED",
           RefundAsked' => RefundAsked
    PROVE  Custody'
<1>1. CASE ChargePending /\ sale = "open"
  <2>1. local' = [local EXCEPT !.state = "APPROVED"] /\ ~local.replaced
    BY <1>1 DEF Settle, ChargePending
  <2>2. local'.state = "APPROVED"
    BY <2>1, LocalTyped
  <2>3. ~Replaced
    BY <2>1 DEF JInv, Custody
  <2>4. "replaced" \in outbox' <=> "replaced" \in outbox
    BY <1>1 DEF Settle
  <2> QED BY <1>1, <2>2, <2>3, <2>4, HeldKeepsCustody
<1>2. CASE ~(ChargePending /\ sale = "open")
  BY <1>2, SameChargeKeepsCustody DEF Settle
<1> QED BY <1>1, <1>2

LEMMA ReplaceKeepsCustody ==
    ASSUME JInv, UNCHANGED registerOnly, Replace, RefundAsked' => RefundAsked
    PROVE  Custody'
<1>1. CASE ChargePending /\ sale = "open"
  <2>1. local' = [local EXCEPT !.replaced = TRUE, !.over = TRUE] /\ local.state = "PENDING"
    BY <1>1 DEF Replace, ChargePending
  <2>2. local'.state = "PENDING" /\ local'.replaced /\ Replaced'
    BY <1>1, <2>1, LocalTyped DEF Replace, Replaced
  <2>3. ~ChargedOtherwise
    BY <2>1 DEF ChargedOtherwise
  <2>4. UNCHANGED <<row, refunds>>
    BY DEF registerOnly, cloudVars
  <2> QED BY <2>2, <2>3, <2>4 DEF JInv, Custody, EndedAgreesWithCloud
<1>2. CASE ~(ChargePending /\ sale = "open")
  BY <1>2, SameChargeKeepsCustody DEF Replace
<1> QED BY <1>1, <1>2

\* What an activity asks or is told, when it is not the charge's start.
LEMMA AskedKeepsAnswers ==
    ASSUME JInv, UNCHANGED registerOnly, NEW a \in Activity, NEW v,
           act' = [act EXCEPT ![a] = v], v \notin InStart \union Final,
           v = "listed" => row.state = "APPROVED",
           local'.state = "none" => /\ local.state = "none" /\ a = "discovery"
                                    /\ local'.replaced = local.replaced,
           act["charge"] \in InStart =>
              /\ local'.state = local.state /\ local'.replaced = local.replaced
              /\ a = "discovery"
    PROVE  Answers'
<1>1. act \in ActSet /\ UNCHANGED row
  BY DEF JInv, IInv, TypeOK, ActSet, registerOnly, cloudVars
<1>2. \A b \in Activity : act'[b] = IF b = a THEN v ELSE act[b]
  BY <1>1 DEF ActSet
<1>3. \A b \in Activity : act'[b] \in Final => row'.state = act'[b]
  BY <1>1, <1>2 DEF JInv, Answers
<1>4. act'["discovery"] = "listed" => row'.state = "APPROVED"
  BY <1>1, <1>2 DEF JInv, Answers, Activity
<1>5. act'["charge"] \in InStart =>
          local'.state = "PENDING" /\ ~local'.replaced /\ act'["abandon"] = "idle"
  BY <1>2 DEF JInv, Answers, Activity
<1>6. local'.state = "none" =>
          ~local'.replaced /\ act'["charge"] = "idle" /\ act'["abandon"] = "idle"
  BY <1>2 DEF JInv, Answers, Activity
<1> QED BY <1>3, <1>4, <1>5, <1>6 DEF Answers

LEMMA AskedKeepsRefunds ==
    ASSUME JInv, UNCHANGED registerOnly, NEW a \in Activity, NEW v,
           act' = [act EXCEPT ![a] = v], v # "refund"
    PROVE  RefundAsked' => RefundAsked
<1>1. act \in ActSet /\ UNCHANGED late
  BY DEF JInv, IInv, TypeOK, ActSet, registerOnly, cloudVars
<1> QED BY <1>1 DEF ActSet, RefundAsked

LEMMA StartKeepsCustody == ASSUME JInv, Start PROVE JInv'
<1>1. IInv' /\ UNCHANGED registerOnly
  BY StartKeeps DEF JInv, Start
<1>2. /\ act \in ActSet /\ act["charge"] = "idle" /\ act["abandon"] = "idle"
      /\ act' = [act EXCEPT !["charge"] = "create"]
      /\ UNCHANGED <<sale, outbox, row, refunds, late, lane>>
      /\ local.state = "none" /\ local' = [local EXCEPT !.state = "PENDING"]
  BY DEF JInv, Answers, IInv, TypeOK, ActSet, Start, Ask, registerOnly, cloudVars
<1>3. local'.state = "PENDING" /\ local'.replaced = local.replaced
  BY <1>2, LocalTyped
<1>4. act'["charge"] = "create" /\ \A a \in Activity \ {"charge"} : act'[a] = act[a]
  BY <1>2 DEF ActSet, Activity
<1>5. NoOrder \notin refunds /\ ~RefundAsked /\ ~Replaced
  BY <1>2 DEF JInv, Custody, ChargedOtherwise
<1>6. ~RefundAsked' /\ ~Replaced'
  BY <1>1, <1>2, <1>5, AskedKeepsRefunds DEF Activity, Replaced
<1>7. Custody'
  BY <1>2, <1>3, <1>5, <1>6 DEF Custody, EndedAgreesWithCloud
<1>8. ~local'.replaced
  BY <1>2, <1>3 DEF JInv, Answers
<1>9. Answers'
  BY <1>2, <1>3, <1>4, <1>8 DEF JInv, Answers, Activity, Final
<1> QED BY <1>1, <1>2, <1>7, <1>9, AskedKeepsAwaited DEF JInv, Activity

LEMMA StartAnsweredKeepsCustody == ASSUME JInv, StartAnswered PROVE JInv'
<1>1. /\ IInv' /\ UNCHANGED <<registerOnly, sale, outbox, lane, row>> /\ act["charge"] \in InStart
      /\ act["charge"] \notin {"create", "read", "cancel"}
  BY StartAnsweredKeeps DEF JInv, StartAnswered, InStart, registerOnly, cloudVars
<1>2. /\ local.state = "PENDING" /\ ~local.replaced /\ act["abandon"] = "idle" /\ act \in ActSet
      /\ act["discovery"] = "listed" => row.state = "APPROVED"
      /\ \A a \in Activity : act[a] \in Final => row.state = act[a]
  BY <1>1 DEF JInv, Answers, IInv, TypeOK, ActSet
<1>3. PICK v \in {"idle", "create"} :
        /\ act' = [act EXCEPT !["charge"] = v]
        /\ v = "create" => UNCHANGED local
  BY DEF StartAnswered, Idle, Ask
<1>4. RefundAsked' => RefundAsked
  BY <1>1, <1>3, AskedKeepsRefunds DEF Activity
<1>5. \A a \in Activity : act'[a] = IF a = "charge" THEN v ELSE act[a]
  BY <1>2, <1>3 DEF ActSet
<1>6. CASE local' = Ended /\ local.method = "POINT"
  <2>1. Custody'
    BY <1>1, <1>2, <1>4, <1>6, EndedKeepsCustody
  <2>2. local'.state = "CLOSED" /\ v = "idle"
    BY <1>2, <1>3, <1>6, LocalTyped DEF Ended
  <2>3. Answers'
    BY <1>1, <1>2, <1>5, <2>2 DEF Answers, Activity, InStart
  <2> QED BY <1>1, <1>3, <2>1, <2>3, AskedKeepsAwaited DEF JInv, Activity
<1>7. CASE local' \in {local, WaitOver(FALSE), WaitOver(TRUE)}
  <2>1. /\ local'.state = local.state /\ local'.method = local.method
        /\ local'.replaced = local.replaced
    BY <1>7, LocalTyped DEF WaitOver
  <2>2. Custody'
    BY <1>1, <1>4, <2>1, SameChargeKeepsCustody
  <2>3. Answers'
    BY <1>1, <1>2, <1>5, <2>1 DEF Answers, Activity, Final
  <2> QED BY <1>1, <1>3, <2>2, <2>3, AskedKeepsAwaited DEF JInv, Activity
<1>8. local.method \in {"QR", "POINT"}
  BY LocalTyped
<1> QED BY <1>6, <1>7, <1>8 DEF StartAnswered

LEMMA FollowKeepsCustody == ASSUME JInv, Follow PROVE JInv'
<1>1. /\ IInv' /\ UNCHANGED <<registerOnly, sale, local, outbox, lane>>
      /\ act["charge"] = "idle" /\ local.state = "PENDING"
      /\ act' = [act EXCEPT !["charge"] = "read"]
  BY FollowKeeps DEF JInv, Follow, Ask, ChargePending, registerOnly, cloudVars
<1>2. (RefundAsked' => RefundAsked) /\ Answers' /\ Awaited'
  BY <1>1, AskedKeepsRefunds, AskedKeepsAnswers, AskedKeepsAwaited DEF Activity, InStart, Final
<1> QED BY <1>1, <1>2, SameChargeKeepsCustody DEF JInv

LEMMA AbandonKeepsCustody == ASSUME JInv, Abandon PROVE JInv'
<1>1. /\ IInv' /\ UNCHANGED <<registerOnly, sale, local, outbox, lane>>
      /\ act["abandon"] = "idle" /\ local.state = "PENDING" /\ act["charge"] \notin InStart
      /\ act' = [act EXCEPT !["abandon"] = "cancel"]
  BY AbandonKeeps
     DEF JInv, Abandon, Ask, ChargePending, Started, InStart, registerOnly, cloudVars
<1>2. (RefundAsked' => RefundAsked) /\ Answers' /\ Awaited'
  BY <1>1, AskedKeepsRefunds, AskedKeepsAnswers, AskedKeepsAwaited DEF Activity, InStart, Final
<1> QED BY <1>1, <1>2, SameChargeKeepsCustody DEF JInv

LEMMA FollowAnsweredKeepsCustody == ASSUME JInv, FollowAnswered PROVE JInv'
<1>1. /\ IInv' /\ UNCHANGED <<registerOnly, lane>>
      /\ act["charge"] \in {"not_recorded", "APPROVED", "CLOSED", "PENDING", "unreachable",
                            "cancel_on_terminal"}
  BY FollowAnsweredKeeps DEF JInv, FollowAnswered, registerOnly, cloudVars
<1>2. PICK v \in {"idle", "cancel"} : act' = [act EXCEPT !["charge"] = v]
  BY DEF FollowAnswered, Idle, Ask
<1>3. RefundAsked' => RefundAsked
  BY <1>1, <1>2, AskedKeepsRefunds DEF Activity
<1>4. local.state # "none" /\ local'.state # "none"
  <2>1. local.state # "none"
    BY <1>1 DEF JInv, Answers
  <2> QED BY <2>1, LocalTyped DEF FollowAnswered, Settle, Ended
<1>5. Answers' /\ Awaited'
  BY <1>1, <1>2, <1>4, AskedKeepsAnswers, AskedKeepsAwaited DEF Activity, InStart, Final
<1>6. Custody'
  <2>1. CASE act["charge"] = "APPROVED" /\ Settle
    <3>1. row.state = "APPROVED"
      BY <2>1 DEF JInv, Answers, Activity, Final
    <3> QED BY <1>1, <1>3, <2>1, <3>1, SettleKeepsCustody
  <2>2. CASE act["charge"] = "CLOSED" /\ local' = Ended /\ UNCHANGED <<sale, outbox>>
    <3>1. row.state = "CLOSED"
      BY <2>2 DEF JInv, Answers, Activity, Final
    <3> QED BY <1>1, <1>3, <2>2, <3>1, EndedKeepsCustody
  <2>3. CASE UNCHANGED <<local, sale, outbox>>
    BY <1>1, <1>3, <2>3, SameChargeKeepsCustody
  <2> QED BY <2>1, <2>2, <2>3 DEF FollowAnswered
<1> QED BY <1>1, <1>5, <1>6 DEF JInv

LEMMA AbandonAnsweredKeepsCustody == ASSUME JInv, AbandonAnswered PROVE JInv'
<1>1. /\ IInv' /\ UNCHANGED <<registerOnly, lane>>
      /\ act["abandon"] \in {"APPROVED", "CLOSED", "unreachable", "cancel_on_terminal"}
      /\ act' = [act EXCEPT !["abandon"] = "idle"]
  BY AbandonAnsweredKeeps DEF JInv, AbandonAnswered, Idle, registerOnly, cloudVars
<1>2. RefundAsked' => RefundAsked
  BY <1>1, AskedKeepsRefunds DEF Activity
<1>3. act["charge"] \notin InStart /\ local.state # "none"
  BY <1>1 DEF JInv, Answers
<1>4. local'.state # "none"
  BY <1>3, LocalTyped DEF AbandonAnswered, Settle, Replace, Ended
<1>5. Answers' /\ Awaited'
  BY <1>1, <1>3, <1>4, AskedKeepsAnswers, AskedKeepsAwaited DEF Activity, InStart, Final
<1>6. Custody'
  <2>1. CASE act["abandon"] = "APPROVED" /\ Settle
    <3>1. row.state = "APPROVED"
      BY <2>1 DEF JInv, Answers, Activity, Final
    <3> QED BY <1>1, <1>2, <2>1, <3>1, SettleKeepsCustody
  <2>2. CASE act["abandon"] = "CLOSED" /\ local' = Ended /\ UNCHANGED <<sale, outbox>>
    <3>1. row.state = "CLOSED"
      BY <2>2 DEF JInv, Answers, Activity, Final
    <3> QED BY <1>1, <1>2, <2>2, <3>1, EndedKeepsCustody
  <2>3. CASE Replace
    BY <1>1, <1>2, <2>3, ReplaceKeepsCustody
  <2>4. CASE UNCHANGED <<local, sale, outbox>>
    BY <1>1, <1>2, <2>4, SameChargeKeepsCustody
  <2> QED BY <2>1, <2>2, <2>3, <2>4 DEF AbandonAnswered
<1> QED BY <1>1, <1>5, <1>6 DEF JInv

LEMMA DiscoverKeepsCustody == ASSUME JInv, Discover \/ ListPaidOrders PROVE JInv'
<1>1. IInv' /\ UNCHANGED <<registerOnly, sale, local, outbox, lane>>
  BY DiscoverKeeps, ListPaidOrdersKeeps
     DEF JInv, Discover, ListPaidOrders, registerOnly, cloudVars
<1>2. PICK v \in {"list", "listed", "empty"} :
        /\ act' = [act EXCEPT !["discovery"] = v]
        /\ v = "listed" => row.state = "APPROVED"
  BY DEF Discover, ListPaidOrders, Ask
<1>3. act["discovery"] \in {"idle", "list"}
  BY DEF Discover, ListPaidOrders
<1>4. (RefundAsked' => RefundAsked) /\ Answers' /\ Awaited'
  BY <1>1, <1>2, <1>3, AskedKeepsRefunds, AskedKeepsAnswers, AskedKeepsAwaited
     DEF Activity, InStart, Final
<1> QED BY <1>1, <1>4, SameChargeKeepsCustody DEF JInv

LEMMA DiscoveryAnsweredKeepsCustody == ASSUME JInv, DiscoveryAnswered PROVE JInv'
<1>1. /\ IInv' /\ UNCHANGED <<registerOnly, lane>>
      /\ act["discovery"] \in {"empty", "opened", "listed", "not_opened", "unreachable"}
  BY DiscoveryAnsweredKeeps DEF JInv, DiscoveryAnswered, registerOnly, cloudVars
<1>2. CASE /\ act["discovery"] = "listed" /\ local.state = "CLOSED" /\ sale = "open"
           /\ local' = [local EXCEPT !.state = "APPROVED", !.replaced = FALSE]
           /\ \/ sale' = "closed" /\ outbox' = outbox \union {"completed"}
              \/ UNCHANGED <<sale, outbox>>
           /\ Idle("discovery")
  <2>1. local'.state = "APPROVED"
    BY <1>2, LocalTyped
  <2>2. row.state = "APPROVED" /\ ~Replaced /\ act["charge"] \notin InStart
    BY <1>2 DEF JInv, Answers, Custody
  <2>3. (RefundAsked' => RefundAsked) /\ Answers' /\ Awaited'
    BY <1>1, <1>2, <2>1, <2>2, AskedKeepsRefunds, AskedKeepsAnswers, AskedKeepsAwaited
       DEF Idle, Activity, InStart, Final
  <2>4. "replaced" \in outbox' <=> "replaced" \in outbox
    BY <1>2
  <2> QED BY <1>1, <1>2, <2>1, <2>2, <2>3, <2>4, HeldKeepsCustody DEF JInv
<1>3. CASE /\ act["discovery"] = "listed" /\ ChargedOtherwise
           /\ Ask("discovery", "refund") /\ UNCHANGED <<sale, local, outbox>>
  <2>1. Answers' /\ Awaited'
    BY <1>1, <1>3, AskedKeepsAnswers, AskedKeepsAwaited
       DEF Ask, Activity, InStart, ChargedOtherwise, Final
  <2> QED BY <1>1, <1>3, <2>1, SameChargeKeepsCustody DEF JInv
<1>4. CASE Idle("discovery") /\ UNCHANGED <<sale, local, outbox>>
  <2>1. (RefundAsked' => RefundAsked) /\ Answers' /\ Awaited'
    BY <1>1, <1>4, AskedKeepsRefunds, AskedKeepsAnswers, AskedKeepsAwaited
       DEF Idle, Activity, InStart, Final
  <2> QED BY <1>1, <1>4, <2>1, SameChargeKeepsCustody DEF JInv
<1> QED BY <1>2, <1>3, <1>4 DEF DiscoveryAnswered, ChargedOtherwise

\* The charge itself is as it was, and nothing is asked.
LEMMA AsideKeepsCustody == ASSUME JInv, CloseSale \/ WaitElapses \/ NextStart PROVE JInv'
<1>1. IInv' /\ UNCHANGED <<registerOnly, act, lane, row, late>>
  BY CloseSaleKeeps, WaitElapsesKeeps, NextStartKeeps
     DEF JInv, CloseSale, WaitElapses, NextStart, registerOnly, cloudVars
<1>2. /\ local'.state = local.state /\ local'.method = local.method
      /\ local'.replaced = local.replaced
  BY LocalTyped DEF CloseSale, WaitElapses, NextStart
<1>3. sale' \in {sale, "closed"} /\ ("replaced" \in outbox' <=> "replaced" \in outbox)
  BY DEF CloseSale, WaitElapses, NextStart
<1>4. RefundAsked' => RefundAsked
  BY <1>1 DEF RefundAsked
<1>5. Custody'
  BY <1>1, <1>2, <1>3, <1>4, SameChargeKeepsCustody
<1>6. Answers' /\ Awaited'
  BY <1>1, <1>2 DEF JInv, Answers, Awaited
<1> QED BY <1>1, <1>5, <1>6 DEF JInv

-----------------------------------------------------------------------------
(* What the steps of the cloud have in common *)

\* A row that is approved or closed stays so; nobody but a replacement replaces a payment, and
\* an approved payment is given back when it was replaced.
RowEndsOnce == row.state \in Final => row'.state = row.state
GivenBack ==
    NoOrder \in refunds' =>
        NoOrder \in refunds \/ (row'.state = "APPROVED" /\ (row'.replaced \/ ChargedOtherwise))

\* An answer says what the row is, and only a creation is answered like one.
Told ==
    \A a \in Activity :
        \/ act'[a] = act[a]
        \/ /\ act[a] # "idle" /\ act'[a] \notin {"refund", "listed"}
           /\ act'[a] \in InStart => act[a] = "create"
           /\ act'[a] \in Final => row'.state = act'[a]

LEMMA CloudKeepsCustody ==
    ASSUME JInv, UNCHANGED <<sale, local>>, Replaced' <=> Replaced, RowEndsOnce, GivenBack,
           "refund" \in late' => RefundAsked, Told
    PROVE  Custody' /\ Answers'
<1>1. RefundAsked' => RefundAsked
  BY DEF RefundAsked, Told
<1>2. row'.replaced => Replaced'
  BY DEF Replaced
<1>3. ChargedOtherwise' = ChargedOtherwise
  BY DEF ChargedOtherwise
<1>4. EndedAgreesWithCloud'
  BY DEF JInv, Custody, EndedAgreesWithCloud, RowEndsOnce, Final
<1>5. Custody'
  BY <1>1, <1>2, <1>3, <1>4 DEF JInv, Custody, RowEndsOnce, GivenBack, Final
<1>6. \A a \in Activity : act'[a] \in Final => row'.state = act'[a]
  BY DEF JInv, Answers, Told, RowEndsOnce
<1>7. act'["discovery"] = "listed" => row'.state = "APPROVED"
  BY DEF JInv, Answers, Told, RowEndsOnce, Activity, Final
<1>8. act'["charge"] \in InStart =>
          local'.state = "PENDING" /\ ~local'.replaced /\ act'["abandon"] = "idle"
  <2>1. act'["charge"] \in InStart => act["charge"] \in InStart
    BY DEF Told, Activity, InStart
  <2>2. act["abandon"] = "idle" => act'["abandon"] = "idle"
    BY DEF Told, Activity
  <2> QED BY <2>1, <2>2 DEF JInv, Answers
<1>9. local'.state = "none" =>
          ~local'.replaced /\ act'["charge"] = "idle" /\ act'["abandon"] = "idle"
  BY DEF JInv, Answers, Told, Activity
<1> QED BY <1>5, <1>6, <1>7, <1>8, <1>9 DEF Answers

LEMMA ReleaseTells ==
    ASSUME JInv, NEW a \in Someone, NEW reply, Release(a, reply),
           a # "nobody" => /\ act[a] # "idle" /\ reply \notin {"refund", "listed"}
                           /\ reply \in InStart => act[a] = "create"
                           /\ reply \in Final => row'.state = reply
    PROVE  Told /\ Awaited'
<1>1. act \in ActSet
  BY DEF JInv, IInv, TypeOK, ActSet
<1>2. lane' = FreeLane /\ act' = IF a = "nobody" THEN act ELSE [act EXCEPT ![a] = reply]
  BY DEF Release
<1>3. \A b \in Activity : act'[b] = IF b = a THEN reply ELSE act[b]
  <2>1. CASE a = "nobody"
    BY <1>2, <2>1 DEF Activity
  <2>2. CASE a # "nobody"
    BY <1>1, <1>2, <2>2 DEF ActSet
  <2> QED BY <2>1, <2>2
<1>4. "nobody" \notin Activity
  BY DEF Activity
<1>5. Told
  BY <1>3, <1>4 DEF Told
<1>6. Awaited'
  BY <1>2 DEF Awaited, FreeLane, Held
<1> QED BY <1>5, <1>6

\* The holder answers the activity that awaits its work, if one still does.
LEMMA HolderTells ==
    ASSUME JInv, NEW reply, Release(lane.for, reply), reply \notin {"refund", "listed"},
           reply \in InStart => lane.job = "create",
           reply \in Final => row'.state = reply
    PROVE  Told /\ Awaited'
<1>1. lane.for \in Someone /\ lane.job # "idle"
  BY HolderIsSomeone DEF JInv, Jobs
<1>2. lane.for # "nobody" => act[lane.for] = lane.job
  BY DEF JInv, Awaited
<1> QED BY <1>1, <1>2, ReleaseTells

LEMMA RefreshTells ==
    ASSUME JInv, NEW job \in Jobs, NEW a \in Someone, Refresh(job, a),
           a # "nobody" => act[a] = job
    PROVE  Told /\ Awaited' /\ RowEndsOnce /\ GivenBack /\ row'.replaced = row.replaced
<1>1. row \in RowSet
  BY DEF JInv, IInv, TypeOK, RowSet
<1>2. row' \in {row, [row EXCEPT !.state = "CLOSED"]} /\ refunds' = refunds
  BY DEF Refresh, AfterExpiry
<1>3. row' = row \/ row.state = "PENDING"
  BY DEF Refresh, AfterExpiry
<1>4. RowEndsOnce /\ GivenBack /\ row'.replaced = row.replaced
  BY <1>1, <1>2, <1>3 DEF RowEndsOnce, GivenBack, RowSet, Final
<1>5. CASE row.state = "PENDING" /\ row.order # NoOrder
  <2>1. lane' = Held("reading", job, a, "none") /\ act' = act
    BY <1>5 DEF Refresh
  <2> QED BY <1>4, <2>1 DEF Told, Awaited, Held
<1>6. CASE ~(row.state = "PENDING" /\ row.order # NoOrder)
  <2>1. Release(a, AnswerOf(job, AfterExpiry)) /\ row' = AfterExpiry
    BY <1>6 DEF Refresh
  <2>2. row' \in RowSet
    BY <1>1, <1>2 DEF RowSet, States
  <2>3. /\ AnswerOf(job, row') \notin {"refund", "listed"}
        /\ AnswerOf(job, row') \in InStart => job = "create"
        /\ AnswerOf(job, row') \in Final => row'.state = AnswerOf(job, row')
    BY <2>2 DEF AnswerOf, InStart, RowSet, States, Final
  <2> QED BY <1>4, <2>1, <2>3, ReleaseTells DEF Jobs
<1> QED BY <1>5, <1>6

LEMMA WriteGivesBack ==
    ASSUME NEW r, Write(r)
    PROVE  GivenBack
BY DEF Write, LateRefund, GivenBack

LEMMA ResultKeepsReplaced ==
    ASSUME JInv, NEW result
    PROVE  WithResult(result).replaced = row.replaced
<1>1. row \in RowSet
  BY DEF JInv, IInv, TypeOK, RowSet
<1> QED BY <1>1 DEF WithResult, RowSet

LEMMA OrderKeepsReplaced ==
    ASSUME JInv, NEW o, NEW result, NEW possible
    PROVE  WithOrder(o, result, possible).replaced = row.replaced
<1>1. row \in RowSet
  BY DEF JInv, IInv, TypeOK, RowSet
<1> QED BY <1>1 DEF WithOrder, RowSet

LEMMA ReplacedKept ==
    ASSUME UNCHANGED outbox, row'.replaced = row.replaced
    PROVE  Replaced' <=> Replaced
BY DEF Replaced

-----------------------------------------------------------------------------
(* The steps of the cloud *)

LEMMA BeginKeepsCustody == ASSUME JInv, NEW a \in Someone, Begin(a) PROVE JInv'
<1>1. IInv' /\ row \in RowSet
  BY BeginKeeps DEF JInv, IInv, TypeOK, RowSet
<1>2. PICK kind \in {"create", "read", "cancel", "refund"} :
        /\ Taken(kind, a) /\ UNCHANGED registerRows
        /\ \/ kind = "create" /\ BeginCreate(a)
           \/ kind = "read" /\ BeginRead(a)
           \/ kind = "cancel" /\ BeginCancel(a)
           \/ kind = "refund" /\ BeginRefund(a)
  BY DEF Begin, BeginCreate, BeginRead, BeginCancel, BeginRefund
<1>3. /\ UNCHANGED <<sale, local, outbox>> /\ late' \subseteq late
      /\ a # "nobody" => act[a] = kind
      /\ a = "nobody" => kind \in late
  BY <1>2 DEF registerRows, Taken
<1>4. "refund" \in late' => RefundAsked
  BY <1>3 DEF RefundAsked
<1>5. Told /\ Awaited' /\ RowEndsOnce /\ GivenBack /\ row'.replaced = row.replaced
  <2>1. CASE kind \in Jobs /\ Refresh(kind, a)
    BY <1>3, <2>1, RefreshTells
  <2>2. CASE /\ kind = "create"
             /\ row.state = "none" \/ row.state = "PENDING"
             /\ row' = [row EXCEPT !.state = "PENDING", !.unknown = TRUE]
             /\ \E earlier : lane' = Held("creating", "create", a, earlier)
             /\ UNCHANGED <<act, refunds>>
    <3>1. row'.replaced = row.replaced
      BY <1>1, <2>2 DEF RowSet
    <3> QED BY <1>3, <2>2, <3>1 DEF Told, Awaited, Held, RowEndsOnce, GivenBack, Final
  <2>3. CASE kind = "read" /\ Release(a, "not_recorded") /\ UNCHANGED <<row, refunds>>
    BY <1>3, <2>3, ReleaseTells DEF InStart, RowEndsOnce, GivenBack, Final
  <2>4. CASE /\ kind = "cancel" /\ row.state = "none" /\ row' = [row EXCEPT !.state = "CLOSED"]
             /\ UNCHANGED refunds /\ Release(a, "CLOSED")
    <3>1. row'.replaced = row.replaced /\ row'.state = "CLOSED"
      BY <1>1, <2>4 DEF RowSet
    <3> QED BY <1>3, <2>4, <3>1, ReleaseTells DEF InStart, RowEndsOnce, GivenBack, Final
  <2>5. CASE kind = "refund" /\ BeginRefund(a)
    <3>1. RefundAsked
      BY <1>3, <2>5 DEF RefundAsked, Someone
    <3>2. ChargedOtherwise
      BY <3>1 DEF JInv, Custody
    <3>3. row' = row /\ (Release(a, "opened") \/ Release(a, "not_opened"))
      BY <2>5 DEF BeginRefund
    <3>4. Told /\ Awaited'
      BY <1>3, <2>5, <3>3, ReleaseTells DEF InStart, Final
    <3>5. NoOrder \in refunds' => NoOrder \in refunds \/ row.state = "APPROVED"
      BY <2>5 DEF BeginRefund
    <3> QED BY <3>2, <3>3, <3>4, <3>5 DEF RowEndsOnce, GivenBack, Final
  <2>6. kind = "create" /\ BeginCreate(a) =>
          \/ Refresh("create", a)
          \/ /\ row.state = "none" \/ row.state = "PENDING"
             /\ row' = [row EXCEPT !.state = "PENDING", !.unknown = TRUE]
             /\ \E earlier : lane' = Held("creating", "create", a, earlier)
             /\ UNCHANGED <<act, refunds>>
    BY DEF BeginCreate
  <2>7. kind = "read" /\ BeginRead(a) =>
          Refresh("read", a) \/ (Release(a, "not_recorded") /\ UNCHANGED <<row, refunds>>)
    BY DEF BeginRead
  <2>8. kind = "cancel" /\ BeginCancel(a) =>
          \/ Refresh("cancel", a)
          \/ /\ row.state = "none" /\ row' = [row EXCEPT !.state = "CLOSED"]
             /\ UNCHANGED refunds /\ Release(a, "CLOSED")
    BY DEF BeginCancel
  <2> QED BY <1>2, <2>1, <2>2, <2>3, <2>4, <2>5, <2>6, <2>7, <2>8 DEF Jobs
<1> QED BY <1>1, <1>3, <1>4, <1>5, ReplacedKept, CloudKeepsCustody DEF JInv

LEMMA BeginCheckKeepsCustody == ASSUME JInv, BeginCheck PROVE JInv'
<1> DEFINE job == IF row.replaced THEN "cancel" ELSE "read"
<1>1. IInv' /\ UNCHANGED <<sale, local, outbox, late>>
  BY BeginCheckKeeps DEF JInv, BeginCheck, registerRows
<1>2. Told /\ Awaited' /\ RowEndsOnce /\ GivenBack /\ row'.replaced = row.replaced
  <2>1. CASE AwaitsUnrecordedOrder
    <3>1. lane' = Held("searching", job, "nobody", "none") /\ UNCHANGED <<row, refunds, act>>
      BY <2>1 DEF BeginCheck
    <3> QED BY <3>1 DEF Told, Awaited, Held, RowEndsOnce, GivenBack
  <2>2. CASE ~AwaitsUnrecordedOrder
    <3>1. Refresh(job, "nobody") /\ job \in Jobs
      BY <2>2 DEF BeginCheck, Jobs
    <3> HIDE DEF job
    <3> QED BY <3>1, RefreshTells DEF Someone
  <2> QED BY <2>1, <2>2
<1>3. "refund" \in late' => RefundAsked
  BY <1>1 DEF RefundAsked
<1> QED BY <1>1, <1>2, <1>3, ReplacedKept, CloudKeepsCustody DEF JInv

\* The holder's answers that come, and those that do not.
LEMMA HolderKeepsCustody ==
    ASSUME JInv, IInv', UNCHANGED laneOnly, Told, Awaited', GivenBack,
           row'.replaced = row.replaced, row.state = "PENDING" \/ row' = row
    PROVE  JInv'
<1>1. UNCHANGED <<sale, local, outbox, late>>
  BY DEF laneOnly, registerRows
<1>2. RowEndsOnce /\ ("refund" \in late' => RefundAsked)
  BY <1>1 DEF RowEndsOnce, RefundAsked, Final
<1> QED BY <1>1, <1>2, ReplacedKept, CloudKeepsCustody DEF JInv

LEMMA CreationKeepsCustody ==
    ASSUME JInv, OrderCreated \/ OrderNotCreated \/ CreationUnanswered
    PROVE  JInv'
<1>1. IInv' /\ UNCHANGED laneOnly
  BY OrderCreatedKeeps, OrderNotCreatedKeeps, CreationUnansweredKeeps
     DEF JInv, OrderCreated, OrderNotCreated, CreationUnanswered
<1>2. /\ row \in RowSet /\ row.state = "PENDING" /\ lane.job = "create"
      /\ lane.for # "nobody" => act[lane.for] = "create"
  BY DEF JInv, IInv, TypeOK, RowSet, Holder, AwaitsUnrecordedOrder, Awaited, OrderCreated,
     OrderNotCreated, CreationUnanswered
<1>3. CASE \E o, result : Write(WithOrder(o, result, FALSE)) /\ Release(lane.for, "created")
  <2>1. PICK o, result : Write(WithOrder(o, result, FALSE)) /\ Release(lane.for, "created")
    BY <1>3
  <2>2. row'.replaced = row.replaced /\ GivenBack
    BY <2>1, WriteGivesBack, OrderKeepsReplaced DEF Write
  <2>3. Told /\ Awaited'
    BY <1>2, <2>1, HolderTells DEF InStart, Final
  <2> QED BY <1>1, <1>2, <2>2, <2>3, HolderKeepsCustody
<1>4. CASE /\ \E o, u : row' = [row EXCEPT !.order = o, !.unknown = u]
           /\ lane' = Held("reading", "create", lane.for, "none")
           /\ UNCHANGED <<refunds, act>>
  <2>1. row'.replaced = row.replaced /\ GivenBack
    BY <1>2, <1>4 DEF RowSet, GivenBack
  <2>2. Told /\ Awaited'
    BY <1>2, <1>4 DEF Told, Awaited, Held
  <2> QED BY <1>1, <1>2, <2>1, <2>2, HolderKeepsCustody
<1>5. CASE /\ row' = row \/ (\E u : row' = [row EXCEPT !.unknown = u])
           /\ \E reply \in {"created", "refused", "provider_unavailable"} : Release(lane.for, reply)
           /\ UNCHANGED refunds
  <2>1. row'.replaced = row.replaced /\ GivenBack
    BY <1>2, <1>5 DEF RowSet, GivenBack
  <2>2. Told /\ Awaited'
    BY <1>2, <1>5, HolderTells DEF InStart, Final
  <2> QED BY <1>1, <1>2, <2>1, <2>2, HolderKeepsCustody
<1>6. CASE OrderCreated
  BY <1>3, <1>4, <1>6 DEF OrderCreated
<1>7. CASE OrderNotCreated
  BY <1>5, <1>7 DEF OrderNotCreated
<1>8. CASE CreationUnanswered
  BY <1>5, <1>8 DEF CreationUnanswered
<1> QED BY <1>6, <1>7, <1>8

LEMMA OrderReadKeepsCustody == ASSUME JInv, OrderRead PROVE JInv'
<1> DEFINE result == orders[row.order]
<1>1. /\ IInv' /\ UNCHANGED laneOnly /\ lane.step = "reading"
      /\ Write(WithResult(result))
  BY OrderReadKeeps DEF JInv, OrderRead
<1>2. row.state = "PENDING" /\ result \in Results
  BY <1>1, OrderInHand DEF JInv
<1>3. row' = WithResult(result) /\ row'.replaced = row.replaced /\ GivenBack
  BY <1>1, WriteGivesBack, ResultKeepsReplaced DEF Write
<1>4. Told /\ Awaited'
  <2>1. CASE lane' = [lane EXCEPT !.step = "cancelling"] /\ UNCHANGED act
    <3>1. lane'.for = lane.for /\ lane'.job = lane.job /\ lane'.step = "cancelling"
      BY <2>1 DEF JInv, IInv, TypeOK
    <3> QED BY <2>1, <3>1 DEF Told, JInv, Awaited
  <2>2. CASE Release(lane.for, AnswerOf(lane.job, WithResult(result)))
    <3>1. row'.state \in {"PENDING", "APPROVED", "CLOSED"}
      BY <1>2, <1>3, WithResultSpec DEF JInv, IInv
    <3>2. /\ AnswerOf(lane.job, row') \notin {"refund", "listed"}
          /\ AnswerOf(lane.job, row') \in InStart => lane.job = "create"
          /\ AnswerOf(lane.job, row') \in Final => row'.state = AnswerOf(lane.job, row')
      BY <3>1 DEF AnswerOf, InStart, Final
    <3> HIDE DEF result
    <3> QED BY <1>3, <2>2, <3>2, HolderTells
  <2> QED BY <2>1, <2>2 DEF OrderRead
<1> QED BY <1>1, <1>2, <1>3, <1>4, HolderKeepsCustody

\* The holder ends without an answer of Mercado Pago, and what it tells says so.
LEMMA NotAnsweredKeepsCustody ==
    ASSUME JInv, OrderNotRead \/ CancellationUnanswered \/ LaneLost
    PROVE  JInv'
<1>1. IInv' /\ UNCHANGED <<laneOnly, row, refunds>>
  BY OrderNotReadKeeps, CancellationUnansweredKeeps, LaneLostKeeps
     DEF JInv, OrderNotRead, CancellationUnanswered, LaneLost
<1>2. PICK reply \in {"provider_unavailable", "refused", "order_unreachable", "unreachable"} :
        Release(lane.for, reply) /\ (reply # "unreachable" => lane.job = "create")
  BY DEF OrderNotRead, CancellationUnanswered, LaneLost, ProviderUnavailable
<1>3. Told /\ Awaited'
  BY <1>2, HolderTells DEF InStart, Final
<1> QED BY <1>1, <1>3, HolderKeepsCustody DEF GivenBack

LEMMA OrdersSearchedKeepsCustody == ASSUME JInv, OrdersSearched PROVE JInv'
<1>1. IInv' /\ UNCHANGED laneOnly
  BY OrdersSearchedKeeps DEF JInv, OrdersSearched
<1>2. row.state = "PENDING" /\ lane.job \in Jobs
  BY DEF JInv, IInv, Holder, AwaitsUnrecordedOrder, OrdersSearched, Jobs
<1>3. CASE \E o, result : LET after == WithOrder(o, result, TRUE)
                          IN  /\ row' = after
                              /\ refunds' = refunds \union LateRefund(after) \union (Paid \ {o})
                              /\ Release("nobody", "PENDING")
  <2>1. PICK o, result :
          /\ row' = WithOrder(o, result, TRUE)
          /\ refunds' = refunds \union LateRefund(row') \union (Paid \ {o})
          /\ Release("nobody", "PENDING")
    BY <1>3
  <2>2. row'.replaced = row.replaced
    BY <2>1, OrderKeepsReplaced
  <2>3. NoOrder \notin Paid
    BY NoOrderIsNone DEF Paid
  <2>4. GivenBack
    BY <2>1, <2>3 DEF GivenBack, LateRefund
  <2>5. Told /\ Awaited'
    BY <2>1, ReleaseTells DEF Someone
  <2> QED BY <1>1, <1>2, <2>2, <2>4, <2>5, HolderKeepsCustody
<1>4. CASE Refresh(lane.job, "nobody")
  BY <1>1, <1>2, <1>4, RefreshTells, HolderKeepsCustody DEF Someone
<1> QED BY <1>3, <1>4 DEF OrdersSearched

LEMMA CancellationAnsweredKeepsCustody == ASSUME JInv, CancellationAnswered PROVE JInv'
<1> DEFINE open == orders[row.order] = "open"
<1>1. /\ IInv' /\ UNCHANGED laneOnly /\ lane.step = "cancelling"
  BY CancellationAnsweredKeeps DEF JInv, CancellationAnswered
<1>2. row.state = "PENDING" /\ orders[row.order] \in Results
  BY <1>1, OrderInHand DEF JInv
<1>3. PICK result, reply :
        /\ result \in Results /\ Write(WithResult(result)) /\ Release(lane.for, reply)
        /\ \/ reply = "CLOSED" /\ result = "closed"
           \/ reply = "cancel_on_terminal"
           \/ reply = AnswerOf("cancel", WithResult(result))
  <2>1. CASE Write(WithResult("closed")) /\ Release(lane.for, "CLOSED")
    BY <2>1 DEF Results
  <2>2. CASE /\ Write(WithResult(orders[row.order]))
             /\ Release(lane.for, IF local.method = "POINT" /\ open THEN "cancel_on_terminal"
                                  ELSE AnswerOf("cancel", WithResult(orders[row.order])))
    BY <1>2, <2>2
  <2> QED BY <2>1, <2>2 DEF CancellationAnswered
<1>4. row' = WithResult(result) /\ row'.replaced = row.replaced /\ GivenBack
  BY <1>3, WriteGivesBack, ResultKeepsReplaced DEF Write
<1>5. row'.state \in {"PENDING", "APPROVED", "CLOSED"}
  BY <1>3, <1>4, WithResultSpec DEF JInv, IInv
<1>6. result = "closed" => row'.state = "CLOSED"
  <2>1. row \in RowSet
    BY DEF JInv, IInv, TypeOK, RowSet
  <2> QED BY <1>4, <2>1 DEF WithResult, StateOf, RowSet
<1>7. /\ reply \notin {"refund", "listed"} \union InStart
      /\ reply \in Final => row'.state = reply
  BY <1>3, <1>4, <1>5, <1>6 DEF AnswerOf, InStart, Final
<1> QED BY <1>1, <1>2, <1>3, <1>4, <1>7, HolderTells, HolderKeepsCustody

LEMMA NoticeKeepsCustody ==
    ASSUME JInv, (\E o \in Order : TakeNotice(o)) \/ HandleNotice
    PROVE  JInv'
<1>1. IInv' /\ UNCHANGED <<registerRows, late>>
  BY TakeNoticeKeeps, HandleNoticeKeeps DEF JInv, TakeNotice, HandleNotice
<1>2. Told /\ Awaited' /\ RowEndsOnce /\ GivenBack /\ row'.replaced = row.replaced
  <2>1. CASE Refresh("notice", "nobody")
    BY <2>1, RefreshTells DEF Jobs, Someone
  <2>2. CASE /\ UNCHANGED <<row, lane, act>>
             /\ \E o \in Order : refunds' \subseteq refunds \union {o}
    <3>1. NoOrder \in refunds' => NoOrder \in refunds
      BY <2>2, NoOrderIsNone
    <3> QED BY <2>2, <3>1 DEF Told, JInv, Awaited, RowEndsOnce, GivenBack
  <2>3. CASE \E o, result : /\ AwaitsUnrecordedOrder /\ Write(WithOrder(o, result, TRUE))
                            /\ UNCHANGED <<lane, act>>
    <3>1. PICK o, result : /\ AwaitsUnrecordedOrder /\ Write(WithOrder(o, result, TRUE))
                           /\ UNCHANGED <<lane, act>>
      BY <2>3
    <3>2. row'.replaced = row.replaced /\ GivenBack
      BY <3>1, OrderKeepsReplaced, WriteGivesBack DEF Write
    <3> QED BY <3>1, <3>2 DEF Told, JInv, Awaited, RowEndsOnce, AwaitsUnrecordedOrder, Final
  <2>4. CASE \E o \in Order : TakeNotice(o)
    BY <2>1, <2>2, <2>4 DEF TakeNotice
  <2>5. CASE HandleNotice
    <3>1. notice.order \in Order
      BY <2>5 DEF HandleNotice, JInv, IInv, Sight, Existing
    <3>2. CASE UNCHANGED <<row, refunds, lane, act>>
      BY <2>2, <3>1, <3>2
    <3>3. CASE /\ refunds' = refunds \union IF notice.result = "paid" THEN {notice.order} ELSE {}
               /\ UNCHANGED <<row, lane, act>>
      BY <2>2, <3>1, <3>3
    <3> QED BY <2>1, <2>3, <2>5, <3>2, <3>3 DEF HandleNotice
  <2> QED BY <2>4, <2>5
<1>3. UNCHANGED <<sale, local, outbox>> /\ ("refund" \in late' => RefundAsked)
  BY <1>1 DEF registerRows, RefundAsked
<1> QED BY <1>1, <1>2, <1>3, ReplacedKept, CloudKeepsCustody DEF JInv

LEMMA EventKeepsCustody == ASSUME JInv, ApplyReplaced \/ ApplyCompleted PROVE JInv'
<1>1. IInv' /\ UNCHANGED <<sale, local, act, late, lane>> /\ row \in RowSet
  BY ApplyReplacedKeeps, ApplyCompletedKeeps
     DEF JInv, ApplyReplaced, ApplyCompleted, IInv, TypeOK, RowSet
<1>2. RowEndsOnce /\ GivenBack /\ (Replaced' <=> Replaced)
  <2>1. CASE ApplyReplaced
    <3>1. Write([row EXCEPT !.replaced = TRUE]) /\ "replaced" \in outbox
      BY <2>1 DEF ApplyReplaced
    <3>2. row'.state = row.state /\ row'.replaced
      BY <1>1, <3>1 DEF Write, RowSet
    <3> QED BY <3>1, <3>2, WriteGivesBack DEF RowEndsOnce, Replaced
  <2>2. CASE ApplyCompleted
    BY <2>2 DEF ApplyCompleted, RowEndsOnce, GivenBack, Replaced
  <2> QED BY <2>1, <2>2
<1>3. Told /\ Awaited' /\ ("refund" \in late' => RefundAsked)
  BY <1>1 DEF Told, JInv, Awaited, RefundAsked
<1> QED BY <1>1, <1>2, <1>3, CloudKeepsCustody DEF JInv

\* Time, Mercado Pago and its customers write nothing of all this.
LEMMA OutsideKeepsCustody ==
    ASSUME JInv, IInv', UNCHANGED <<sale, local, outbox, act, row, refunds, late, lane>>
    PROVE  JInv'
BY DEF JInv, Custody, Answers, Awaited, EndedAgreesWithCloud, Replaced, ChargedOtherwise,
   RefundAsked

LEMMA ProviderKeepsCustody ==
    ASSUME JInv,
           \/ ExpiryPasses \/ LateCreation
           \/ \E o \in Order, result \in {"paid", "closed"} : Ends(o, result)
    PROVE  JInv'
<1>1. IInv'
  BY ExpiryPassesKeeps, LateCreationKeeps, EndsKeeps DEF JInv
<1>2. UNCHANGED <<sale, local, outbox, act, row, refunds, late, lane>>
  BY DEF ExpiryPasses, LateCreation, Ends, registerVars, cloudVars
<1> QED BY <1>1, <1>2, OutsideKeepsCustody

-----------------------------------------------------------------------------
(* The register gives up, or stops *)

LEMMA GiveUpKeepsCustody == ASSUME JInv, NEW a \in Activity, GiveUp(a) PROVE JInv'
<1>0. act \in ActSet /\ lane \in LaneSet /\ IInv'
  BY GiveUpKeeps DEF JInv, IInv, TypeOK, ActSet, LaneSet
<1>1. /\ IInv' /\ act \in ActSet /\ lane \in LaneSet
      /\ UNCHANGED <<sale, local, outbox, row, refunds>> /\ act[a] \in Calls
  BY <1>0 DEF GiveUp
<1>2. act' = [act EXCEPT ![a] = IF act[a] = "create" THEN "order_unreachable" ELSE "unreachable"]
  BY DEF GiveUp
<1>3. \A b \in Activity : act'[b] = IF b # a THEN act[b]
                                    ELSE IF act[a] = "create" THEN "order_unreachable"
                                    ELSE "unreachable"
  BY <1>1, <1>2 DEF ActSet
<1>4. Told
  BY <1>1, <1>3 DEF Told, InStart, Calls, Final
<1>5. Awaited'
  <2>1. CASE lane.for = a
    <3>1. lane'.for = "nobody" /\ lane'.step = lane.step /\ lane'.job = lane.job
      BY <1>1, <2>1 DEF GiveUp, LaneSet
    <3> QED BY <3>1 DEF JInv, Awaited
  <2>2. CASE lane.for # a
    <3>1. lane' = lane /\ (lane.for # "nobody" => act'[lane.for] = act[lane.for])
      BY <1>1, <1>3, <2>2 DEF GiveUp, LaneSet
    <3> QED BY <3>1 DEF JInv, Awaited
  <2> QED BY <2>1, <2>2
<1>6. "refund" \in late' => RefundAsked
  BY DEF GiveUp, RefundAsked
<1>7. RowEndsOnce /\ GivenBack /\ (Replaced' <=> Replaced)
  BY <1>1 DEF RowEndsOnce, GivenBack, Replaced
<1> QED BY <1>1, <1>4, <1>5, <1>6, <1>7, CloudKeepsCustody DEF JInv

LEMMA RestartKeepsCustody == ASSUME JInv, Restart PROVE JInv'
<1>1. /\ IInv' /\ UNCHANGED <<sale, local, outbox, row, refunds>>
      /\ \A a \in Activity : act'[a] = "idle"
  BY RestartKeeps DEF JInv, Restart
<1>2. lane'.for = "nobody" /\ lane'.step = lane.step /\ lane'.job = lane.job
  BY DEF Restart, JInv, IInv, TypeOK
<1>3. RefundAsked' => RefundAsked
  BY <1>1 DEF Restart, RefundAsked
<1>4. (Replaced' <=> Replaced) /\ (ChargedOtherwise' <=> ChargedOtherwise)
  BY <1>1 DEF Replaced, ChargedOtherwise
<1>5. Custody'
  BY <1>1, <1>3, <1>4 DEF JInv, Custody, EndedAgreesWithCloud
<1>6. Answers' /\ Awaited'
  BY <1>1, <1>2 DEF JInv, Answers, Awaited, Activity, InStart, Final
<1> QED BY <1>1, <1>5, <1>6 DEF JInv

-----------------------------------------------------------------------------
(* The theorems *)

\* What excludes giving back a held payment holds in every reachable state.
THEOREM CustodyInductive == Spec => []JInv
<1>1. JInv /\ [Next]_vars => JInv'
  <2> SUFFICES ASSUME JInv, [Next]_vars PROVE JInv'
    OBVIOUS
  <2>1. CASE \/ Start \/ StartAnswered \/ Follow \/ FollowAnswered \/ Abandon \/ AbandonAnswered
    BY <2>1, StartKeepsCustody, StartAnsweredKeepsCustody, FollowKeepsCustody,
       FollowAnsweredKeepsCustody, AbandonKeepsCustody, AbandonAnsweredKeepsCustody
  <2>2. CASE \/ Discover \/ ListPaidOrders \/ DiscoveryAnswered
             \/ CloseSale \/ WaitElapses \/ Restart \/ NextStart
    BY <2>2, DiscoverKeepsCustody, DiscoveryAnsweredKeepsCustody, AsideKeepsCustody,
       RestartKeepsCustody
  <2>3. CASE \E a \in Activity : GiveUp(a)
    BY <2>3, GiveUpKeepsCustody
  <2>4. CASE (\E a \in Activity \union {"nobody"} : Begin(a)) \/ BeginCheck
    BY <2>4, BeginKeepsCustody, BeginCheckKeepsCustody DEF Someone
  <2>5. CASE HolderStep \/ HolderFault
    BY <2>5, CreationKeepsCustody, OrderReadKeepsCustody, OrdersSearchedKeepsCustody,
       CancellationAnsweredKeepsCustody, NotAnsweredKeepsCustody DEF HolderStep, HolderFault
  <2>6. CASE \/ (\E o \in Order : TakeNotice(o)) \/ HandleNotice
             \/ ApplyReplaced \/ ApplyCompleted
    BY <2>6, NoticeKeepsCustody, EventKeepsCustody
  <2>7. CASE \/ ExpiryPasses \/ LateCreation
             \/ \E o \in Order, result \in {"paid", "closed"} : Ends(o, result)
    BY <2>7, ProviderKeepsCustody
  <2>8. CASE UNCHANGED vars
    <3>1. IInv' /\ UNCHANGED <<sale, local, outbox, act, row, refunds, late, lane>>
      BY <2>8, StutterKeeps DEF JInv, vars, registerVars, cloudVars
    <3> QED BY <3>1, OutsideKeepsCustody
  <2> QED BY <2>1, <2>2, <2>3, <2>4, <2>5, <2>6, <2>7, <2>8 DEF Next
<1> QED BY InitCustody, <1>1, PTL DEF Spec

\* A payment that the register holds for its sale is not given back, in whatever order a
\* replacement, a late approval and a discovery of paid orders come.
THEOREM HeldIsKept == Spec => []HeldIsNotRefunded
<1>1. JInv => HeldIsNotRefunded
  BY DEF JInv, Custody, ChargedOtherwise, HeldIsNotRefunded
<1> QED BY CustodyInductive, <1>1, PTL

\* A QR charge that the register took for ended has ended at the cloud.
THEOREM EndedIsEnded == Spec => []EndedAgreesWithCloud
<1>1. JInv => EndedAgreesWithCloud
  BY DEF JInv, Custody
<1> QED BY CustodyInductive, <1>1, PTL

=============================================================================
