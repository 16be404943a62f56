---------------------------- MODULE FiscalLaneProofs ----------------------------
(***************************************************************************)
(* Theorems about FiscalLane, for any sales, documents and faults.         *)
(*                                                                         *)
(* They rest on three facts: a number is reserved only when the documents  *)
(* before have their outcome (Series), a request is solicited at most once *)
(* (Solicited), and what a decision said of a request stays true of it, as *)
(* long as no solicitation outlives the settling delay (Voided).           *)
(***************************************************************************)
EXTENDS FiscalLane, LeastElements, SequenceTheorems

USE AmountsAssumption, BoundsAssumption, SalesAssumption

-----------------------------------------------------------------------------
(* The inductive invariant *)

\* The documents of the register, in the order they were reserved.
Series ==
    /\ Cardinality({sold[i] : i \in DOMAIN sold}) = Len(sold)
    /\ \A d \in Docs : \E i \in DOMAIN sold : sold[i] = doc[d].sale
    /\ \A d \in Docs :
          \/ doc[d].number <= pulled.count + 1
          \/ \E e \in InState(Consuming) : doc[d].number <= doc[e].number + 1
    /\ \A d, e \in Docs : d < e =>
          /\ doc[d].state \notin Unresolved
          /\ doc[d].number <= doc[e].number
          /\ doc[d].state \in Consuming => doc[d].number < doc[e].number
          /\ doc[d].state = "AUTHORIZED" => doc[d].sale # doc[e].sale

Counts == pulled.count <= count /\ count <= Len(arca) /\ freeze.before <= count

\* The register holds what the cloud answered, or decided, of a document.
Told ==
    \A d \in Docs :
        /\ doc[d].state = "AUTHORIZED" => Claims(d)
        /\ doc[d].state = "REJECTED" => req[d].answer = "rejected"
        /\ doc[d].state = "RELEASED" => req[d].decision = "released"
        /\ doc[d].state = "CONFLICTING" => req[d].decision = "conflicting"

Satisfied == \A s \in Sale : deferred[s] = "satisfied" => HoldsAuthorized(s)

\* The answer on its way is one to the document that awaits it.
Replied ==
    /\ reply # "none" => InState({"REQUESTING"}) # {}
    /\ reply \in {"authorized", "rejected"} =>
          \A d \in InState({"REQUESTING"}) : req[d].answer = reply

\* What the cloud recorded of a request.
Decided ==
    \A d \in DocId : req[d].decision # "none" => req[d].answer \in {"not_attempted", "unclear"}

Requests ==
    \A d \in Docs :
        /\ Claims(d) \/ req[d].decision = "conflicting" => doc[d].number <= Len(arca)
        /\ req[d].decision = "conflicting" =>
              doc[d].number \in tasks /\ arca[doc[d].number].amount # AmountOf[doc[d].sale]
        /\ d \in settled => req[d].answer = "unclear"

\* The work that holds the lane.
Works ==
    /\ lane.work = "free" => lane = FreeLane
    /\ lane.work # "free" => lane.doc \in Docs /\ req[lane.doc].decision = "none"
    /\ lane.work = "recorded" => req[lane.doc].answer = "none" /\ lane.seen = "none"
    /\ lane.work = "soliciting" =>
          /\ req[lane.doc].answer = "none"
          /\ lane.seen # "none" => lane.doc \notin inflight
          /\ lane.seen = "authorized" => doc[lane.doc].number <= Len(arca)
          /\ lane.seen = "rejected" =>
                /\ doc[lane.doc].number > count
                /\ \A n \in DOMAIN arca : arca[n].doc # lane.doc
    /\ lane.work = "deciding" => lane.doc \in settled

\* A request is solicited once: on its way to the tax authority, or processed there.
Solicited ==
    /\ \A d \in inflight :
          req[d].answer \in {"none", "unclear"} /\ ~(lane.work = "recorded" /\ lane.doc = d)
    /\ \A n \in DOMAIN arca : arca[n].doc # 0 =>
          /\ doc[arca[n].doc].number = n /\ arca[n].amount = AmountOf[doc[arca[n].doc].sale]
          /\ arca[n].doc \notin inflight
          /\ req[arca[n].doc].answer \in {"none", "unclear", "authorized"}
          /\ ~(lane.work = "recorded" /\ lane.doc = arca[n].doc)

\* A request that was refused or decided against has no voucher and gets none.
Voided ==
    late = 0 =>
        /\ \A d \in settled : d \notin inflight
        /\ \A d \in Docs : req[d].decision \in {"released", "conflicting"} \/ req[d].answer = "rejected" =>
              d \notin inflight /\ \A n \in DOMAIN arca : arca[n].doc # d

Accounted(n) ==
    \/ n \in tasks
    \/ \E d \in Recorded : Claims(d) /\ doc[d].number = n
    \/ HasRequestBehind(n)

\* Every number that the count or a document of the register has passed.
Accounts ==
    /\ \A n \in 1..count : Accounted(n)
    /\ \A d \in Docs : \A n \in 1..(doc[d].number - 1) : Accounted(n)

IInv ==
    /\ TypeOK /\ Series /\ Counts /\ Told /\ Replied /\ Decided /\ Requests /\ Works
    /\ Solicited /\ Voided /\ Accounts /\ Satisfied /\ NoSaleForgotten

-----------------------------------------------------------------------------
(* What the types say of each document and each voucher *)

LEMMA Typed ==
    ASSUME TypeOK
    PROVE  /\ Len(doc) \in Nat /\ Docs = 1..Len(doc) /\ Docs \subseteq DocId
           /\ \A d \in Docs :
                 /\ doc[d] \in [sale : Sale, number : Nat \ {0}, state : States]
                 /\ doc[d].sale \in Sale /\ doc[d].number \in Nat \ {0} /\ doc[d].state \in States
           /\ Len(arca) \in Nat /\ DOMAIN arca = 1..Len(arca)
           /\ \A n \in DOMAIN arca : arca[n].doc \in {0} \union Docs
           /\ Len(sold) \in Nat /\ DOMAIN sold = 1..Len(sold)
           /\ \A i \in DOMAIN sold : sold[i] \in Sale
<1>1. /\ doc \in Seq([sale : Sale, number : Nat \ {0}, state : States]) /\ Len(doc) <= MaxDocs
      /\ arca \in Seq([doc : {0} \union Docs, amount : Amount]) /\ sold \in Seq(Sale)
  BY DEF TypeOK
<1>2. Len(doc) \in Nat /\ Docs = 1..Len(doc) /\ Docs \subseteq DocId
  BY <1>1 DEF Docs, DocId
<1>3. \A d \in Docs : doc[d] \in [sale : Sale, number : Nat \ {0}, state : States]
  BY <1>1, <1>2, ElementOfSeq
<1>4. Len(arca) \in Nat /\ DOMAIN arca = 1..Len(arca)
  BY <1>1
<1>5. \A n \in DOMAIN arca : arca[n] \in [doc : {0} \union Docs, amount : Amount]
  BY <1>1, <1>4, ElementOfSeq
<1>6. Len(sold) \in Nat /\ DOMAIN sold = 1..Len(sold) /\ \A i \in DOMAIN sold : sold[i] \in Sale
  BY <1>1, ElementOfSeq
<1> QED BY <1>2, <1>3, <1>4, <1>5, <1>6

\* Documents whose number is taken have a voucher at it.
LEMMA ConsumingHaveVouchers ==
    ASSUME IInv, NEW d \in InState(Consuming)
    PROVE  doc[d].number <= Len(arca)
BY DEF IInv, InState, Consuming, Told, Requests

\* The number that is reserved is the first above the count and the numbers taken.
LEMMA NextNumberSpec ==
    ASSUME IInv
    PROVE  /\ NextNumber \in Nat \ {0} /\ NextNumber > pulled.count
           /\ \A e \in InState(Consuming) : NextNumber > doc[e].number
           /\ \/ NextNumber = pulled.count + 1
              \/ \E e \in InState(Consuming) : NextNumber = doc[e].number + 1
<1> DEFINE S == {0, pulled.count} \union {doc[d].number : d \in InState(Consuming)}
<1>1. pulled.count \in Nat /\ \A d \in InState(Consuming) : doc[d].number \in Nat
  BY Typed DEF IInv, TypeOK, InState
<1>2. Len(arca) \in Nat /\ pulled.count <= Len(arca)
  <2>1. Len(arca) \in Nat /\ count \in Nat
    BY Typed DEF IInv, TypeOK
  <2> QED BY <1>1, <2>1 DEF IInv, Counts
<1>3. S \in SUBSET Nat /\ S # {} /\ \A n \in S : n <= Len(arca)
  BY <1>1, <1>2, ConsumingHaveVouchers
<1>4. PICK m \in S : \A n \in S : n <= m
  <2> HIDE DEF S
  <2> QED BY <1>2, <1>3, GreatestNatural
<1>5. Max(S) \in S /\ \A n \in S : n <= Max(S)
  <2> HIDE DEF S
  <2> QED BY <1>3, <1>4 DEF Max
<1>6. NextNumber = Max(S) + 1
  BY DEF NextNumber
<1>7. \A n \in S : n \in Nat
  BY <1>3
<1>8. Max(S) \in Nat
  BY <1>5, <1>7
<1>9. Max(S) = 0 \/ Max(S) = pulled.count \/ \E e \in InState(Consuming) : Max(S) = doc[e].number
  BY <1>5
<1>10. pulled.count <= Max(S) /\ \A e \in InState(Consuming) : doc[e].number <= Max(S)
  BY <1>5
<1> HIDE DEF S
<1> QED BY <1>1, <1>6, <1>8, <1>9, <1>10

\* The count is over numbers of the tax authority, and a maximum of two counts is one of them.
LEMMA MaxOfTwo ==
    ASSUME NEW a \in Nat, NEW b \in Nat
    PROVE  Max({a, b}) = IF a >= b THEN a ELSE b
BY DEF Max

-----------------------------------------------------------------------------
(* What a step leaves alone *)

LEMMA Untouched ==
    ASSUME IInv
    PROVE  /\ UNCHANGED <<sold, doc, pulled>> => Series'
           /\ UNCHANGED <<pulled, count, freeze, arca>> => Counts'
           /\ UNCHANGED <<doc, req>> => Told'
           /\ UNCHANGED <<doc, req, reply>> => Replied'
           /\ UNCHANGED req => Decided'
           /\ UNCHANGED <<doc, req, arca, tasks, settled>> => Requests'
           /\ UNCHANGED <<doc, req, arca, lane, settled, count>> /\ inflight' \subseteq inflight => Works'
           /\ UNCHANGED <<doc, req, arca>> /\ inflight' \subseteq inflight
                 /\ (lane' = lane \/ lane'.work # "recorded") => Solicited'
           /\ UNCHANGED <<doc, req, arca, settled, late>> /\ inflight' \subseteq inflight => Voided'
           /\ UNCHANGED <<doc, req, arca, tasks, count>> => Accounts'
           /\ UNCHANGED <<deferred, doc>> => Satisfied'
           /\ UNCHANGED <<sold, offline, deferred, doc>> => NoSaleForgotten'
<1> USE DEF IInv, Docs
<1>1. UNCHANGED <<sold, doc, pulled>> => Series'
  BY DEF Series, InState
<1>2. UNCHANGED <<pulled, count, freeze, arca>> => Counts'
  BY DEF Counts
<1>3. UNCHANGED <<doc, req>> => Told'
  BY DEF Told, Claims
<1>10. UNCHANGED <<doc, req, reply>> => Replied'
  BY DEF Replied, InState
<1>11. UNCHANGED req => Decided'
  BY DEF Decided
<1>12. UNCHANGED <<deferred, doc>> => Satisfied'
  BY DEF Satisfied, HoldsAuthorized, InState
<1>4. UNCHANGED <<doc, req, arca, tasks, settled>> => Requests'
  BY DEF Requests, Claims
<1>5. UNCHANGED <<doc, req, arca, lane, settled, count>> /\ inflight' \subseteq inflight => Works'
  BY DEF Works
<1>6. UNCHANGED <<doc, req, arca>> /\ inflight' \subseteq inflight
         /\ (lane' = lane \/ lane'.work # "recorded") => Solicited'
  BY DEF Solicited
<1>7. UNCHANGED <<doc, req, arca, settled, late>> /\ inflight' \subseteq inflight => Voided'
  BY DEF Voided
<1>8. UNCHANGED <<doc, req, arca, tasks, count>> => Accounts'
  BY DEF Accounts, Accounted, Recorded, Claims, HasRequestBehind
<1>9. UNCHANGED <<sold, offline, deferred, doc>> => NoSaleForgotten'
  BY DEF NoSaleForgotten, HoldsAuthorized, InState
<1> QED BY <1>1, <1>2, <1>3, <1>4, <1>5, <1>6, <1>7, <1>8, <1>9, <1>10, <1>11, <1>12

\* What is on record stays so.
Recalls ==
    /\ tasks \subseteq tasks' /\ Docs \subseteq Docs'
    /\ \A d \in Docs : doc'[d].sale = doc[d].sale /\ doc'[d].number = doc[d].number
    /\ \A n \in 1..Len(arca) : arca'[n] = arca[n]
    /\ \A d \in Recorded : d \in Recorded' /\ (Claims(d) => Claims(d)')

LEMMA StillAccounted ==
    ASSUME IInv, Recalls, NEW n \in 1..Len(arca), Accounted(n),
           \A d \in Recorded : doc[d].number = n /\ req[d].answer # "rejected" => req'[d].answer # "rejected"
    PROVE  Accounted(n)'
<1>1. Recorded \subseteq Docs
  BY DEF IInv, TypeOK
<1>2. CASE n \in tasks
  BY <1>2 DEF Accounted, Recalls
<1>3. CASE \E d \in Recorded : Claims(d) /\ doc[d].number = n
  <2>1. PICK d \in Recorded : Claims(d) /\ doc[d].number = n
    BY <1>3
  <2>2. d \in Recorded' /\ Claims(d)' /\ doc'[d].number = n
    BY <1>1, <2>1 DEF Recalls
  <2> QED BY <2>2 DEF Accounted
<1>4. CASE HasRequestBehind(n)
  <2>1. PICK d \in Recorded : /\ doc[d].number = n /\ req[d].answer # "rejected"
                              /\ arca[n].amount = AmountOf[doc[d].sale]
    BY <1>4 DEF HasRequestBehind
  <2>2. d \in Recorded' /\ doc'[d].number = n /\ doc'[d].sale = doc[d].sale /\ arca'[n] = arca[n]
    BY <1>1, <2>1 DEF Recalls
  <2>3. HasRequestBehind(n)'
    BY <2>1, <2>2 DEF HasRequestBehind
  <2> QED BY <2>3 DEF Accounted
<1> QED BY <1>2, <1>3, <1>4 DEF Accounted

\* A number is at most one above the vouchers of the tax authority.
LEMMA NumbersAreReached ==
    ASSUME IInv
    PROVE  \A d \in Docs : doc[d].number <= Len(arca) + 1
<1> SUFFICES ASSUME NEW d \in Docs PROVE doc[d].number <= Len(arca) + 1
  OBVIOUS
<1>1. pulled.count \in Nat /\ count \in Nat /\ Len(arca) \in Nat /\ doc[d].number \in Nat
  BY Typed DEF IInv, TypeOK
<1>2. pulled.count <= Len(arca)
  BY <1>1 DEF IInv, Counts
<1>3. CASE doc[d].number <= pulled.count + 1
  BY <1>1, <1>2, <1>3
<1>4. CASE \E e \in InState(Consuming) : doc[d].number <= doc[e].number + 1
  <2>1. PICK e \in InState(Consuming) : doc[d].number <= doc[e].number + 1
    BY <1>4
  <2>2. doc[e].number \in Nat /\ doc[e].number <= Len(arca)
    BY ConsumingHaveVouchers, Typed DEF IInv, InState
  <2> QED BY <1>1, <2>1, <2>2
<1> QED BY <1>3, <1>4 DEF IInv, Series

LEMMA AccountsKept ==
    ASSUME IInv, Recalls, UNCHANGED count, Docs' = Docs,
           \A d \in Recorded : req[d].answer # "rejected" => req'[d].answer # "rejected"
    PROVE  Accounts'
<1>1. count \in Nat /\ Len(arca) \in Nat /\ count <= Len(arca)
  BY Typed DEF IInv, TypeOK, Counts
<1>2. ASSUME NEW n \in 1..count PROVE Accounted(n)'
  BY <1>1, <1>2, StillAccounted DEF IInv, Accounts
<1>3. ASSUME NEW d \in Docs, NEW n \in 1..(doc'[d].number - 1) PROVE Accounted(n)'
  <2>1. doc'[d].number = doc[d].number /\ doc[d].number \in Nat /\ doc[d].number <= Len(arca) + 1
    BY NumbersAreReached, Typed DEF IInv, Recalls
  <2>2. n \in 1..Len(arca) /\ Accounted(n)
    BY <1>1, <2>1 DEF IInv, Accounts
  <2> QED BY <2>2, StillAccounted
<1> QED BY <1>2, <1>3 DEF Accounts

-----------------------------------------------------------------------------
(* The register *)

\* A document is added behind the others.
LEMMA Added ==
    ASSUME IInv, NEW s \in Sale, Reserve(s)
    PROVE  LET new == Len(doc) + 1 IN
           /\ doc' \in Seq([sale : Sale, number : Nat \ {0}, state : States]) /\ Len(doc') <= MaxDocs
           /\ Docs' = Docs \union {new} /\ new \notin Docs /\ new \in DocId
           /\ \A d \in Docs : doc'[d] = doc[d] /\ d < new
           /\ doc'[new].sale = s /\ doc'[new].number = NextNumber /\ doc'[new].state = "REQUESTING"
           /\ req[new].answer = "unrecorded" /\ req[new].decision = "none"
           /\ InState(Consuming)' = InState(Consuming)
<1> DEFINE new == Len(doc) + 1
           added == [sale |-> s, number |-> NextNumber, state |-> "REQUESTING"]
           D == [sale : Sale, number : Nat \ {0}, state : States]
<1>1. doc' = Append(doc, added) /\ Len(doc) < MaxDocs
  BY DEF Reserve
<1>2. added \in D /\ doc \in Seq(D)
  BY NextNumberSpec DEF States, Unresolved, IInv, TypeOK
<1>3. /\ doc' \in Seq(D) /\ Len(doc') = Len(doc) + 1
      /\ \A d \in 1..Len(doc) : doc'[d] = doc[d]
      /\ doc'[new] = added
  <2> HIDE DEF added, D
  <2> QED BY <1>1, <1>2, AppendProperties
<1>4. Len(doc) \in Nat /\ Docs = 1..Len(doc)
  BY Typed DEF IInv
<1>5. Docs' = 1..Len(doc')
  BY <1>3 DEF Docs
<1>6. Docs' = Docs \union {new} /\ new \notin Docs /\ new \in DocId
  BY <1>1, <1>3, <1>4, <1>5 DEF DocId
<1>7. new \notin Recorded
  BY <1>6 DEF IInv, TypeOK
<1>8. req[new].answer = "unrecorded"
  BY <1>6, <1>7 DEF Recorded
<1>9. req[new].decision = "none"
  BY <1>6, <1>8 DEF IInv, Decided
<1>10. InState(Consuming)' = InState(Consuming)
  BY <1>3, <1>4, <1>6 DEF InState, Consuming
<1> QED BY <1>1, <1>3, <1>4, <1>6, <1>8, <1>9, <1>10

LEMMA ReserveKeeps ==
    ASSUME IInv, NEW s \in Sale, Reserve(s), SeriesOpen, ~HoldsAuthorized(s),
           sold' \in Seq(Sale), Len(sold') <= Cardinality(Sale),
           Cardinality({sold[i] : i \in DOMAIN sold}') = Len(sold'),
           \A i \in DOMAIN sold : i \in DOMAIN sold' /\ sold'[i] = sold[i],
           \E i \in DOMAIN sold' : sold'[i] = s,
           deferred' \in [Sale -> {"none", "pending", "satisfied"}],
           UNCHANGED <<offline, pulled, reply, cloudVars, lane, arca, inflight, faults, late>>
    PROVE  /\ TypeOK' /\ Series' /\ Counts' /\ Told' /\ Replied' /\ Decided' /\ Requests'
           /\ Works' /\ Solicited' /\ Voided' /\ Accounts'
<1> DEFINE new == Len(doc) + 1
<1> USE DEF cloudVars
<1>1. /\ doc' \in Seq([sale : Sale, number : Nat \ {0}, state : States]) /\ Len(doc') <= MaxDocs
      /\ Docs' = Docs \union {new} /\ new \notin Docs /\ new \in DocId
      /\ \A d \in Docs : doc'[d] = doc[d] /\ d < new
      /\ doc'[new].sale = s /\ doc'[new].number = NextNumber /\ doc'[new].state = "REQUESTING"
      /\ req[new].answer = "unrecorded" /\ req[new].decision = "none"
      /\ InState(Consuming)' = InState(Consuming)
  BY Added
<1>2. /\ \A d \in Docs : doc[d].state \notin Unresolved
      /\ \A d \in Docs : doc[d].state = "AUTHORIZED" => doc[d].sale # s
  BY DEF SeriesOpen, InState, HoldsAuthorized
<1>3. reply = "none"
  BY <1>2 DEF IInv, Replied, InState, Unresolved
<1>4. TypeOK'
  <2>1. calls' \subseteq Docs'
    BY <1>1 DEF Reserve, IInv, TypeOK
  <2>2. Recorded' = Recorded
    BY DEF Recorded
  <2>3. /\ lane' \in [work : {"free", "recorded", "soliciting", "deciding"}, doc : {0} \union Docs',
                      seen : {"none", "authorized", "rejected", "conflict", "no voucher"}]
        /\ arca' \in Seq([doc : {0} \union Docs', amount : Amount])
    <3>1. lane \in [work : {"free", "recorded", "soliciting", "deciding"}, doc : {0} \union Docs,
                    seen : {"none", "authorized", "rejected", "conflict", "no voucher"}]
      BY DEF IInv, TypeOK
    <3>2. arca \in Seq([doc : {0} \union Docs, amount : Amount])
      BY DEF IInv, TypeOK
    <3>3. [doc : {0} \union Docs, amount : Amount] \subseteq [doc : {0} \union Docs', amount : Amount]
      BY <1>1
    <3>4. arca \in Seq([doc : {0} \union Docs', amount : Amount])
      BY <3>2, <3>3, SeqMonotonic
    <3> QED BY <1>1, <3>1, <3>4
  <2>4. jobs' \in [decide : SUBSET Docs', diagnose : SUBSET Docs', reconcile : BOOLEAN]
    BY <1>1 DEF IInv, TypeOK
  <2>5. settled' \subseteq Docs' /\ inflight' \subseteq Docs' /\ Recorded' \subseteq Docs'
    BY <1>1, <2>2 DEF IInv, TypeOK
  <2>6. /\ offline' \subseteq Sale /\ pulled' \in [count : Nat, frozen : BOOLEAN] /\ reply' \in Answers
        /\ count' \in Nat /\ freeze' \in [on : BOOLEAN, before : Nat] /\ tasks' \subseteq Nat
        /\ req' \in [DocId -> [answer : Answers \union {"unrecorded"}, conflict : BOOLEAN,
                               decision : Decisions, diagnosed : BOOLEAN]]
        /\ faults' \in 0..MaxFaults /\ late' \in 0..MaxLate
    BY DEF IInv, TypeOK
  <2> QED BY <1>1, <2>1, <2>3, <2>4, <2>5, <2>6 DEF TypeOK
<1>5. Series'
  <2>1. \A d \in Docs' : \E i \in DOMAIN sold' : sold'[i] = doc'[d].sale
    <3> SUFFICES ASSUME NEW d \in Docs' PROVE \E i \in DOMAIN sold' : sold'[i] = doc'[d].sale
      OBVIOUS
    <3>1. CASE d \in Docs
      <4>1. PICK i \in DOMAIN sold : sold[i] = doc[d].sale
        BY <3>1 DEF IInv, Series
      <4> QED BY <1>1, <3>1, <4>1
    <3>2. CASE d = new
      BY <1>1, <3>2
    <3> QED BY <1>1, <3>1, <3>2
  <2>2. \A d \in Docs' : \/ doc'[d].number <= pulled'.count + 1
                         \/ \E e \in InState(Consuming)' : doc'[d].number <= doc'[e].number + 1
    <3>1. InState(Consuming) \subseteq Docs
      BY DEF InState
    <3>2. NextNumber \in Nat /\ pulled.count \in Nat
      BY NextNumberSpec DEF IInv, TypeOK
    <3>3. \/ NextNumber <= pulled.count + 1
          \/ \E e \in InState(Consuming) : NextNumber <= doc[e].number + 1
      BY <3>2, NextNumberSpec
    <3> SUFFICES ASSUME NEW d \in Docs'
                 PROVE  \/ doc'[d].number <= pulled.count + 1
                        \/ \E e \in InState(Consuming) : doc'[d].number <= doc[e].number + 1
      BY <1>1, <3>1
    <3>4. CASE d \in Docs
      <4>1. \/ doc[d].number <= pulled.count + 1
            \/ \E e \in InState(Consuming) : doc[d].number <= doc[e].number + 1
        BY <3>4 DEF IInv, Series
      <4> QED BY <1>1, <3>4, <4>1
    <3>5. CASE d = new
      BY <1>1, <3>3, <3>5
    <3> QED BY <1>1, <3>4, <3>5
  <2>3. \A d \in Docs : doc[d].number <= NextNumber
    <3> SUFFICES ASSUME NEW d \in Docs PROVE doc[d].number <= NextNumber
      OBVIOUS
    <3>1. doc[d].number \in Nat /\ NextNumber \in Nat /\ pulled.count \in Nat
      BY NextNumberSpec, Typed DEF IInv, TypeOK
    <3>2. CASE doc[d].number <= pulled.count + 1
      BY <3>1, <3>2, NextNumberSpec
    <3>3. CASE \E e \in InState(Consuming) : doc[d].number <= doc[e].number + 1
      <4>1. PICK e \in InState(Consuming) : doc[d].number <= doc[e].number + 1
        BY <3>3
      <4>2. doc[e].number \in Nat /\ NextNumber > doc[e].number
        BY NextNumberSpec, Typed DEF IInv, InState
      <4> QED BY <3>1, <4>1, <4>2
    <3> QED BY <3>2, <3>3 DEF IInv, Series
  <2>4. \A d \in Docs : doc[d].state \in Consuming => doc[d].number < NextNumber
    BY NextNumberSpec, Typed DEF IInv, InState
  <2>5. \A d, e \in Docs' : d < e =>
          /\ doc'[d].state \notin Unresolved
          /\ doc'[d].number <= doc'[e].number
          /\ doc'[d].state \in Consuming => doc'[d].number < doc'[e].number
          /\ doc'[d].state = "AUTHORIZED" => doc'[d].sale # doc'[e].sale
    <3> SUFFICES ASSUME NEW d \in Docs', NEW e \in Docs', d < e
                 PROVE  /\ doc'[d].state \notin Unresolved
                        /\ doc'[d].number <= doc'[e].number
                        /\ doc'[d].state \in Consuming => doc'[d].number < doc'[e].number
                        /\ doc'[d].state = "AUTHORIZED" => doc'[d].sale # doc'[e].sale
      OBVIOUS
    <3>1. d \in Docs /\ doc'[d] = doc[d]
      BY <1>1, Typed DEF IInv
    <3>2. CASE e \in Docs
      <4>1. /\ doc[d].state \notin Unresolved
            /\ doc[d].number <= doc[e].number
            /\ doc[d].state \in Consuming => doc[d].number < doc[e].number
            /\ doc[d].state = "AUTHORIZED" => doc[d].sale # doc[e].sale
        BY <3>1, <3>2 DEF IInv, Series
      <4>2. doc'[e] = doc[e]
        BY <1>1, <3>2
      <4> QED BY <3>1, <4>1, <4>2
    <3>3. CASE e = new
      BY <1>1, <1>2, <2>3, <2>4, <3>1, <3>3
    <3> QED BY <1>1, <3>2, <3>3
  <2> QED BY <2>1, <2>2, <2>5 DEF Series
<1>6. Counts'
  BY Untouched
<1>7. Told'
  <2>1. \A d \in Docs : /\ doc'[d].state = "AUTHORIZED" => Claims(d)
                        /\ doc'[d].state = "REJECTED" => req[d].answer = "rejected"
                        /\ doc'[d].state = "RELEASED" => req[d].decision = "released"
                        /\ doc'[d].state = "CONFLICTING" => req[d].decision = "conflicting"
    <3>1. \A d \in Docs : /\ doc[d].state = "AUTHORIZED" => Claims(d)
                          /\ doc[d].state = "REJECTED" => req[d].answer = "rejected"
                          /\ doc[d].state = "RELEASED" => req[d].decision = "released"
                          /\ doc[d].state = "CONFLICTING" => req[d].decision = "conflicting"
      BY DEF IInv, Told
    <3> QED BY <1>1, <3>1
  <2> QED BY <1>1, <2>1 DEF Told, Claims
<1>13. Replied' /\ Decided'
  BY <1>3, Untouched DEF Replied
<1>8. Requests'
  <2>1. \A d \in Docs : /\ Claims(d) \/ req[d].decision = "conflicting" => doc'[d].number <= Len(arca)
                        /\ req[d].decision = "conflicting" =>
                              doc'[d].number \in tasks /\ arca[doc'[d].number].amount # AmountOf[doc'[d].sale]
                        /\ d \in settled => req[d].answer = "unclear"
    BY <1>1 DEF IInv, Requests
  <2>2. new \notin settled /\ ~Claims(new) /\ req[new].decision # "conflicting"
    BY <1>1 DEF Claims, IInv, TypeOK
  <2> QED BY <1>1, <2>1, <2>2 DEF Requests, Claims
<1>9. Works'
  BY <1>1 DEF IInv, Works
<1>10. Solicited'
  <2>1. inflight \subseteq Docs
    BY DEF IInv, TypeOK
  <2>2. \A n \in DOMAIN arca : arca[n].doc # 0 => doc'[arca[n].doc] = doc[arca[n].doc]
    BY <1>1, Typed DEF IInv
  <2> QED BY <2>1, <2>2 DEF IInv, Solicited
<1>11. Voided'
  <2>1. \A n \in DOMAIN arca : arca[n].doc # new
    BY <1>1, Typed DEF IInv, DocId
  <2>2. new \notin inflight
    BY <1>1 DEF IInv, TypeOK
  <2> QED BY <1>1, <2>1, <2>2 DEF IInv, Voided
<1>12. Accounts'
  <2>1. Recalls
    BY <1>1 DEF Recalls, Recorded, Claims
  <2>2. count \in Nat /\ Len(arca) \in Nat /\ count <= Len(arca) /\ pulled.count \in Nat /\ pulled.count <= count
    BY Typed DEF IInv, TypeOK, Counts
  <2>3. \A n \in 1..Len(arca) : Accounted(n) => Accounted(n)'
    BY <2>1, StillAccounted
  <2>4. \A n \in 1..count : Accounted(n)'
    BY <2>2, <2>3 DEF IInv, Accounts
  <2>5. ASSUME NEW d \in Docs, NEW n \in 1..(doc[d].number - 1) PROVE Accounted(n)'
    <3>1. doc[d].number \in Nat /\ doc[d].number <= Len(arca) + 1
      BY NumbersAreReached, Typed DEF IInv
    <3> QED BY <2>2, <2>3, <2>5, <3>1 DEF IInv, Accounts
  <2>6. ASSUME NEW n \in 1..(NextNumber - 1) PROVE Accounted(n)'
    <3>1. CASE NextNumber = pulled.count + 1
      BY <2>2, <2>4, <2>6, <3>1
    <3>2. CASE \E e \in InState(Consuming) : NextNumber = doc[e].number + 1
      <4>1. PICK e \in InState(Consuming) : NextNumber = doc[e].number + 1
        BY <3>2
      <4>2. doc[e].number \in Nat \ {0} /\ e \in Docs
        BY Typed DEF IInv, InState
      <4>3. CASE n = doc[e].number
        <5>1. doc[e].number \in tasks \/ (e \in Recorded /\ Claims(e))
          <6>1. e \in DocId /\ (Claims(e) \/ req[e].decision = "conflicting")
            BY <4>1, <4>2, Typed DEF IInv, InState, Consuming, Told
          <6>2. Claims(e) => e \in Recorded
            BY <6>1 DEF Claims, IInv, Decided, Recorded
          <6> QED BY <4>2, <6>1, <6>2 DEF IInv, Requests
        <5>2. Accounted(n)
          BY <4>3, <5>1 DEF Accounted
        <5>3. n \in 1..Len(arca)
          BY <2>2, <4>1, <4>2, <4>3, ConsumingHaveVouchers
        <5> QED BY <2>3, <5>2, <5>3
      <4>4. CASE n # doc[e].number
        <5>1. n \in 1..(doc[e].number - 1)
          BY <2>6, <4>1, <4>2, <4>4
        <5> QED BY <2>5, <4>2, <5>1
      <4> QED BY <4>3, <4>4
    <3> QED BY <3>1, <3>2, NextNumberSpec
  <2>7. ASSUME NEW d \in Docs', NEW n \in 1..(doc'[d].number - 1) PROVE Accounted(n)'
    BY <1>1, <2>5, <2>6, <2>7
  <2> QED BY <2>4, <2>7 DEF Accounts
<1> QED BY <1>4, <1>5, <1>6, <1>7, <1>8, <1>9, <1>10, <1>11, <1>12, <1>13

\* A sale that completes is one more of finitely many.
LEMMA SaleIsAdded ==
    ASSUME IInv, NEW s \in Sale, Complete(s)
    PROVE  /\ sold' \in Seq(Sale) /\ Len(sold') <= Cardinality(Sale)
           /\ Cardinality({sold[i] : i \in DOMAIN sold}') = Len(sold')
           /\ DOMAIN sold' = DOMAIN sold \union {Len(sold) + 1}
           /\ \A i \in DOMAIN sold : sold'[i] = sold[i]
           /\ sold'[Len(sold) + 1] = s
<1> DEFINE before == {sold[i] : i \in DOMAIN sold}
           after == {sold'[i] : i \in DOMAIN sold'}
<1>1. s \notin before /\ sold' = Append(sold, s) /\ sold \in Seq(Sale)
  BY DEF Complete, IInv, TypeOK
<1>2. /\ sold' \in Seq(Sale) /\ Len(sold') = Len(sold) + 1
      /\ \A i \in 1..Len(sold) : sold'[i] = sold[i]
      /\ sold'[Len(sold) + 1] = s
  <2> HIDE DEF before
  <2> QED BY <1>1, AppendProperties
<1>3. DOMAIN sold = 1..Len(sold) /\ Len(sold) \in Nat /\ before \subseteq Sale
  BY Typed DEF IInv
<1>4. DOMAIN sold' = DOMAIN sold \union {Len(sold) + 1}
  BY <1>2, <1>3
<1>5. after = before \union {s}
  BY <1>2, <1>3, <1>4
<1>6. IsFiniteSet(before) /\ Cardinality(before) = Len(sold)
  <2>1. IsFiniteSet(before)
    <3> HIDE DEF before
    <3> QED BY <1>3, FS_Subset
  <2> QED BY <2>1 DEF IInv, Series
<1>7. Cardinality(after) = Len(sold')
  <2> HIDE DEF before, after
  <2>1. Cardinality(before \union {s}) = Cardinality(before) + 1
    BY <1>1, <1>6, FS_AddElement
  <2> QED BY <1>2, <1>5, <1>6, <2>1
<1>8. Cardinality(after) <= Cardinality(Sale)
  <2> HIDE DEF before, after
  <2> QED BY <1>3, <1>5, FS_Subset
<1> QED BY <1>2, <1>3, <1>4, <1>7, <1>8

Remembered(s) ==
    \/ s \in offline \/ HoldsAuthorized(s) \/ deferred[s] = "pending"
    \/ \E d \in InState(Unresolved) : doc[d].sale = s

LEMMA AllRemembered ==
    ASSUME IInv
    PROVE  \A s \in Sale : (\E i \in DOMAIN sold : sold[i] = s) => Remembered(s)
BY DEF IInv, NoSaleForgotten, Remembered

LEMMA NobodyForgotten ==
    ASSUME Satisfied', sold' \in Seq(Sale),
           \A s \in Sale : (\E i \in DOMAIN sold' : sold'[i] = s) => Remembered(s)'
    PROVE  NoSaleForgotten'
<1>1. ASSUME NEW i \in DOMAIN sold' PROVE sold'[i] \in Sale
  BY ElementOfSeq
<1> QED BY <1>1 DEF NoSaleForgotten, Remembered, Satisfied, HoldsAuthorized

LEMMA NoSaleForgottenReserving ==
    ASSUME IInv, NEW s \in Sale, Reserve(s), UNCHANGED offline, sold' \in Seq(Sale),
           \A i \in DOMAIN sold' : sold'[i] = s \/ \E j \in DOMAIN sold : sold[j] = sold'[i],
           \A x \in Sale : \/ deferred'[x] = deferred[x]
                           \/ deferred'[x] = "satisfied" /\ HoldsAuthorized(x),
           ~HoldsAuthorized(s)
    PROVE  Satisfied' /\ NoSaleForgotten'
<1> DEFINE new == Len(doc) + 1
<1>1. /\ Docs' = Docs \union {new} /\ new \notin Docs /\ \A d \in Docs : doc'[d] = doc[d]
      /\ doc'[new].sale = s /\ doc'[new].state = "REQUESTING"
  BY Added
<1>2. \A x \in Sale : HoldsAuthorized(x) => HoldsAuthorized(x)'
  BY <1>1 DEF HoldsAuthorized, InState
<1>3. /\ InState(Unresolved) \subseteq InState(Unresolved)' /\ new \in InState(Unresolved)'
      /\ \A d \in InState(Unresolved) : d \in Docs
  BY <1>1 DEF InState, Unresolved
<1>4. Satisfied'
  BY <1>2 DEF IInv, Satisfied
<1>5. ASSUME NEW x \in Sale, NEW i \in DOMAIN sold', sold'[i] = x PROVE Remembered(x)'
  <2>1. CASE x = s
    BY <1>1, <1>3, <2>1 DEF Remembered
  <2>2. CASE \E j \in DOMAIN sold : sold[j] = x
    BY <1>1, <1>2, <1>3, <2>2, AllRemembered DEF Remembered
  <2> QED BY <1>5, <2>1, <2>2
<1> QED BY <1>4, <1>5, NobodyForgotten

LEMMA CompleteReservingKeeps ==
    ASSUME IInv, NEW s \in Sale, CompleteReserving(s) PROVE IInv'
<1>1. /\ Complete(s) /\ SeriesOpen /\ Reserve(s)
      /\ UNCHANGED <<offline, deferred, pulled, reply, cloudVars, lane, arca, inflight, faults, late>>
  BY DEF CompleteReserving
<1>2. /\ sold' \in Seq(Sale) /\ Len(sold') <= Cardinality(Sale)
      /\ Cardinality({sold[i] : i \in DOMAIN sold}') = Len(sold')
      /\ DOMAIN sold' = DOMAIN sold \union {Len(sold) + 1}
      /\ \A i \in DOMAIN sold : sold'[i] = sold[i]
      /\ sold'[Len(sold) + 1] = s
  BY <1>1, SaleIsAdded
<1>3. ~HoldsAuthorized(s)
  <2>1. \A d \in Docs : doc[d].sale # s
    BY <1>1 DEF Complete, IInv, Series
  <2> QED BY <2>1 DEF HoldsAuthorized, InState
<1>4. /\ TypeOK' /\ Series' /\ Counts' /\ Told' /\ Replied' /\ Decided' /\ Requests'
      /\ Works' /\ Solicited' /\ Voided' /\ Accounts'
  <2>1. deferred' \in [Sale -> {"none", "pending", "satisfied"}]
    BY <1>1 DEF IInv, TypeOK
  <2>2. \E i \in DOMAIN sold' : sold'[i] = s
    BY <1>2
  <2>3. \A i \in DOMAIN sold : i \in DOMAIN sold' /\ sold'[i] = sold[i]
    BY <1>2
  <2> QED BY <1>1, <1>2, <1>3, <2>1, <2>2, <2>3, ReserveKeeps
<1>5. Satisfied' /\ NoSaleForgotten'
  <2>1. \A i \in DOMAIN sold' : sold'[i] = s \/ \E j \in DOMAIN sold : sold[j] = sold'[i]
    BY <1>2
  <2> QED BY <1>1, <1>2, <1>3, <2>1, NoSaleForgottenReserving
<1> QED BY <1>4, <1>5 DEF IInv

LEMMA CatchUpKeeps ==
    ASSUME IInv, CatchUp PROVE IInv'
<1>1. PICK i \in DOMAIN sold : sold[i] \in Backlog /\ Reserve(sold[i])
  BY DEF CatchUp
<1>2. PICK s \in Sale : s = sold[i]
  BY Typed DEF IInv
<1>3. Reserve(s) /\ SeriesOpen /\ ~HoldsAuthorized(s)
  BY <1>1, <1>2 DEF CatchUp, Backlog
<1>4. /\ UNCHANGED <<sold, offline, pulled, reply, cloudVars, lane, arca, inflight, faults, late>>
      /\ deferred' = [x \in Sale |-> IF deferred[x] = "pending" /\ HoldsAuthorized(x)
                                     THEN "satisfied" ELSE deferred[x]]
  BY DEF CatchUp
<1>5. deferred' \in [Sale -> {"none", "pending", "satisfied"}]
  BY <1>4 DEF IInv, TypeOK
<1>6. \A x \in Sale : \/ deferred'[x] = deferred[x]
                      \/ deferred'[x] = "satisfied" /\ HoldsAuthorized(x)
  BY <1>4
<1>7. /\ sold' \in Seq(Sale) /\ Len(sold') <= Cardinality(Sale)
      /\ Cardinality({sold[j] : j \in DOMAIN sold}') = Len(sold')
      /\ \A j \in DOMAIN sold : j \in DOMAIN sold' /\ sold'[j] = sold[j]
      /\ \E j \in DOMAIN sold' : sold'[j] = s
  <2>1. UNCHANGED sold
    BY <1>4
  <2>2. Cardinality({sold[j] : j \in DOMAIN sold}') = Len(sold')
    BY <2>1 DEF IInv, Series
  <2> QED BY <1>1, <1>2, <2>1, <2>2 DEF IInv, TypeOK
<1>8. /\ TypeOK' /\ Series' /\ Counts' /\ Told' /\ Replied' /\ Decided' /\ Requests'
      /\ Works' /\ Solicited' /\ Voided' /\ Accounts'
  BY <1>3, <1>4, <1>5, <1>7, ReserveKeeps
<1>9. Satisfied' /\ NoSaleForgotten'
  <2>1. \A j \in DOMAIN sold' : \E k \in DOMAIN sold : sold[k] = sold'[j]
    BY <1>4
  <2> QED BY <1>3, <1>4, <1>6, <1>7, <2>1, NoSaleForgottenReserving
<1> QED BY <1>8, <1>9 DEF IInv

LEMMA CompleteAsideKeeps ==
    ASSUME IInv, NEW s \in Sale, CompleteAside(s) PROVE IInv'
<1>1. /\ Complete(s)
      /\ \/ offline' = offline \union {s} /\ UNCHANGED deferred
         \/ deferred' = [deferred EXCEPT ![s] = "pending"] /\ UNCHANGED offline
      /\ UNCHANGED <<doc, pulled, calls, reply, cloudVars, lane, arca, inflight, faults, late>>
  BY DEF CompleteAside
<1>2. /\ sold' \in Seq(Sale) /\ Len(sold') <= Cardinality(Sale)
      /\ Cardinality({sold[i] : i \in DOMAIN sold}') = Len(sold')
      /\ DOMAIN sold' = DOMAIN sold \union {Len(sold) + 1}
      /\ \A i \in DOMAIN sold : sold'[i] = sold[i]
      /\ sold'[Len(sold) + 1] = s
  BY <1>1, SaleIsAdded
<1>3. deferred \in [Sale -> {"none", "pending", "satisfied"}]
  BY DEF IInv, TypeOK
<1>4. /\ deferred' \in [Sale -> {"none", "pending", "satisfied"}] /\ offline' \subseteq Sale
      /\ offline \subseteq offline' /\ (s \in offline' \/ deferred'[s] = "pending")
      /\ \A x \in Sale : deferred'[x] = deferred[x] \/ deferred'[x] = "pending"
  BY <1>1, <1>3 DEF IInv, TypeOK
<1>5. TypeOK'
  BY <1>1, <1>2, <1>4 DEF IInv, TypeOK, Recorded, Docs, cloudVars
<1>6. Series'
  <2>1. \A d \in Docs : \E i \in DOMAIN sold' : sold'[i] = doc[d].sale
    BY <1>2 DEF IInv, Series
  <2> QED BY <1>1, <1>2, <2>1 DEF IInv, Series, InState, Docs
<1>7. /\ Counts' /\ Told' /\ Replied' /\ Decided' /\ Requests' /\ Works' /\ Solicited' /\ Voided'
      /\ Accounts'
  BY <1>1, Untouched DEF cloudVars
<1>8. HoldsAuthorized(s)' = HoldsAuthorized(s) /\ \A x \in Sale : HoldsAuthorized(x) => HoldsAuthorized(x)'
  BY <1>1 DEF HoldsAuthorized, InState, Docs
<1>9. Satisfied'
  BY <1>4, <1>8 DEF IInv, Satisfied
<1>10. ASSUME NEW x \in Sale, NEW i \in DOMAIN sold', sold'[i] = x PROVE Remembered(x)'
  <2>1. InState(Unresolved)' = InState(Unresolved)
    BY <1>1 DEF InState, Docs
  <2>2. CASE x = s
    BY <1>4, <2>2 DEF Remembered
  <2>3. CASE \E j \in DOMAIN sold : sold[j] = x
    BY <1>1, <1>4, <1>8, <2>1, <2>3, AllRemembered DEF Remembered
  <2> QED BY <1>2, <1>10, <2>2, <2>3
<1>11. NoSaleForgotten'
  BY <1>2, <1>9, <1>10, NobodyForgotten
<1> QED BY <1>5, <1>6, <1>7, <1>9, <1>11 DEF IInv

-----------------------------------------------------------------------------
\* A document that had no outcome takes a state.
LEMMA Settled ==
    ASSUME IInv, NEW d \in InState(Unresolved), NEW state \in States, Settle(d, state)
    PROVE  /\ doc' \in Seq([sale : Sale, number : Nat \ {0}, state : States]) /\ Len(doc') <= MaxDocs
           /\ Docs' = Docs /\ d \in Docs /\ doc[d].state \in Unresolved
           /\ \A e \in Docs : /\ doc'[e].sale = doc[e].sale /\ doc'[e].number = doc[e].number
                              /\ doc'[e].state = IF e = d THEN state ELSE doc[e].state
           /\ deferred' \in [Sale -> {"none", "pending", "satisfied"}]
           /\ \A s \in Sale : s # doc[d].sale => deferred'[s] = deferred[s]
           /\ deferred[doc[d].sale] = "none" /\ state # "AUTHORIZED" => deferred'[doc[d].sale] = "pending"
           /\ deferred[doc[d].sale] = "pending" /\ state = "AUTHORIZED" => deferred'[doc[d].sale] = "satisfied"
           /\ \/ deferred[doc[d].sale] = "none" /\ state = "AUTHORIZED"
              \/ deferred[doc[d].sale] = "pending" /\ state # "AUTHORIZED"
              \/ deferred[doc[d].sale] = "satisfied"
              => deferred'[doc[d].sale] = deferred[doc[d].sale]
<1> DEFINE D == [sale : Sale, number : Nat \ {0}, state : States]
           after == [doc[d] EXCEPT !.state = state]
<1>1. d \in Docs /\ doc[d].state \in Unresolved /\ doc[d] \in D /\ doc \in Seq(D) /\ Len(doc) <= MaxDocs
      /\ Docs = 1..Len(doc) /\ doc[d].sale \in Sale
  BY Typed DEF IInv, TypeOK, InState
<1>2. after \in D /\ after.sale = doc[d].sale /\ after.number = doc[d].number /\ after.state = state
  BY <1>1
<1>3. doc' = [doc EXCEPT ![d] = after]
  BY DEF Settle
<1>4. /\ doc' \in Seq(D) /\ Len(doc') = Len(doc)
      /\ \A e \in 1..Len(doc) : doc'[e] = IF e = d THEN after ELSE doc[e]
  <2> HIDE DEF D, after
  <2> QED BY <1>1, <1>2, <1>3, ExceptSeq
<1>5. Docs' = Docs
  BY <1>3 DEF Docs
<1>6. deferred \in [Sale -> {"none", "pending", "satisfied"}]
  BY DEF IInv, TypeOK
<1>7. /\ deferred' \in [Sale -> {"none", "pending", "satisfied"}]
      /\ \A s \in Sale : s # doc[d].sale => deferred'[s] = deferred[s]
      /\ deferred[doc[d].sale] = "none" /\ state # "AUTHORIZED" => deferred'[doc[d].sale] = "pending"
      /\ deferred[doc[d].sale] = "pending" /\ state = "AUTHORIZED" => deferred'[doc[d].sale] = "satisfied"
      /\ \/ deferred[doc[d].sale] = "none" /\ state = "AUTHORIZED"
         \/ deferred[doc[d].sale] = "pending" /\ state # "AUTHORIZED"
         \/ deferred[doc[d].sale] = "satisfied"
         => deferred'[doc[d].sale] = deferred[doc[d].sale]
  BY <1>1, <1>6 DEF Settle
<1> HIDE DEF after
<1> QED BY <1>1, <1>2, <1>4, <1>5, <1>7

LEMMA SettleKeeps ==
    ASSUME IInv, NEW d \in InState(Unresolved), NEW state \in States, Settle(d, state),
           state # "REQUESTING",
           state = "AUTHORIZED" => Claims(d),
           state = "REJECTED" => req[d].answer = "rejected",
           state = "RELEASED" => req[d].decision = "released",
           state = "CONFLICTING" => req[d].decision = "conflicting",
           reply' = "none" \/ (reply' = reply /\ doc[d].state = "UNKNOWN"),
           faults' \in 0..MaxFaults,
           UNCHANGED <<sold, offline, pulled, calls, cloudVars, lane, arca, inflight, late>>
    PROVE  IInv'
<1> USE DEF cloudVars
<1>1. /\ doc' \in Seq([sale : Sale, number : Nat \ {0}, state : States]) /\ Len(doc') <= MaxDocs
      /\ Docs' = Docs /\ d \in Docs /\ doc[d].state \in Unresolved
      /\ \A e \in Docs : /\ doc'[e].sale = doc[e].sale /\ doc'[e].number = doc[e].number
                         /\ doc'[e].state = IF e = d THEN state ELSE doc[e].state
      /\ deferred' \in [Sale -> {"none", "pending", "satisfied"}]
  BY Settled
<1>2. /\ \A s \in Sale : s # doc[d].sale => deferred'[s] = deferred[s]
      /\ deferred[doc[d].sale] = "none" /\ state # "AUTHORIZED" => deferred'[doc[d].sale] = "pending"
      /\ deferred[doc[d].sale] = "pending" /\ state = "AUTHORIZED" => deferred'[doc[d].sale] = "satisfied"
      /\ \/ deferred[doc[d].sale] = "none" /\ state = "AUTHORIZED"
         \/ deferred[doc[d].sale] = "pending" /\ state # "AUTHORIZED"
         \/ deferred[doc[d].sale] = "satisfied"
         => deferred'[doc[d].sale] = deferred[doc[d].sale]
  BY Settled
<1>3. doc[d].state \notin Consuming
  BY <1>1 DEF Consuming, Unresolved
<1>4. TypeOK'
  <2>1. reply' \in Answers
    BY DEF IInv, TypeOK, Answers
  <2> QED BY <1>1, <2>1 DEF IInv, TypeOK, Recorded
<1>5. Series'
  <2>1. InState(Consuming) \subseteq InState(Consuming)' /\ InState(Consuming) \subseteq Docs
    BY <1>1, <1>3 DEF InState
  <2>2. \A e \in Docs' : \E i \in DOMAIN sold' : sold'[i] = doc'[e].sale
    BY <1>1 DEF IInv, Series
  <2>3. \A e \in Docs' : \/ doc'[e].number <= pulled'.count + 1
                         \/ \E f \in InState(Consuming)' : doc'[e].number <= doc'[f].number + 1
    BY <1>1, <2>1 DEF IInv, Series
  <2>4. \A e, f \in Docs : e < f => e # d
    BY <1>1 DEF IInv, Series
  <2>5. \A e, f \in Docs' : e < f =>
          /\ doc'[e].state \notin Unresolved
          /\ doc'[e].number <= doc'[f].number
          /\ doc'[e].state \in Consuming => doc'[e].number < doc'[f].number
          /\ doc'[e].state = "AUTHORIZED" => doc'[e].sale # doc'[f].sale
    <3>1. \A e, f \in Docs : e < f =>
              /\ doc[e].state \notin Unresolved
              /\ doc[e].number <= doc[f].number
              /\ doc[e].state \in Consuming => doc[e].number < doc[f].number
              /\ doc[e].state = "AUTHORIZED" => doc[e].sale # doc[f].sale
      BY DEF IInv, Series
    <3> QED BY <1>1, <2>4, <3>1
  <2>6. Cardinality({sold[i] : i \in DOMAIN sold})' = Len(sold')
    BY DEF IInv, Series
  <2> QED BY <2>2, <2>3, <2>5, <2>6 DEF Series
<1>6. Counts' /\ Decided'
  BY Untouched
<1>7. Told'
  BY <1>1 DEF IInv, Told, Claims
<1>8. Replied'
  <2>1. CASE reply' = "none"
    BY <2>1 DEF Replied
  <2>2. CASE reply' = reply /\ doc[d].state = "UNKNOWN"
    <3>1. InState({"REQUESTING"})' = InState({"REQUESTING"})
      BY <1>1, <2>2 DEF InState
    <3> QED BY <2>2, <3>1 DEF IInv, Replied
  <2> QED BY <2>1, <2>2
<1>9. Requests'
  <2> SUFFICES ASSUME NEW e \in Docs
               PROVE  /\ Claims(e) \/ req[e].decision = "conflicting" => doc'[e].number <= Len(arca)
                      /\ req[e].decision = "conflicting" =>
                            doc'[e].number \in tasks /\ arca[doc'[e].number].amount # AmountOf[doc'[e].sale]
                      /\ e \in settled => req[e].answer = "unclear"
    BY <1>1 DEF Requests, Claims
  <2>1. doc'[e].number = doc[e].number /\ doc'[e].sale = doc[e].sale
    BY <1>1
  <2> QED BY <2>1 DEF IInv, Requests
<1>10. Works'
  BY <1>1 DEF IInv, Works
<1>11. Solicited'
  <2>1. \A n \in DOMAIN arca : arca[n].doc # 0 => arca[n].doc \in Docs
    BY Typed DEF IInv
  <2>2. \A n \in DOMAIN arca : arca[n].doc # 0 =>
            doc'[arca[n].doc].number = doc[arca[n].doc].number
            /\ doc'[arca[n].doc].sale = doc[arca[n].doc].sale
    BY <1>1, <2>1
  <2> QED BY <2>2 DEF IInv, Solicited
<1>12. Voided'
  BY <1>1 DEF IInv, Voided
<1>13. Accounts'
  <2>1. Recalls
    BY <1>1 DEF Recalls, Recorded, Claims
  <2> QED BY <1>1, <2>1, AccountsKept
<1>14. \A x \in Sale : HoldsAuthorized(x) => HoldsAuthorized(x)'
  BY <1>1 DEF HoldsAuthorized, InState, Unresolved
<1>15. \A s \in Sale : s = doc[d].sale /\ state = "AUTHORIZED" => HoldsAuthorized(s)'
  BY <1>1 DEF HoldsAuthorized, InState
<1>16. doc[d].sale \in Sale
  BY <1>1, Typed DEF IInv
<1>20. /\ deferred[doc[d].sale] \in {"none", "pending", "satisfied"}
       /\ state # "AUTHORIZED" /\ deferred[doc[d].sale] # "satisfied" => deferred'[doc[d].sale] = "pending"
       /\ deferred'[doc[d].sale] = "satisfied" => state = "AUTHORIZED" \/ deferred[doc[d].sale] = "satisfied"
  <2>1. deferred[doc[d].sale] \in {"none", "pending", "satisfied"}
    BY <1>16 DEF IInv, TypeOK
  <2> QED BY <1>2, <2>1
<1>17. Satisfied'
  <2> SUFFICES ASSUME NEW s \in Sale, deferred'[s] = "satisfied" PROVE HoldsAuthorized(s)'
    BY DEF Satisfied
  <2>1. CASE s = doc[d].sale
    BY <1>14, <1>15, <1>20, <2>1 DEF IInv, Satisfied
  <2>2. CASE s # doc[d].sale
    BY <1>2, <1>14, <2>2 DEF IInv, Satisfied
  <2> QED BY <2>1, <2>2
<1>18. ASSUME NEW x \in Sale, NEW i \in DOMAIN sold', sold'[i] = x PROVE Remembered(x)'
  <2>1. CASE x = doc[d].sale
    <3>1. CASE state = "AUTHORIZED" \/ deferred[x] = "satisfied"
      BY <1>14, <1>15, <2>1, <3>1 DEF IInv, Satisfied, Remembered
    <3>2. CASE state # "AUTHORIZED" /\ deferred[x] # "satisfied"
      BY <1>20, <2>1, <3>2 DEF Remembered
    <3> QED BY <3>1, <3>2
  <2>2. CASE x # doc[d].sale
    <3>1. Remembered(x)
      BY <1>18, AllRemembered
    <3>2. \A e \in InState(Unresolved) : doc[e].sale = x => e \in InState(Unresolved)' /\ doc'[e].sale = x
      BY <1>1, <2>2 DEF InState
    <3>3. deferred'[x] = deferred[x]
      BY <1>2, <2>2
    <3>4. CASE \E e \in InState(Unresolved) : doc[e].sale = x
      BY <3>2, <3>4 DEF Remembered
    <3> QED BY <1>14, <3>1, <3>3, <3>4 DEF Remembered
  <2> QED BY <2>1, <2>2
<1>19. NoSaleForgotten'
  <2>1. sold' \in Seq(Sale)
    BY DEF IInv, TypeOK
  <2> QED BY <1>17, <1>18, <2>1, NobodyForgotten
<1> QED BY <1>4, <1>5, <1>6, <1>7, <1>8, <1>9, <1>10, <1>11, <1>12, <1>13, <1>17, <1>19 DEF IInv

LEMMA ResolveCallKeeps ==
    ASSUME IInv, NEW d \in Docs, ResolveCall(d) PROVE IInv'
<1>1. d \in InState(Unresolved) /\ d \in InState({"REQUESTING"})
  BY DEF ResolveCall, InState, Unresolved
<1>2. PICK a \in Answers : Settle(d, StateOfAnswer(a)) /\ (a = reply \/ a = "unclear")
  BY DEF ResolveCall, IInv, TypeOK, Answers
<1>3. StateOfAnswer(a) \in States /\ StateOfAnswer(a) \in {"AUTHORIZED", "REJECTED", "UNKNOWN"}
      /\ (StateOfAnswer(a) = "AUTHORIZED" => a = "authorized")
      /\ (StateOfAnswer(a) = "REJECTED" => a = "rejected")
  BY DEF StateOfAnswer, States, Consuming, Unresolved
<1>4. a \in {"authorized", "rejected"} => req[d].answer = a
  BY <1>1, <1>2 DEF IInv, Replied
<1> DEFINE state == StateOfAnswer(a)
<1>5. Settle(d, state) /\ state \in States /\ state \in {"AUTHORIZED", "REJECTED", "UNKNOWN"}
      /\ (state = "AUTHORIZED" => Claims(d)) /\ (state = "REJECTED" => req[d].answer = "rejected")
  BY <1>2, <1>3, <1>4 DEF Claims
<1>6. /\ reply' = "none" /\ faults' \in 0..MaxFaults
      /\ UNCHANGED <<sold, offline, pulled, calls, cloudVars, lane, arca, inflight, late>>
  BY DEF ResolveCall, IInv, TypeOK
<1> HIDE DEF state
<1> QED BY <1>1, <1>5, <1>6, SettleKeeps

LEMMA RestartRegisterKeeps ==
    ASSUME IInv, RestartRegister PROVE IInv'
<1>1. /\ reply' = "none" /\ faults' \in 0..MaxFaults
      /\ UNCHANGED <<sold, offline, pulled, calls, cloudVars, lane, arca, inflight, late>>
  <2>1. faults \in 0..MaxFaults
    BY DEF IInv, TypeOK
  <2>2. faults < MaxFaults /\ faults' = faults + 1
    BY DEF RestartRegister
  <2>3. faults' \in 0..MaxFaults
    BY <2>1, <2>2
  <2> QED BY <2>3 DEF RestartRegister
<1>2. CASE UNCHANGED <<doc, deferred>>
  <2>1. TypeOK'
    BY <1>1, <1>2 DEF IInv, TypeOK, Answers, Recorded, Docs, cloudVars
  <2>2. Replied'
    BY <1>1 DEF Replied
  <2> QED BY <1>1, <1>2, <2>1, <2>2, Untouched DEF IInv, cloudVars
<1>3. CASE \E d \in InState({"REQUESTING"}) : Settle(d, StateOfAnswer("unclear"))
  <2>1. PICK d \in InState({"REQUESTING"}) : Settle(d, "UNKNOWN")
    BY <1>3 DEF StateOfAnswer
  <2>2. d \in InState(Unresolved) /\ "UNKNOWN" \in States
    BY DEF InState, Unresolved, States
  <2> QED BY <1>1, <2>1, <2>2, SettleKeeps
<1> QED BY <1>2, <1>3 DEF RestartRegister

LEMMA PullKeeps ==
    ASSUME IInv, Pull PROVE IInv'
<1> USE DEF registerVars, cloudVars
<1>1. pulled.count \in Nat /\ count \in Nat /\ pulled.count <= count /\ freeze.on \in BOOLEAN
  BY DEF IInv, TypeOK, Counts
<1>2. Max({pulled.count, count}) = count
  BY <1>1, MaxOfTwo
<1>3. pulled' = [count |-> count, frozen |-> freeze.on]
      /\ UNCHANGED <<sold, offline, deferred, doc, calls, reply, cloudVars, lane, arca, inflight,
                     faults, late>>
  BY <1>2 DEF Pull
<1>4. TypeOK'
  BY <1>1, <1>3 DEF IInv, TypeOK, Recorded, Docs
<1>5. Series'
  <2>1. \A d \in Docs : doc[d].number \in Nat
    BY Typed DEF IInv
  <2>2. \A d \in Docs : \/ doc[d].number <= pulled'.count + 1
                        \/ \E e \in InState(Consuming) : doc[d].number <= doc[e].number + 1
    BY <1>1, <1>3, <2>1 DEF IInv, Series
  <2>3. InState(Consuming)' = InState(Consuming) /\ UNCHANGED <<sold, doc>>
    BY <1>3 DEF InState, Docs
  <2> QED BY <2>2, <2>3 DEF IInv, Series, Docs
<1>6. Counts'
  BY <1>1, <1>3 DEF IInv, Counts
<1> QED BY <1>3, <1>4, <1>5, <1>6, Untouched DEF IInv

-----------------------------------------------------------------------------
(* The network, the lane and what passes with time *)

LEMMA CallIsLostKeeps ==
    ASSUME IInv, NEW d \in Docs, CallIsLost(d) PROVE IInv'
<1>1. /\ calls' \subseteq calls
      /\ UNCHANGED <<registerVars, reply, cloudVars, lane, arca, inflight, faults, late>>
  BY DEF CallIsLost
<1>2. TypeOK'
  BY <1>1 DEF IInv, TypeOK, Recorded, Docs, registerVars, cloudVars
<1> QED BY <1>1, <1>2, Untouched DEF IInv, registerVars, cloudVars

LEMMA SolicitationIsLostKeeps ==
    ASSUME IInv, NEW d \in Docs, SolicitationIsLost(d) PROVE IInv'
<1>1. /\ inflight' \subseteq inflight
      /\ UNCHANGED <<registerVars, calls, reply, cloudVars, lane, arca, faults, late>>
  BY DEF SolicitationIsLost
<1>2. TypeOK'
  BY <1>1 DEF IInv, TypeOK, Recorded, Docs, registerVars, cloudVars
<1> QED BY <1>1, <1>2, Untouched DEF IInv, registerVars, cloudVars

\* The work in the lane ends, and with it what it knew.
LEMMA LaneFreed ==
    ASSUME IInv, lane' = FreeLane
    PROVE  /\ lane' \in [work : {"free", "recorded", "soliciting", "deciding"}, doc : {0} \union Docs,
                         seen : {"none", "authorized", "rejected", "conflict", "no voucher"}]
           /\ Works'
BY DEF FreeLane, Works

LEMMA DecideNoAnswerKeeps ==
    ASSUME IInv, DecideNoAnswer PROVE IInv'
<1>1. /\ lane' = FreeLane
      /\ UNCHANGED <<registerVars, calls, reply, cloudVars, arca, inflight, faults, late>>
  BY DEF DecideNoAnswer
<1>2. TypeOK'
  BY <1>1, LaneFreed DEF IInv, TypeOK, Recorded, Docs, registerVars, cloudVars
<1>3. lane'.work # "recorded"
  BY <1>1 DEF FreeLane
<1> QED BY <1>1, <1>2, <1>3, LaneFreed, Untouched DEF IInv, registerVars, cloudVars

\* A request that was only recorded has never been solicited.
LEMMA RecordedIsNew ==
    ASSUME IInv, lane.work = "recorded"
    PROVE  /\ lane.doc \in Docs /\ lane.doc # 0 /\ lane.doc \notin inflight /\ lane.seen = "none"
           /\ req[lane.doc].answer = "none" /\ req[lane.doc].decision = "none"
           /\ lane.doc \notin settled /\ \A n \in DOMAIN arca : arca[n].doc # lane.doc
<1>1. lane.doc \in Docs /\ lane.seen = "none"
      /\ req[lane.doc].answer = "none" /\ req[lane.doc].decision = "none"
  BY DEF IInv, Works
<1>2. lane.doc # 0
  BY <1>1, Typed DEF IInv
<1>3. lane.doc \notin settled
  BY <1>1 DEF IInv, Requests
<1>4. lane.doc \notin inflight /\ \A n \in DOMAIN arca : arca[n].doc # lane.doc
  BY <1>2 DEF IInv, Solicited
<1> QED BY <1>1, <1>2, <1>3, <1>4

LEMMA SentKeeps ==
    ASSUME IInv, lane.work = "recorded", lane'.work # "recorded", inflight' = inflight \union {lane.doc},
           UNCHANGED <<doc, req, arca, settled, late>>
    PROVE  Solicited' /\ Voided' /\ inflight' \subseteq Docs
<1>1. /\ lane.doc \in Docs /\ lane.doc # 0 /\ lane.doc \notin settled
      /\ req[lane.doc].answer = "none" /\ req[lane.doc].decision = "none"
      /\ \A n \in DOMAIN arca : arca[n].doc # lane.doc
  BY RecordedIsNew
<1>2. Solicited'
  BY <1>1 DEF IInv, Solicited
<1>3. Voided'
  BY <1>1 DEF IInv, Voided, Docs
<1> QED BY <1>1, <1>2, <1>3 DEF IInv, TypeOK

LEMMA SolicitKeeps ==
    ASSUME IInv, Solicit PROVE IInv'
<1>1. /\ lane.work = "recorded" /\ lane' = [lane EXCEPT !.work = "soliciting"]
      /\ inflight' = inflight \union {lane.doc}
      /\ UNCHANGED <<registerVars, calls, reply, cloudVars, arca, faults, late>>
  BY DEF Solicit
<1>2. lane \in [work : {"free", "recorded", "soliciting", "deciding"}, doc : {0} \union Docs,
                seen : {"none", "authorized", "rejected", "conflict", "no voucher"}]
  BY DEF IInv, TypeOK
<1>3. /\ lane' \in [work : {"free", "recorded", "soliciting", "deciding"}, doc : {0} \union Docs,
                    seen : {"none", "authorized", "rejected", "conflict", "no voucher"}]
      /\ lane'.work = "soliciting" /\ lane'.doc = lane.doc /\ lane'.seen = lane.seen
  BY <1>1, <1>2
<1>4. Solicited' /\ Voided' /\ inflight' \subseteq Docs
  BY <1>1, <1>3, SentKeeps DEF registerVars, cloudVars
<1>5. TypeOK'
  BY <1>1, <1>3, <1>4 DEF IInv, TypeOK, Recorded, Docs, registerVars, cloudVars
<1>6. Works'
  BY <1>1, <1>3, RecordedIsNew DEF Works, Docs, registerVars, cloudVars
<1> QED BY <1>1, <1>4, <1>5, <1>6, Untouched DEF IInv, registerVars, cloudVars

LEMMA LaneIsLostKeeps ==
    ASSUME IInv, LaneIsLost PROVE IInv'
<1>1. /\ lane' = FreeLane /\ UNCHANGED <<registerVars, calls, reply, cloudVars, arca, late>>
      /\ \/ UNCHANGED inflight
         \/ lane.work = "recorded" /\ inflight' = inflight \union {lane.doc}
      /\ faults' \in 0..MaxFaults
  <2>1. faults \in 0..MaxFaults
    BY DEF IInv, TypeOK
  <2>2. faults < MaxFaults /\ faults' = faults + 1
    BY DEF LaneIsLost
  <2>3. faults' \in 0..MaxFaults
    BY <2>1, <2>2
  <2> QED BY <2>3 DEF LaneIsLost
<1>2. lane'.work # "recorded"
  BY <1>1 DEF FreeLane
<1>3. Solicited' /\ Voided' /\ inflight' \subseteq Docs
  <2>1. CASE UNCHANGED inflight
    BY <1>1, <1>2, <2>1, Untouched DEF IInv, TypeOK, registerVars, cloudVars
  <2>2. CASE lane.work = "recorded" /\ inflight' = inflight \union {lane.doc}
    BY <1>1, <1>2, <2>2, SentKeeps DEF registerVars, cloudVars
  <2> QED BY <1>1, <2>1, <2>2
<1>4. TypeOK'
  BY <1>1, <1>3, LaneFreed DEF IInv, TypeOK, Recorded, Docs, registerVars, cloudVars
<1> QED BY <1>1, <1>3, <1>4, LaneFreed, Untouched DEF IInv, registerVars, cloudVars

LEMMA SettlingDelayPassesKeeps ==
    ASSUME IInv, NEW d \in Docs, SettlingDelayPasses(d) PROVE IInv'
<1>1. /\ req[d].answer = "unclear" /\ settled' = settled \union {d}
      /\ late' = IF d \in inflight THEN late + 1 ELSE late
      /\ late' \in 0..MaxLate /\ (d \in inflight => late' # 0)
      /\ UNCHANGED <<registerVars, calls, reply, req, lane, jobs, count, freeze, tasks,
                     arca, inflight, faults>>
  <2>1. late \in 0..MaxLate
    BY DEF IInv, TypeOK
  <2>2. late' = (IF d \in inflight THEN late + 1 ELSE late) /\ late' <= MaxLate
    BY DEF SettlingDelayPasses
  <2>3. late' \in 0..MaxLate /\ (d \in inflight => late' # 0)
    BY <2>1, <2>2
  <2> QED BY <2>3 DEF SettlingDelayPasses
<1> USE DEF registerVars
<1>2. TypeOK'
  BY <1>1 DEF IInv, TypeOK, Recorded, Docs
<1>3. Requests'
  BY <1>1 DEF IInv, Requests, Claims, Docs
<1>4. Works'
  BY <1>1 DEF IInv, Works, Docs
<1>5. Voided'
  <2>1. CASE d \in inflight
    BY <1>1, <2>1 DEF Voided
  <2>2. CASE d \notin inflight
    BY <1>1, <2>2 DEF IInv, Voided, Docs
  <2> QED BY <2>1, <2>2
<1> QED BY <1>1, <1>2, <1>3, <1>4, <1>5, Untouched DEF IInv

-----------------------------------------------------------------------------
(* The cloud's requests *)

\* One document at most waits for its outcome, and it is the last one reserved.
LEMMA UnresolvedIsLast ==
    ASSUME IInv, NEW d \in InState(Unresolved)
    PROVE  /\ d \in Docs /\ \A e \in Docs : e <= d /\ doc[e].number <= doc[d].number
           /\ \A e \in InState(Unresolved) : e = d
<1>1. d \in Docs /\ doc[d].state \in Unresolved /\ d \in Nat /\ doc[d].number \in Nat
  BY Typed DEF IInv, InState
<1>2. ASSUME NEW e \in Docs PROVE e <= d /\ doc[e].number <= doc[d].number
  <2>1. e \in Nat /\ ~(d < e)
    <3>1. e \in Nat
      BY Typed DEF IInv
    <3> QED BY <1>1, <3>1 DEF IInv, Series
  <2>2. e < d => doc[e].number <= doc[d].number
    BY <1>1 DEF IInv, Series
  <2> QED BY <1>1, <2>1, <2>2
<1>3. ASSUME NEW e \in InState(Unresolved) PROVE e = d
  <2>1. e \in Docs /\ doc[e].state \in Unresolved /\ e \in Nat
    BY Typed DEF IInv, InState
  <2>2. ~(d < e) /\ ~(e < d)
    BY <1>1, <2>1 DEF IInv, Series
  <2> QED BY <1>1, <2>1, <2>2
<1> QED BY <1>1, <1>2, <1>3

\* The register has no outcome of a request that the cloud neither answered nor decided.
LEMMA OpenIsUnresolved ==
    ASSUME IInv, NEW d \in Docs, req[d].decision = "none", req[d].answer \notin {"authorized", "rejected"}
    PROVE  d \in InState(Unresolved)
<1>1. doc[d].state \in States
  BY Typed DEF IInv
<1>2. doc[d].state \notin {"AUTHORIZED", "REJECTED", "RELEASED", "CONFLICTING"}
  BY DEF IInv, Told, Claims
<1> QED BY <1>1, <1>2 DEF InState, States, Consuming, Unresolved

LEMMA RequestKeeps ==
    ASSUME IInv, NEW d \in Docs, req[d].decision = "none", req[d].answer \notin {"authorized", "rejected"},
           \A e \in DocId \ {d} : req'[e] = req[e], req'[d].answer # "unrecorded",
           req'[d].decision # "none" => req'[d].answer \in {"not_attempted", "unclear"},
           UNCHANGED <<registerVars, arca>>, tasks \subseteq tasks'
    PROVE  /\ Series' /\ Told' /\ Decided' /\ Satisfied' /\ NoSaleForgotten' /\ Recalls
           /\ \A e \in Docs \ {d} : Claims(e)' = Claims(e)
           /\ UNCHANGED count /\ req'[d].answer # "rejected" => Accounts'
           /\ UNCHANGED reply => Replied'
<1> USE DEF registerVars
<1>1. Docs \subseteq DocId /\ Recorded \subseteq Docs /\ Docs' = Docs
  BY Typed DEF IInv, TypeOK, Docs
<1>2. doc[d].state \in Unresolved
  BY OpenIsUnresolved DEF InState
<1>3. \A e \in Docs \ {d} : Claims(e)' = Claims(e)
  BY <1>1 DEF Claims
<1>4. Told'
  <2> SUFFICES ASSUME NEW e \in Docs, e # d
               PROVE  /\ doc[e].state = "AUTHORIZED" => Claims(e)'
                      /\ doc[e].state = "REJECTED" => req'[e].answer = "rejected"
                      /\ doc[e].state = "RELEASED" => req'[e].decision = "released"
                      /\ doc[e].state = "CONFLICTING" => req'[e].decision = "conflicting"
    BY <1>1, <1>2 DEF Told, Unresolved
  <2> QED BY <1>1 DEF IInv, Told, Claims
<1>5. Decided'
  BY DEF IInv, Decided
<1>6. Recalls
  <2>1. ~Claims(d)
    BY DEF Claims
  <2>2. ASSUME NEW e \in Recorded PROVE e \in Recorded' /\ (Claims(e) => Claims(e)')
    <3>1. e \in DocId /\ req[e].answer # "unrecorded"
      BY DEF Recorded
    <3>2. e \in Recorded'
      BY <3>1 DEF Recorded
    <3> QED BY <1>1, <1>3, <2>1, <3>2
  <2> QED BY <1>1, <2>2 DEF Recalls
<1>7. ASSUME UNCHANGED count, req'[d].answer # "rejected" PROVE Accounts'
  <2>1. \A e \in Recorded : req[e].answer # "rejected" => req'[e].answer # "rejected"
    BY <1>1, <1>7
  <2> QED BY <1>1, <1>6, <1>7, <2>1, AccountsKept
<1>8. ASSUME UNCHANGED reply PROVE Replied'
  <2>1. InState({"REQUESTING"})' = InState({"REQUESTING"}) /\ InState({"REQUESTING"}) \subseteq DocId
    BY <1>1 DEF InState
  <2>2. reply \in {"authorized", "rejected"} => d \notin InState({"REQUESTING"})
    BY DEF IInv, Replied
  <2>3. reply \in {"authorized", "rejected"} => \A e \in InState({"REQUESTING"}) : req'[e].answer = reply
    BY <2>1, <2>2 DEF IInv, Replied
  <2> QED BY <1>8, <2>1, <2>3 DEF IInv, Replied
<1> QED BY <1>3, <1>4, <1>5, <1>6, <1>7, <1>8, Untouched

\* What a step that only touches the request of one document keeps of the others.
LEMMA RequestsKept ==
    ASSUME IInv, NEW d \in Docs, \A e \in DocId \ {d} : req'[e] = req[e],
           UNCHANGED <<doc, arca, settled>>, tasks \subseteq tasks',
           Claims(d)' \/ req'[d].decision = "conflicting" => doc[d].number <= Len(arca),
           req'[d].decision = "conflicting" =>
              doc[d].number \in tasks' /\ arca[doc[d].number].amount # AmountOf[doc[d].sale],
           d \in settled => req'[d].answer = "unclear"
    PROVE  Requests'
<1>1. Docs \subseteq DocId /\ Docs' = Docs
  BY Typed DEF IInv, Docs
<1>2. ASSUME NEW e \in Docs
      PROVE  /\ Claims(e)' \/ req'[e].decision = "conflicting" => doc[e].number <= Len(arca)
             /\ req'[e].decision = "conflicting" =>
                   doc[e].number \in tasks' /\ arca[doc[e].number].amount # AmountOf[doc[e].sale]
             /\ e \in settled => req'[e].answer = "unclear"
  <2>1. CASE e = d
    BY <2>1
  <2>2. CASE e # d
    BY <1>1, <2>2 DEF IInv, Requests, Claims
  <2> QED BY <2>1, <2>2
<1> QED BY <1>1, <1>2 DEF Requests

LEMMA SolicitedKept ==
    ASSUME IInv, NEW d \in Docs, \A e \in DocId \ {d} : req'[e] = req[e],
           UNCHANGED <<doc, arca, inflight>>, lane'.work = "recorded" => lane'.doc = d,
           d \in inflight => req'[d].answer \in {"none", "unclear"} /\ lane'.work # "recorded",
           \A n \in DOMAIN arca : arca[n].doc = d =>
              req'[d].answer \in {"none", "unclear", "authorized"} /\ lane'.work # "recorded"
    PROVE  Solicited'
<1>1. Docs \subseteq DocId /\ inflight \subseteq Docs /\ \A n \in DOMAIN arca : arca[n].doc \in {0} \union Docs
  BY Typed DEF IInv, TypeOK
<1>2. ASSUME NEW e \in inflight
      PROVE  req'[e].answer \in {"none", "unclear"} /\ ~(lane'.work = "recorded" /\ lane'.doc = e)
  <2>1. CASE e = d
    BY <1>2, <2>1
  <2>2. CASE e # d
    BY <1>1, <2>2 DEF IInv, Solicited
  <2> QED BY <2>1, <2>2
<1>3. ASSUME NEW n \in DOMAIN arca, arca[n].doc # 0
      PROVE  /\ req'[arca[n].doc].answer \in {"none", "unclear", "authorized"}
             /\ ~(lane'.work = "recorded" /\ lane'.doc = arca[n].doc)
  <2>1. CASE arca[n].doc = d
    BY <2>1
  <2>2. CASE arca[n].doc # d
    BY <1>1, <1>3, <2>2 DEF IInv, Solicited
  <2> QED BY <2>1, <2>2
<1> QED BY <1>2, <1>3 DEF IInv, Solicited

LEMMA VoidedKept ==
    ASSUME IInv, NEW d \in Docs, \A e \in DocId \ {d} : req'[e] = req[e],
           UNCHANGED <<doc, arca, inflight, settled, late>>,
           late = 0 /\ (req'[d].decision \in {"released", "conflicting"} \/ req'[d].answer = "rejected") =>
              d \notin inflight /\ \A n \in DOMAIN arca : arca[n].doc # d
    PROVE  Voided'
<1>1. Docs \subseteq DocId /\ Docs' = Docs
  BY Typed DEF IInv, Docs
<1> QED BY <1>1 DEF IInv, Voided

\* A request that nobody recorded, or that was not attempted, is not with the tax authority.
LEMMA NotSolicited ==
    ASSUME IInv, NEW d \in Docs, req[d].answer \in {"unrecorded", "not_attempted", "rejected"}
    PROVE  d \notin inflight /\ \A n \in DOMAIN arca : arca[n].doc # d
<1>1. d # 0
  BY Typed DEF IInv
<1> QED BY <1>1 DEF IInv, Solicited

-----------------------------------------------------------------------------
(* The authorize request and the question about its outcome *)

RequestsTyped ==
    /\ req \in [DocId -> [answer : Answers \union {"unrecorded"}, conflict : BOOLEAN,
                          decision : Decisions, diagnosed : BOOLEAN]]
    /\ Recorded \subseteq Docs

LEMMA RequestTyped ==
    ASSUME IInv, NEW d \in Docs
    PROVE  /\ d \in DocId /\ req \in [DocId -> [answer : Answers \union {"unrecorded"}, conflict : BOOLEAN,
                                                decision : Decisions, diagnosed : BOOLEAN]]
           /\ req[d] \in [answer : Answers \union {"unrecorded"}, conflict : BOOLEAN,
                          decision : Decisions, diagnosed : BOOLEAN]
BY Typed DEF IInv, TypeOK

LEMMA RequestSet ==
    ASSUME IInv, NEW d \in Docs,
           NEW r \in [answer : Answers \union {"unrecorded"}, conflict : BOOLEAN,
                      decision : Decisions, diagnosed : BOOLEAN],
           req' = [req EXCEPT ![d] = r], UNCHANGED doc
    PROVE  /\ RequestsTyped' /\ req'[d] = r /\ \A e \in DocId \ {d} : req'[e] = req[e]
<1>1. d \in DocId /\ req \in [DocId -> [answer : Answers \union {"unrecorded"}, conflict : BOOLEAN,
                                        decision : Decisions, diagnosed : BOOLEAN]]
  BY RequestTyped
<1>2. req'[d] = r /\ \A e \in DocId \ {d} : req'[e] = req[e]
  BY <1>1
<1>3. req' \in [DocId -> [answer : Answers \union {"unrecorded"}, conflict : BOOLEAN,
                          decision : Decisions, diagnosed : BOOLEAN]]
  BY <1>1
<1>4. Recorded' \subseteq Docs'
  BY <1>2 DEF Recorded, IInv, TypeOK, Docs
<1> QED BY <1>2, <1>3, <1>4 DEF RequestsTyped

\* An answer is recorded.
LEMMA AnswerSet ==
    ASSUME IInv, NEW d \in Docs, NEW a \in Answers, req' = [req EXCEPT ![d].answer = a], UNCHANGED doc
    PROVE  /\ RequestsTyped' /\ \A e \in DocId \ {d} : req'[e] = req[e]
           /\ req'[d].answer = a /\ req'[d].decision = req[d].decision
<1> DEFINE r == [req[d] EXCEPT !.answer = a]
<1>1. req[d] \in [answer : Answers \union {"unrecorded"}, conflict : BOOLEAN,
                  decision : Decisions, diagnosed : BOOLEAN]
  BY RequestTyped
<1>2. r \in [answer : Answers \union {"unrecorded"}, conflict : BOOLEAN,
             decision : Decisions, diagnosed : BOOLEAN]
      /\ r.answer = a /\ r.decision = req[d].decision
  BY <1>1
<1>3. req' = [req EXCEPT ![d] = r]
  OBVIOUS
<1>4. PICK q \in [answer : Answers \union {"unrecorded"}, conflict : BOOLEAN,
                 decision : Decisions, diagnosed : BOOLEAN] :
          req' = [req EXCEPT ![d] = q] /\ q.answer = a /\ q.decision = req[d].decision
  <2> HIDE DEF r
  <2> QED BY <1>2, <1>3
<1>5. RequestsTyped' /\ req'[d] = q /\ \A e \in DocId \ {d} : req'[e] = req[e]
  BY ONLY IInv, d \in Docs, UNCHANGED doc, <1>4, RequestSet
<1> QED BY <1>4, <1>5

LEMMA DecisionSet ==
    ASSUME IInv, NEW d \in Docs, NEW k \in Decisions, req' = [req EXCEPT ![d].decision = k], UNCHANGED doc
    PROVE  /\ RequestsTyped' /\ \A e \in DocId \ {d} : req'[e] = req[e]
           /\ req'[d].answer = req[d].answer /\ req'[d].decision = k
<1> DEFINE r == [req[d] EXCEPT !.decision = k]
<1>1. req[d] \in [answer : Answers \union {"unrecorded"}, conflict : BOOLEAN,
                  decision : Decisions, diagnosed : BOOLEAN]
  BY RequestTyped
<1>2. r \in [answer : Answers \union {"unrecorded"}, conflict : BOOLEAN,
             decision : Decisions, diagnosed : BOOLEAN]
      /\ r.answer = req[d].answer /\ r.decision = k
  BY <1>1
<1>3. req' = [req EXCEPT ![d] = r]
  OBVIOUS
<1>4. PICK q \in [answer : Answers \union {"unrecorded"}, conflict : BOOLEAN,
                 decision : Decisions, diagnosed : BOOLEAN] :
          req' = [req EXCEPT ![d] = q] /\ q.answer = req[d].answer /\ q.decision = k
  <2> HIDE DEF r
  <2> QED BY <1>2, <1>3
<1>5. RequestsTyped' /\ req'[d] = q /\ \A e \in DocId \ {d} : req'[e] = req[e]
  BY ONLY IInv, d \in Docs, UNCHANGED doc, <1>4, RequestSet
<1> QED BY <1>4, <1>5

LEMMA StartAuthorizeKeeps ==
    ASSUME IInv, NEW d \in Docs, StartAuthorize(d) PROVE IInv'
<1> USE DEF registerVars
<1>1. /\ lane = FreeLane /\ calls' = calls \ {d}
      /\ UNCHANGED <<registerVars, settled, count, freeze, tasks, arca, inflight, faults, late>>
  BY DEF StartAuthorize, LaneIsFree
<1>2. CASE req[d].answer # "unrecorded"
  <2>1. /\ reply' = IF doc[d].state # "REQUESTING" THEN reply
                    ELSE IF Answered(d) THEN req[d].answer ELSE "unclear"
        /\ UNCHANGED <<req, lane, jobs>>
    BY <1>2 DEF StartAuthorize
  <2>2. reply' \in Answers
    BY <1>2, <2>1, RequestTyped DEF IInv, TypeOK, Answers
  <2>3. TypeOK'
    BY <1>1, <2>1, <2>2 DEF IInv, TypeOK, Recorded, Docs
  <2>4. Replied'
    <3>1. CASE doc[d].state # "REQUESTING"
      BY <1>1, <2>1, <3>1, Untouched
    <3>2. CASE doc[d].state = "REQUESTING"
      <4>1. d \in InState({"REQUESTING"}) /\ d \in InState(Unresolved)
        BY <3>2 DEF InState, Unresolved
      <4>2. \A e \in InState({"REQUESTING"}) : e = d
        BY <4>1, UnresolvedIsLast DEF InState, Unresolved
      <4>3. reply' \in {"authorized", "rejected"} => req[d].answer = reply'
        BY <2>1, <3>2 DEF Answered
      <4>4. InState({"REQUESTING"})' = InState({"REQUESTING"})
        BY <1>1 DEF InState, Docs
      <4> QED BY <2>1, <4>1, <4>2, <4>3, <4>4 DEF Replied
    <3> QED BY <3>1, <3>2
  <2> QED BY <1>1, <2>1, <2>3, <2>4, Untouched DEF IInv
<1>3. CASE req[d].answer = "unrecorded"
  <2>1. /\ req' = [req EXCEPT ![d].answer = "none"]
        /\ lane' = [work |-> "recorded", doc |-> d, seen |-> "none"]
        /\ jobs' = [jobs EXCEPT !.decide = @ \union {d}]
        /\ UNCHANGED reply
    BY <1>3 DEF StartAuthorize
  <2>2. d \in DocId /\ req[d].decision = "none"
    BY <1>3, RequestTyped DEF IInv, Decided
  <2>3. /\ RequestsTyped' /\ \A e \in DocId \ {d} : req'[e] = req[e]
        /\ req'[d].answer = "none" /\ req'[d].decision = "none"
    BY <1>1, <2>1, <2>2, AnswerSet DEF Answers
  <2>4. jobs' \in [decide : SUBSET Docs, diagnose : SUBSET Docs, reconcile : BOOLEAN]
    BY <2>1 DEF IInv, TypeOK
  <2>5. TypeOK'
    BY <1>1, <2>1, <2>3, <2>4 DEF IInv, TypeOK, RequestsTyped, Docs
  <2>6. /\ Series' /\ Told' /\ Decided' /\ Satisfied' /\ NoSaleForgotten' /\ Accounts' /\ Replied'
    BY <1>1, <1>3, <2>1, <2>2, <2>3, RequestKeeps
  <2>7. d \notin inflight /\ \A n \in DOMAIN arca : arca[n].doc # d
    BY <1>3, NotSolicited
  <2>8. d \notin settled /\ ~Claims(d)'
    BY <1>3, <2>3 DEF IInv, Requests, Claims
  <2>9. Requests'
    BY <1>1, <2>3, <2>8, RequestsKept
  <2>10. Solicited' /\ Voided'
    BY <1>1, <2>1, <2>3, <2>7, SolicitedKept, VoidedKept
  <2>11. Works'
    BY <1>1, <2>1, <2>3 DEF Works, Docs
  <2> QED BY <1>1, <2>5, <2>6, <2>9, <2>10, <2>11, Untouched DEF IInv
<1> QED BY <1>2, <1>3

LEMMA RecordAnswerKeeps ==
    ASSUME IInv, NEW d \in Docs, NEW a \in Answers \ {"none"}, NEW conflict \in BOOLEAN,
           d = lane.doc, lane.work \in {"recorded", "soliciting"}, RecordAnswer(d, a, conflict),
           UNCHANGED inflight,
           a = "authorized" => doc[d].number <= Len(arca),
           a = "rejected" => doc[d].number > count,
           a # "unclear" => d \notin inflight,
           a \in {"rejected", "not_attempted"} => \A n \in DOMAIN arca : arca[n].doc # d
    PROVE  IInv'
<1> USE DEF registerVars
<1>1. /\ req' = [req EXCEPT ![d].answer = a, ![d].conflict = conflict]
      /\ count' = IF a = "authorized" THEN Max({count, doc[d].number}) ELSE count
      /\ reply' = IF doc[d].state = "REQUESTING" THEN a ELSE reply
      /\ lane' = FreeLane
      /\ UNCHANGED <<registerVars, calls, settled, freeze, tasks, arca, faults, late>>
  BY DEF RecordAnswer
<1>2. req[d].answer = "none" /\ req[d].decision = "none"
  BY DEF IInv, Works
<1>3. /\ RequestsTyped' /\ \A e \in DocId \ {d} : req'[e] = req[e]
      /\ req'[d].answer = a /\ req'[d].decision = "none"
  <2> DEFINE r == [req[d] EXCEPT !.answer = a, !.conflict = conflict]
  <2>1. req[d] \in [answer : Answers \union {"unrecorded"}, conflict : BOOLEAN,
                    decision : Decisions, diagnosed : BOOLEAN]
        /\ d \in DocId /\ req \in [DocId -> [answer : Answers \union {"unrecorded"}, conflict : BOOLEAN,
                                             decision : Decisions, diagnosed : BOOLEAN]]
    BY RequestTyped
  <2>2. r \in [answer : Answers \union {"unrecorded"}, conflict : BOOLEAN,
               decision : Decisions, diagnosed : BOOLEAN]
        /\ r.answer = a /\ r.decision = "none"
    BY <1>2, <2>1
  <2>3. req' = [req EXCEPT ![d] = r]
    BY <1>1, <2>1
  <2>4. UNCHANGED doc
    BY <1>1
  <2>5. PICK q \in [answer : Answers \union {"unrecorded"}, conflict : BOOLEAN,
                     decision : Decisions, diagnosed : BOOLEAN] :
            req' = [req EXCEPT ![d] = q] /\ q.answer = a /\ q.decision = "none"
    <3> HIDE DEF r
    <3> QED BY <2>2, <2>3
  <2> QED BY ONLY IInv, d \in Docs, <2>4, <2>5, RequestSet
<1>4. /\ count \in Nat /\ doc[d].number \in Nat \ {0} /\ Len(arca) \in Nat /\ count <= Len(arca)
      /\ pulled.count <= count /\ freeze.before <= count /\ pulled.count \in Nat /\ freeze.before \in Nat
  BY Typed DEF IInv, TypeOK, Counts
<1>5. count' = IF a = "authorized" /\ doc[d].number > count THEN doc[d].number ELSE count
  <2>1. doc[d].number \in Nat
    BY <1>4
  <2>2. Max({count, doc[d].number}) = IF count >= doc[d].number THEN count ELSE doc[d].number
    BY <1>4, <2>1, MaxOfTwo
  <2> QED BY <1>1, <1>4, <2>1, <2>2
<1>6. jobs' \in [decide : SUBSET Docs, diagnose : SUBSET Docs, reconcile : BOOLEAN]
  <2>1. jobs \in [decide : SUBSET Docs, diagnose : SUBSET Docs, reconcile : BOOLEAN]
    BY DEF IInv, TypeOK
  <2>2. \E S \in SUBSET Docs, T \in SUBSET Docs : jobs' = [jobs EXCEPT !.decide = S, !.diagnose = T]
    <3> DEFINE S == IF a \in {"not_attempted", "unclear"} THEN jobs.decide \union {d} ELSE jobs.decide \ {d}
               T == IF conflict THEN jobs.diagnose \union {d} ELSE jobs.diagnose
    <3>1. S \in SUBSET Docs /\ T \in SUBSET Docs
      BY <2>1
    <3>2. jobs' = [jobs EXCEPT !.decide = S, !.diagnose = T]
      BY DEF RecordAnswer
    <3> QED BY <3>1, <3>2
  <2> QED BY <2>1, <2>2
<1>7. TypeOK'
  <2>1. count' \in Nat /\ reply' \in Answers
    BY <1>1, <1>4, <1>5 DEF IInv, TypeOK
  <2>2. Docs' = Docs
    BY <1>1 DEF Docs
  <2> QED BY <1>1, <1>3, <1>6, <2>1, <2>2, LaneFreed DEF IInv, TypeOK, RequestsTyped
<1>8. /\ Series' /\ Told' /\ Decided' /\ Satisfied' /\ NoSaleForgotten' /\ Recalls
  <2>1. req'[d].answer # "unrecorded"
    BY <1>3 DEF Answers
  <2> QED BY <1>1, <1>2, <1>3, <2>1, RequestKeeps
<1>9. Counts'
  BY <1>1, <1>4, <1>5 DEF Counts
<1>10. Replied'
  <2>1. InState({"REQUESTING"})' = InState({"REQUESTING"}) /\ InState({"REQUESTING"}) \subseteq Docs
    BY <1>1 DEF InState, Docs
  <2>2. CASE doc[d].state = "REQUESTING"
    <3>1. d \in InState({"REQUESTING"}) /\ d \in InState(Unresolved)
      BY <2>2 DEF InState, Unresolved
    <3>2. \A e \in InState({"REQUESTING"}) : e = d
      BY <3>1, UnresolvedIsLast DEF InState, Unresolved
    <3> QED BY <1>1, <1>3, <2>1, <2>2, <3>1, <3>2 DEF Replied
  <2>3. CASE doc[d].state # "REQUESTING"
    <3>1. \A e \in InState({"REQUESTING"}) : e \in DocId \ {d}
      BY <2>3, Typed DEF IInv, InState
    <3>2. /\ reply # "none" => InState({"REQUESTING"}) # {}
          /\ reply \in {"authorized", "rejected"} =>
                \A e \in InState({"REQUESTING"}) : req[e].answer = reply
      BY DEF IInv, Replied
    <3>3. reply' = reply /\ \A e \in InState({"REQUESTING"}) : req'[e] = req[e]
      BY <1>1, <1>3, <2>3, <3>1
    <3> QED BY <2>1, <3>2, <3>3 DEF Replied
  <2> QED BY <2>2, <2>3
<1>11. Requests'
  <2>1. d \notin settled /\ (Claims(d)' => a = "authorized")
    BY <1>2, <1>3 DEF IInv, Requests, Claims
  <2> QED BY <1>1, <1>3, <2>1, RequestsKept
<1>12. lane'.work # "recorded" /\ Works'
  BY <1>1, LaneFreed DEF FreeLane
<1>13. Solicited' /\ Voided'
  <2>1. a \in {"authorized", "rejected", "not_attempted", "unclear"}
    BY DEF Answers
  <2>2. Solicited'
    <3>1. d \in inflight => req'[d].answer \in {"none", "unclear"} /\ lane'.work # "recorded"
      BY <1>3, <1>12
    <3>2. \A n \in DOMAIN arca : arca[n].doc = d =>
              req'[d].answer \in {"none", "unclear", "authorized"} /\ lane'.work # "recorded"
      BY <1>3, <1>12, <2>1
    <3>3. UNCHANGED <<doc, arca, inflight>>
      BY <1>1
    <3> QED BY <1>3, <1>12, <3>1, <3>2, <3>3, SolicitedKept
  <2>3. Voided'
    BY <1>1, <1>3, <2>1, VoidedKept
  <2> QED BY <2>2, <2>3
<1>14. Accounts'
  <2>1. \A e \in Recorded : req[e].answer # "rejected" /\ req'[e].answer = "rejected" =>
            e = d /\ a = "rejected"
    BY <1>3 DEF Recorded
  <2>2. ASSUME NEW n \in 1..Len(arca), Accounted(n), a = "rejected" => n # doc[d].number
        PROVE  Accounted(n)'
    BY <1>8, <2>1, <2>2, StillAccounted
  <2>3. ASSUME NEW e \in Docs, NEW n \in 1..(doc[e].number - 1) PROVE Accounted(n)'
    <3>1. d \in InState(Unresolved)
      BY <1>2, OpenIsUnresolved
    <3>2. doc[e].number <= doc[d].number /\ doc[e].number \in Nat /\ doc[e].number <= Len(arca) + 1
      BY <3>1, UnresolvedIsLast, NumbersAreReached, Typed DEF IInv
    <3>3. Accounted(n)
      BY DEF IInv, Accounts
    <3>4. n \in 1..Len(arca) /\ n # doc[d].number
      BY <1>4, <3>2
    <3> QED BY <2>2, <3>3, <3>4
  <2>4. ASSUME NEW n \in 1..count' PROVE Accounted(n)'
    <3>1. CASE n <= count
      <4>1. Accounted(n)
        BY <1>4, <3>1 DEF IInv, Accounts
      <4>2. n \in 1..Len(arca) /\ (a = "rejected" => n # doc[d].number)
        BY <1>4, <3>1
      <4> QED BY <2>2, <4>1, <4>2
    <3>2. CASE n > count
      <4>1. a = "authorized" /\ n <= doc[d].number /\ n \in Nat \ {0}
        BY <1>4, <1>5, <2>4, <3>2
      <4>2. CASE n = doc[d].number
        <5>1. d \in Recorded' /\ Claims(d)' /\ doc'[d].number = n
          BY <1>1, <1>3, <4>1, <4>2, RequestTyped DEF Recorded, Claims
        <5> QED BY <5>1 DEF Accounted
      <4>3. CASE n < doc[d].number
        <5>1. n \in 1..(doc[d].number - 1)
          BY <1>4, <4>1, <4>3
        <5> QED BY <2>3, <5>1
      <4> QED BY <1>4, <4>1, <4>2, <4>3
    <3> QED BY <1>4, <1>5, <2>4, <3>1, <3>2
  <2> QED BY <1>1, <2>3, <2>4 DEF Accounts, Docs
<1> QED BY <1>7, <1>8, <1>9, <1>10, <1>11, <1>12, <1>13, <1>14 DEF IInv

LEMMA NotAttemptedKeeps ==
    ASSUME IInv, NotAttempted PROVE IInv'
<1>1. lane.work = "recorded" /\ RecordAnswer(lane.doc, "not_attempted", FALSE) /\ UNCHANGED inflight
  BY DEF NotAttempted
<1>2. PICK d \in Docs : d = lane.doc
  BY <1>1, RecordedIsNew
<1>3. d \notin inflight /\ \A n \in DOMAIN arca : arca[n].doc # d
  BY <1>1, <1>2, RecordedIsNew
<1> QED BY <1>1, <1>2, <1>3, RecordAnswerKeeps DEF Answers

LEMMA FinishAuthorizeKeeps ==
    ASSUME IInv, FinishAuthorize PROVE IInv'
<1>1. lane.work = "soliciting" /\ UNCHANGED inflight
  BY DEF FinishAuthorize
<1>2. PICK d \in Docs : d = lane.doc
  BY <1>1 DEF IInv, Works
<1>3. CASE lane.seen \in {"authorized", "rejected"}
  <2>1. RecordAnswer(d, lane.seen, FALSE)
    BY <1>2, <1>3 DEF FinishAuthorize
  <2>2. PICK a \in Answers \ {"none"} : a = lane.seen
    BY <1>3 DEF Answers
  <2>3. /\ d \notin inflight /\ (a = "authorized" => doc[d].number <= Len(arca))
        /\ a = "rejected" => doc[d].number > count /\ \A n \in DOMAIN arca : arca[n].doc # d
        /\ a \in {"authorized", "rejected"}
    BY <1>1, <1>2, <1>3, <2>2 DEF IInv, Works
  <2> QED BY <1>1, <1>2, <2>1, <2>2, <2>3, RecordAnswerKeeps
<1>4. CASE lane.seen \notin {"authorized", "rejected"}
  <2>1. PICK conflict \in BOOLEAN : RecordAnswer(d, "unclear", conflict)
    BY <1>2, <1>4 DEF FinishAuthorize
  <2> QED BY <1>1, <1>2, <2>1, RecordAnswerKeeps DEF Answers
<1> QED BY <1>3, <1>4

\* An open request gets an answer while the lane is free, or the lane's work ends with it.
LEMMA AnswerKeeps ==
    ASSUME IInv, NEW d \in Docs, req[d].decision = "none", req[d].answer \in {"unrecorded", "none"},
           req' = [req EXCEPT ![d].answer = "unclear"], lane = FreeLane,
           jobs' \in [decide : SUBSET Docs, diagnose : SUBSET Docs, reconcile : BOOLEAN],
           UNCHANGED <<registerVars, calls, reply, settled, count, freeze, tasks, lane, arca, inflight,
                       faults, late>>
    PROVE  IInv'
<1> USE DEF registerVars
<1>1. /\ RequestsTyped' /\ \A e \in DocId \ {d} : req'[e] = req[e]
      /\ req'[d].answer = "unclear" /\ req'[d].decision = "none"
  BY AnswerSet DEF Answers
<1>2. TypeOK'
  BY <1>1 DEF IInv, TypeOK, RequestsTyped, Docs
<1>3. /\ Series' /\ Told' /\ Decided' /\ Satisfied' /\ NoSaleForgotten' /\ Accounts' /\ Replied'
  BY <1>1, RequestKeeps
<1>4. Requests'
  BY <1>1, RequestsKept DEF Claims
<1>5. lane'.work = "free"
  BY DEF FreeLane
<1>6. Solicited'
  BY <1>1, <1>5, SolicitedKept
<1>7. Voided'
  BY <1>1, VoidedKept
<1>8. Works' /\ Counts'
  BY LaneFreed, Untouched
<1> QED BY <1>2, <1>3, <1>4, <1>6, <1>7, <1>8 DEF IInv

LEMMA AskOutcomeKeeps ==
    ASSUME IInv, NEW d \in Docs, AskOutcome(d) PROVE IInv'
<1>1. /\ d \in InState({"UNKNOWN"}) /\ lane = FreeLane
      /\ UNCHANGED <<sold, offline, pulled, calls, reply, lane, settled, count, freeze, tasks,
                     arca, inflight, faults, late>>
  BY DEF AskOutcome, LaneIsFree
<1>2. d \in InState(Unresolved) /\ doc[d].state = "UNKNOWN" /\ d \in DocId
  BY <1>1, Typed DEF IInv, InState, Unresolved
<1>3. CASE /\ req[d].answer = "unrecorded"
           /\ req' = [req EXCEPT ![d].answer = "unclear"]
           /\ jobs' = [jobs EXCEPT !.decide = @ \union {d}]
           /\ UNCHANGED <<doc, deferred>>
  <2>1. req[d].decision = "none"
    BY <1>2, <1>3 DEF IInv, Decided
  <2>2. jobs' \in [decide : SUBSET Docs, diagnose : SUBSET Docs, reconcile : BOOLEAN]
    BY <1>3 DEF IInv, TypeOK
  <2> QED BY <1>1, <1>3, <2>1, <2>2, AnswerKeeps DEF registerVars
<1>4. ASSUME NEW state \in States \ {"REQUESTING"}, Settle(d, state), UNCHANGED <<req, jobs>>,
             state = "AUTHORIZED" => Claims(d),
             state = "REJECTED" => req[d].answer = "rejected",
             state = "RELEASED" => req[d].decision = "released",
             state = "CONFLICTING" => req[d].decision = "conflicting"
      PROVE  IInv'
  <2>1. faults' \in 0..MaxFaults
    BY <1>1 DEF IInv, TypeOK
  <2> QED BY <1>1, <1>2, <1>4, <2>1, SettleKeeps DEF cloudVars
<1>5. CASE /\ req[d].answer \in {"authorized", "rejected"}
           /\ Settle(d, StateOfAnswer(req[d].answer))
           /\ UNCHANGED <<req, jobs>>
  <2>1. CASE req[d].answer = "authorized"
    BY <1>4, <1>5, <2>1 DEF StateOfAnswer, States, Consuming, Claims
  <2>2. CASE req[d].answer = "rejected"
    BY <1>4, <1>5, <2>2 DEF StateOfAnswer, States
  <2> QED BY <1>5, <2>1, <2>2
<1>6. CASE /\ req[d].decision # "none"
           /\ Settle(d, StateOfDecision(req[d].decision))
           /\ UNCHANGED <<req, jobs>>
  <2>1. req[d].decision \in {"released", "adopted", "conflicting"}
    BY <1>6, RequestTyped DEF Decisions
  <2>2. CASE req[d].decision = "released"
    BY <1>4, <1>6, <2>2 DEF StateOfDecision, States
  <2>3. CASE req[d].decision = "adopted"
    BY <1>4, <1>6, <2>3 DEF StateOfDecision, States, Consuming, Claims
  <2>4. CASE req[d].decision = "conflicting"
    BY <1>4, <1>6, <2>4 DEF StateOfDecision, States, Consuming
  <2> QED BY <2>1, <2>2, <2>3, <2>4
<1> QED BY <1>3, <1>5, <1>6 DEF AskOutcome

-----------------------------------------------------------------------------
(* Decisions *)

LEMMA RecordDecisionKeeps ==
    ASSUME IInv, NEW d \in Docs, NEW k \in Decisions \ {"none"}, RecordDecision(d, k),
           req[d].decision = "none", req[d].answer \in {"not_attempted", "unclear"},
           tasks \subseteq tasks', tasks' \subseteq Nat,
           k \in {"adopted", "conflicting"} => doc[d].number <= Len(arca),
           k = "conflicting" =>
              doc[d].number \in tasks' /\ arca[doc[d].number].amount # AmountOf[doc[d].sale],
           late = 0 /\ k \in {"released", "conflicting"} =>
              d \notin inflight /\ \A n \in DOMAIN arca : arca[n].doc # d,
           UNCHANGED <<registerVars, calls, reply, settled, count, freeze, arca, inflight, faults, late>>
    PROVE  IInv'
<1> USE DEF registerVars
<1>1. /\ req' = [req EXCEPT ![d].decision = k] /\ lane' = FreeLane
      /\ jobs' = [jobs EXCEPT !.decide = @ \ {d}]
  BY DEF RecordDecision
<1>2. /\ RequestsTyped' /\ \A e \in DocId \ {d} : req'[e] = req[e]
      /\ req'[d].answer = req[d].answer /\ req'[d].decision = k
  BY <1>1, DecisionSet
<1>3. TypeOK'
  <2>1. jobs' \in [decide : SUBSET Docs, diagnose : SUBSET Docs, reconcile : BOOLEAN]
    BY <1>1 DEF IInv, TypeOK
  <2> QED BY <1>1, <1>2, <2>1, LaneFreed DEF IInv, TypeOK, RequestsTyped, Docs
<1>4. /\ Series' /\ Told' /\ Decided' /\ Satisfied' /\ NoSaleForgotten' /\ Accounts' /\ Replied'
  BY <1>2, RequestKeeps
<1>5. Requests'
  <2>1. Claims(d)' => k = "adopted"
    BY <1>2 DEF Claims
  <2>2. d \in settled => req'[d].answer = "unclear"
    BY <1>2 DEF IInv, Requests
  <2> QED BY <1>2, <2>1, <2>2, RequestsKept
<1>6. lane'.work = "free" /\ Works' /\ Counts'
  BY <1>1, LaneFreed, Untouched DEF FreeLane
<1>7. Solicited'
  <2>1. d # 0
    BY Typed DEF IInv
  <2>2. /\ d \in inflight => req'[d].answer \in {"none", "unclear"}
        /\ \A n \in DOMAIN arca : arca[n].doc = d => req'[d].answer \in {"none", "unclear", "authorized"}
    BY <1>2, <2>1 DEF IInv, Solicited
  <2> QED BY <1>2, <1>6, <2>2, SolicitedKept
<1>8. Voided'
  BY <1>2, VoidedKept
<1> QED BY <1>3, <1>4, <1>5, <1>6, <1>7, <1>8 DEF IInv

LEMMA DecideStartKeeps ==
    ASSUME IInv, NEW d \in Docs, DecideStart(d) PROVE IInv'
<1> USE DEF registerVars
<1>1. /\ d \in jobs.decide /\ lane = FreeLane
      /\ UNCHANGED <<registerVars, calls, reply, settled, count, freeze, tasks,
                     arca, inflight, faults, late>>
  BY DEF DecideStart, LaneIsFree
<1>2. CASE ~AwaitsDecision(d)
  <2>1. jobs' = [jobs EXCEPT !.decide = @ \ {d}] /\ UNCHANGED <<req, lane>>
    BY <1>2 DEF DecideStart
  <2>2. TypeOK'
    BY <1>1, <2>1 DEF IInv, TypeOK, Recorded, Docs
  <2> QED BY <1>1, <2>1, <2>2, Untouched DEF IInv
<1>3. CASE AwaitsDecision(d) /\ req[d].answer = "none"
  <2>1. req' = [req EXCEPT ![d].answer = "unclear"] /\ UNCHANGED <<jobs, lane>>
    BY <1>3 DEF DecideStart
  <2>2. jobs' \in [decide : SUBSET Docs, diagnose : SUBSET Docs, reconcile : BOOLEAN]
    BY <2>1 DEF IInv, TypeOK
  <2> QED BY <1>1, <1>3, <2>1, <2>2, AnswerKeeps DEF AwaitsDecision
<1>4. CASE AwaitsDecision(d) /\ req[d].answer = "not_attempted"
  <2>1. RecordDecision(d, "released")
    BY <1>4 DEF DecideStart
  <2>2. d \notin inflight /\ \A n \in DOMAIN arca : arca[n].doc # d
    BY <1>4, NotSolicited
  <2>3. tasks' \subseteq Nat
    BY <1>1 DEF IInv, TypeOK
  <2> QED BY <1>1, <1>4, <2>1, <2>2, <2>3, RecordDecisionKeeps DEF Decisions, AwaitsDecision
<1>5. CASE AwaitsDecision(d) /\ req[d].answer = "unclear"
  <2>1. /\ d \in settled /\ lane' = [work |-> "deciding", doc |-> d, seen |-> "none"]
        /\ UNCHANGED <<req, jobs>>
    BY <1>5 DEF DecideStart
  <2>2. TypeOK'
    BY <1>1, <2>1 DEF IInv, TypeOK, Recorded, Docs
  <2>3. Works'
    BY <1>1, <1>5, <2>1 DEF Works, AwaitsDecision, Docs
  <2> QED BY <1>1, <2>1, <2>2, <2>3, Untouched DEF IInv
<1> QED BY <1>2, <1>3, <1>4, <1>5 DEF AwaitsDecision

\* What the decision job found of the request it decides.
LEMMA DecidingUnclear ==
    ASSUME IInv, lane.work = "deciding"
    PROVE  /\ lane.doc \in Docs /\ req[lane.doc].decision = "none" /\ req[lane.doc].answer = "unclear"
           /\ late = 0 => lane.doc \notin inflight
           /\ \A n \in DOMAIN arca : arca[n].doc = lane.doc =>
                 n = doc[lane.doc].number /\ arca[n].amount = AmountOf[doc[lane.doc].sale]
<1>1. lane.doc \in Docs /\ lane.doc \in settled /\ req[lane.doc].decision = "none"
  BY DEF IInv, Works
<1>2. lane.doc # 0 /\ req[lane.doc].answer = "unclear"
  BY <1>1, Typed DEF IInv, Requests
<1> QED BY <1>1, <1>2 DEF IInv, Voided, Solicited

LEMMA DecideVoucherKeeps ==
    ASSUME IInv, DecideVoucher PROVE IInv'
<1> USE DEF registerVars
<1>1. /\ lane.work = "deciding" /\ lane.seen = "none"
      /\ UNCHANGED <<registerVars, calls, reply, settled, count, freeze, arca, inflight, faults, late>>
  BY DEF DecideVoucher
<1>2. PICK d \in Docs : d = lane.doc
  BY <1>1, DecidingUnclear
<1>3. /\ req[d].decision = "none" /\ req[d].answer = "unclear" /\ (late = 0 => d \notin inflight)
      /\ \A n \in DOMAIN arca : arca[n].doc = d => n = doc[d].number /\ arca[n].amount = AmountOf[doc[d].sale]
  BY <1>1, <1>2, DecidingUnclear
<1>4. doc[d].number \in Nat /\ Len(arca) \in Nat /\ DOMAIN arca = 1..Len(arca) /\ tasks \subseteq Nat
  BY Typed DEF IInv, TypeOK
<1>5. CASE doc[d].number \in DOMAIN arca
  <2>1. doc[d].number <= Len(arca)
    BY <1>4, <1>5
  <2>2. CASE arca[doc[d].number].amount = AmountOf[doc[d].sale]
    <3>1. RecordDecision(d, "adopted") /\ UNCHANGED tasks
      BY <1>2, <1>5, <2>2 DEF DecideVoucher
    <3> QED BY <1>1, <1>3, <1>4, <2>1, <3>1, RecordDecisionKeeps DEF Decisions
  <2>3. CASE arca[doc[d].number].amount # AmountOf[doc[d].sale]
    <3>1. RecordDecision(d, "conflicting") /\ tasks' = tasks \union {doc[d].number}
      BY <1>2, <1>5, <2>3 DEF DecideVoucher
    <3>2. tasks' \subseteq Nat /\ doc[d].number \in tasks' /\ tasks \subseteq tasks'
      BY <1>4, <3>1
    <3>3. \A n \in DOMAIN arca : arca[n].doc # d
      BY <1>3, <2>3
    <3> QED BY <1>1, <1>3, <2>1, <2>3, <3>1, <3>2, <3>3, RecordDecisionKeeps DEF Decisions
  <2> QED BY <2>2, <2>3
<1>6. CASE doc[d].number \notin DOMAIN arca
  <2>1. lane' = [lane EXCEPT !.seen = "no voucher"] /\ UNCHANGED <<req, jobs, tasks>>
    BY <1>2, <1>6 DEF DecideVoucher
  <2>2. lane \in [work : {"free", "recorded", "soliciting", "deciding"}, doc : {0} \union Docs,
                  seen : {"none", "authorized", "rejected", "conflict", "no voucher"}]
    BY DEF IInv, TypeOK
  <2>3. /\ lane' \in [work : {"free", "recorded", "soliciting", "deciding"}, doc : {0} \union Docs,
                      seen : {"none", "authorized", "rejected", "conflict", "no voucher"}]
        /\ lane'.work = "deciding" /\ lane'.doc = d
    BY <1>1, <1>2, <2>1, <2>2
  <2>4. TypeOK'
    BY <1>1, <2>1, <2>3 DEF IInv, TypeOK, Recorded, Docs
  <2>5. Works'
    BY <1>1, <1>2, <2>1, <2>3 DEF IInv, Works, Docs
  <2> QED BY <1>1, <2>1, <2>3, <2>4, <2>5, Untouched DEF IInv
<1> QED BY <1>5, <1>6

LEMMA DecideLastAuthorizedKeeps ==
    ASSUME IInv, DecideLastAuthorized PROVE IInv'
<1> USE DEF registerVars
<1>1. /\ lane.work = "deciding" /\ lane.seen = "no voucher"
      /\ UNCHANGED <<registerVars, calls, reply, settled, count, freeze, tasks,
                     arca, inflight, faults, late>>
  BY DEF DecideLastAuthorized
<1>2. PICK d \in Docs : d = lane.doc
  BY <1>1, DecidingUnclear
<1>3. /\ req[d].decision = "none" /\ req[d].answer = "unclear" /\ (late = 0 => d \notin inflight)
      /\ \A n \in DOMAIN arca : arca[n].doc = d => n = doc[d].number
  BY <1>1, <1>2, DecidingUnclear
<1>4. doc[d].number \in Nat /\ Len(arca) \in Nat /\ DOMAIN arca = 1..Len(arca) /\ tasks \subseteq Nat
  BY Typed DEF IInv, TypeOK
<1>5. CASE Len(arca) < doc[d].number
  <2>1. RecordDecision(d, "released")
    BY <1>2, <1>5 DEF DecideLastAuthorized
  <2>2. \A n \in DOMAIN arca : arca[n].doc # d
    BY <1>3, <1>4, <1>5
  <2> QED BY <1>1, <1>3, <1>4, <2>1, <2>2, RecordDecisionKeeps DEF Decisions
<1>6. CASE ~(Len(arca) < doc[d].number)
  <2>1. lane' = FreeLane /\ UNCHANGED <<req, jobs, tasks>>
    BY <1>1, <1>2, <1>6 DEF DecideLastAuthorized
  <2>2. TypeOK'
    BY <1>1, <2>1, LaneFreed DEF IInv, TypeOK, Recorded, Docs
  <2>3. lane'.work # "recorded"
    BY <2>1 DEF FreeLane
  <2> QED BY <1>1, <2>1, <2>2, <2>3, LaneFreed, Untouched DEF IInv
<1> QED BY <1>5, <1>6

-----------------------------------------------------------------------------
(* Numbering conflicts *)

LEMMA DiagnoseKeeps ==
    ASSUME IInv, NEW d \in Docs, Diagnose(d) PROVE IInv'
<1> USE DEF registerVars
<1>1. /\ req' = [req EXCEPT ![d].diagnosed = TRUE] /\ lane = FreeLane
      /\ freeze' = IF freeze.on THEN freeze ELSE [on |-> TRUE, before |-> count]
      /\ jobs' = [jobs EXCEPT !.diagnose = @ \ {d}, !.reconcile = @ \/ ~freeze.on]
      /\ UNCHANGED <<registerVars, calls, reply, lane, settled, count, tasks, arca, inflight, faults, late>>
  BY DEF Diagnose, LaneIsFree
<1>2. /\ RequestsTyped' /\ Docs \subseteq DocId /\ Docs' = Docs
      /\ \A e \in DocId : req'[e].answer = req[e].answer /\ req'[e].decision = req[e].decision
  <2> DEFINE r == [req[d] EXCEPT !.diagnosed = TRUE]
  <2>1. req[d] \in [answer : Answers \union {"unrecorded"}, conflict : BOOLEAN,
                    decision : Decisions, diagnosed : BOOLEAN]
    BY RequestTyped
  <2>2. r \in [answer : Answers \union {"unrecorded"}, conflict : BOOLEAN,
               decision : Decisions, diagnosed : BOOLEAN]
        /\ r.answer = req[d].answer /\ r.decision = req[d].decision
    BY <2>1
  <2>3. req' = [req EXCEPT ![d] = r] /\ UNCHANGED doc
    BY <1>1
  <2>4. RequestsTyped' /\ req'[d] = r /\ \A e \in DocId \ {d} : req'[e] = req[e]
    <3> HIDE DEF r
    <3> QED BY <2>2, <2>3, RequestSet
  <2> QED BY <1>1, <2>2, <2>4, Typed DEF IInv, Docs
<1>3. Recorded' = Recorded /\ \A e \in DocId : Claims(e)' = Claims(e)
  BY <1>2 DEF Recorded, Claims
<1>4. jobs' \in [decide : SUBSET Docs, diagnose : SUBSET Docs, reconcile : BOOLEAN]
  <2>1. jobs \in [decide : SUBSET Docs, diagnose : SUBSET Docs, reconcile : BOOLEAN]
    BY DEF IInv, TypeOK
  <2>2. PICK b \in BOOLEAN : b = (jobs.reconcile \/ ~freeze.on)
    OBVIOUS
  <2>3. jobs' = [jobs EXCEPT !.diagnose = jobs.diagnose \ {d}, !.reconcile = b]
    BY <1>1, <2>2
  <2> QED BY <2>1, <2>3
<1>5. freeze' \in [on : BOOLEAN, before : Nat] /\ freeze'.before <= count /\ count \in Nat
  <2>1. freeze \in [on : BOOLEAN, before : Nat] /\ count \in Nat /\ freeze.before <= count
    BY DEF IInv, TypeOK, Counts
  <2> QED BY <1>1, <2>1
<1>6. TypeOK'
  BY <1>1, <1>2, <1>4, <1>5 DEF IInv, TypeOK, RequestsTyped
<1>7. Counts'
  BY <1>1, <1>5 DEF IInv, Counts
<1>8. Told'
  BY <1>1, <1>2, <1>3 DEF IInv, Told
<1>9. Replied'
  BY <1>1, <1>2 DEF IInv, Replied, InState
<1>10. Decided'
  BY <1>2 DEF IInv, Decided
<1>11. Requests'
  BY <1>1, <1>2, <1>3 DEF IInv, Requests
<1>12. Works'
  BY <1>1 DEF Works, FreeLane
<1>13. Solicited'
  <2>1. inflight \subseteq Docs /\ \A n \in DOMAIN arca : arca[n].doc \in {0} \union Docs
    BY Typed DEF IInv, TypeOK
  <2> QED BY <1>1, <1>2, <2>1 DEF IInv, Solicited
<1>14. Voided'
  BY <1>1, <1>2 DEF IInv, Voided
<1>15. Accounts'
  <2>1. Recorded \subseteq DocId
    BY DEF Recorded
  <2>2. Recalls
    BY <1>1, <1>2, <1>3, <2>1 DEF Recalls
  <2> QED BY <1>1, <1>2, <2>1, <2>2, AccountsKept
<1> QED BY <1>1, <1>6, <1>7, <1>8, <1>9, <1>10, <1>11, <1>12, <1>13, <1>14, <1>15, Untouched DEF IInv

\* What the sweep leaves without a document of the register goes to be invoiced outside,
\* or has a request behind it.
LEMMA SweptIsAccounted ==
    ASSUME IInv, Reconcile, NEW n \in (freeze.before + 1)..Len(arca)
    PROVE  Accounted(n)'
<1> USE DEF registerVars
<1>1. /\ tasks' = tasks \union {m \in WithoutOwnDocument : ~HasRequestBehind(m)}
      /\ UNCHANGED <<doc, req, arca>>
  BY DEF Reconcile
<1>2. CASE n \notin {doc[d].number : d \in {e \in Swept : Claims(e)}}
  <2>1. n \in WithoutOwnDocument
    BY <1>2 DEF WithoutOwnDocument
  <2>2. HasRequestBehind(n)' = HasRequestBehind(n)
    BY <1>1 DEF HasRequestBehind, Recorded
  <2> QED BY <1>1, <2>1, <2>2 DEF Accounted
<1>3. CASE n \in {doc[d].number : d \in {e \in Swept : Claims(e)}}
  <2>1. PICK d \in Recorded : Claims(d) /\ doc[d].number = n
    BY <1>3 DEF Swept
  <2>2. d \in Recorded' /\ Claims(d)' /\ doc'[d].number = n
    BY <1>1, <2>1 DEF Recorded, Claims
  <2> QED BY <2>2 DEF Accounted
<1> QED BY <1>2, <1>3

LEMMA ReconcileKeeps ==
    ASSUME IInv, Reconcile PROVE IInv'
<1> USE DEF registerVars
<1>1. /\ lane = FreeLane /\ tasks \subseteq tasks' /\ tasks' \subseteq tasks \union WithoutOwnDocument
      /\ count' = Max({count, Len(arca)}) /\ freeze' = NotFrozen /\ jobs' = [jobs EXCEPT !.reconcile = FALSE]
      /\ UNCHANGED <<registerVars, calls, reply, lane, req, settled, arca, inflight, faults, late>>
  BY DEF Reconcile, LaneIsFree
<1>2. /\ count \in Nat /\ Len(arca) \in Nat /\ count <= Len(arca) /\ pulled.count \in Nat
      /\ pulled.count <= count /\ freeze.before \in Nat /\ freeze.before <= count
  BY Typed DEF IInv, TypeOK, Counts
<1>3. count' = Len(arca)
  BY <1>1, <1>2, MaxOfTwo
<1>4. tasks' \subseteq Nat
  <2>1. (freeze.before + 1)..Len(arca) \subseteq Nat
    BY <1>2
  <2> QED BY <1>1, <2>1 DEF IInv, TypeOK, WithoutOwnDocument
<1>5. TypeOK'
  <2>1. jobs' \in [decide : SUBSET Docs, diagnose : SUBSET Docs, reconcile : BOOLEAN]
    BY <1>1 DEF IInv, TypeOK
  <2>2. freeze' \in [on : BOOLEAN, before : Nat]
    BY <1>1 DEF NotFrozen
  <2> QED BY <1>1, <1>2, <1>3, <1>4, <2>1, <2>2 DEF IInv, TypeOK, Recorded, Docs
<1>6. Counts'
  BY <1>1, <1>2, <1>3 DEF Counts, NotFrozen
<1>7. Requests'
  BY <1>1 DEF IInv, Requests, Claims, Docs
<1>8. Works'
  BY <1>1 DEF Works, FreeLane
<1>9. Accounts'
  <2>1. Recorded' = Recorded /\ Recorded \subseteq Docs /\ Docs' = Docs
    BY <1>1 DEF Recorded, IInv, TypeOK, Docs
  <2>2. Recalls
    BY <1>1, <2>1 DEF Recalls, Claims
  <2>3. ASSUME NEW n \in 1..Len(arca), Accounted(n) PROVE Accounted(n)'
    BY <1>1, <2>2, <2>3, StillAccounted
  <2>4. ASSUME NEW n \in 1..count' PROVE Accounted(n)'
    <3>1. CASE n <= freeze.before
      <4>1. n \in 1..count /\ n \in 1..Len(arca)
        BY <1>2, <2>4, <3>1
      <4> QED BY <2>3, <4>1 DEF IInv, Accounts
    <3>2. CASE n > freeze.before
      <4>1. n \in (freeze.before + 1)..Len(arca)
        BY <1>2, <1>3, <2>4, <3>2
      <4> QED BY <4>1, SweptIsAccounted
    <3> QED BY <1>2, <1>3, <2>4, <3>1, <3>2
  <2>5. ASSUME NEW d \in Docs, NEW n \in 1..(doc'[d].number - 1) PROVE Accounted(n)'
    <3>1. doc'[d].number = doc[d].number /\ doc[d].number \in Nat /\ doc[d].number <= Len(arca) + 1
      BY <1>1, NumbersAreReached, Typed DEF IInv
    <3>2. n \in 1..Len(arca) /\ Accounted(n)
      BY <1>2, <3>1 DEF IInv, Accounts
    <3> QED BY <2>3, <3>2
  <2> QED BY <2>1, <2>4, <2>5 DEF Accounts
<1> QED BY <1>1, <1>5, <1>6, <1>7, <1>8, <1>9, Untouched DEF IInv

-----------------------------------------------------------------------------
(* The tax authority *)

\* A voucher takes the number after the last one.
LEMMA VoucherAdded ==
    ASSUME IInv, NEW v \in [doc : {0} \union Docs, amount : Amount], arca' = Append(arca, v)
    PROVE  /\ arca' \in Seq([doc : {0} \union Docs, amount : Amount])
           /\ Len(arca) \in Nat /\ Len(arca') = Len(arca) + 1
           /\ DOMAIN arca = 1..Len(arca) /\ DOMAIN arca' = DOMAIN arca \union {Len(arca) + 1}
           /\ Len(arca) + 1 \notin DOMAIN arca /\ arca'[Len(arca) + 1] = v
           /\ \A n \in DOMAIN arca : arca'[n] = arca[n]
<1> DEFINE V == [doc : {0} \union Docs, amount : Amount]
<1>1. arca \in Seq(V) /\ v \in V
  BY DEF IInv, TypeOK
<1>2. /\ arca' \in Seq(V) /\ Len(arca') = Len(arca) + 1
      /\ \A n \in 1..Len(arca) : arca'[n] = arca[n]
      /\ arca'[Len(arca) + 1] = v
  <2> HIDE DEF V
  <2> QED BY <1>1, AppendProperties
<1>3. Len(arca) \in Nat /\ DOMAIN arca = 1..Len(arca)
  BY Typed DEF IInv
<1>4. DOMAIN arca' = 1..Len(arca')
  BY <1>2
<1>5. DOMAIN arca' = DOMAIN arca \union {Len(arca) + 1} /\ Len(arca) + 1 \notin DOMAIN arca
  BY <1>2, <1>3, <1>4
<1> QED BY <1>2, <1>3, <1>5

LEMMA VoucherKeeps ==
    ASSUME IInv, NEW v \in [doc : {0} \union Docs, amount : Amount], arca' = Append(arca, v),
           UNCHANGED <<registerVars, calls, reply, cloudVars>>
    PROVE  /\ Series' /\ Counts' /\ Told' /\ Replied' /\ Decided' /\ Requests' /\ Accounts'
           /\ Satisfied' /\ NoSaleForgotten'
<1> USE DEF registerVars, cloudVars
<1>1. /\ Len(arca) \in Nat /\ Len(arca') = Len(arca) + 1 /\ DOMAIN arca = 1..Len(arca)
      /\ \A n \in DOMAIN arca : arca'[n] = arca[n]
  BY VoucherAdded
<1>2. Counts'
  <2>1. count \in Nat /\ count <= Len(arca)
    BY DEF IInv, TypeOK, Counts
  <2>2. count <= Len(arca')
    BY <1>1, <2>1
  <2> QED BY <2>2 DEF IInv, Counts
<1>3. Docs' = Docs /\ Recorded' = Recorded /\ Recorded \subseteq Docs
  BY DEF Docs, Recorded, IInv, TypeOK
<1>4. Requests'
  <2> SUFFICES ASSUME NEW d \in Docs
               PROVE  /\ Claims(d) \/ req[d].decision = "conflicting" => doc[d].number <= Len(arca')
                      /\ req[d].decision = "conflicting" =>
                            doc[d].number \in tasks /\ arca'[doc[d].number].amount # AmountOf[doc[d].sale]
                      /\ d \in settled => req[d].answer = "unclear"
    BY <1>3 DEF Requests, Claims
  <2>1. doc[d].number \in Nat \ {0}
    BY Typed DEF IInv
  <2>2. doc[d].number <= Len(arca) => doc[d].number \in DOMAIN arca /\ doc[d].number <= Len(arca')
    BY <1>1, <2>1
  <2> QED BY <1>1, <2>2 DEF IInv, Requests
<1>5. Accounts'
  <2>1. Recalls
    BY <1>1, <1>3 DEF Recalls, Claims
  <2> QED BY <1>3, <2>1, AccountsKept
<1> QED BY <1>2, <1>4, <1>5, Untouched

LEMMA ArcaProcessesKeeps ==
    ASSUME IInv, NEW d \in Docs, ArcaProcesses(d) PROVE IInv'
<1> USE DEF registerVars, cloudVars
<1>1. /\ d \in inflight /\ inflight' = inflight \ {d} /\ inflight \subseteq Docs
      /\ UNCHANGED <<registerVars, calls, reply, cloudVars, faults, late>>
  BY DEF ArcaProcesses, IInv, TypeOK
<1>2. PICK seen \in {"authorized", "rejected", "conflict"} :
          /\ (seen = "conflict") <=> (doc[d].number # Len(arca) + 1)
          /\ arca' = IF seen = "authorized"
                     THEN Append(arca, [doc |-> d, amount |-> AmountOf[doc[d].sale]])
                     ELSE arca
          /\ lane' = IF lane.work = "soliciting" /\ lane.doc = d
                     THEN [lane EXCEPT !.seen = seen] ELSE lane
  BY DEF ArcaProcesses
<1>3. lane \in [work : {"free", "recorded", "soliciting", "deciding"}, doc : {0} \union Docs,
                seen : {"none", "authorized", "rejected", "conflict", "no voucher"}]
  BY DEF IInv, TypeOK
<1>4. /\ lane' \in [work : {"free", "recorded", "soliciting", "deciding"}, doc : {0} \union Docs,
                    seen : {"none", "authorized", "rejected", "conflict", "no voucher"}]
      /\ lane'.work = lane.work /\ lane'.doc = lane.doc
      /\ lane' = lane \/ (lane.work = "soliciting" /\ lane.doc = d /\ lane'.seen = seen)
  BY <1>2, <1>3
<1>5. /\ d # 0 /\ req[d].answer \in {"none", "unclear"} /\ ~(lane.work = "recorded" /\ lane.doc = d)
      /\ \A n \in DOMAIN arca : arca[n].doc # d
      /\ Len(arca) \in Nat /\ count \in Nat /\ count <= Len(arca) /\ doc[d].number \in Nat \ {0}
  <2>1. d # 0 /\ Len(arca) \in Nat /\ doc[d].number \in Nat \ {0}
    BY Typed DEF IInv
  <2>2. count \in Nat /\ count <= Len(arca)
    BY DEF IInv, TypeOK, Counts
  <2> QED BY <1>1, <2>1, <2>2 DEF IInv, Solicited
<1>6. CASE seen # "authorized"
  <2>1. UNCHANGED arca
    BY <1>2, <1>6
  <2>2. TypeOK'
    BY <1>1, <1>4, <2>1 DEF IInv, TypeOK, Recorded, Docs
  <2>3. Works'
    <3>1. CASE lane' = lane
      BY <1>1, <2>1, <3>1, Untouched
    <3>2. CASE lane.work = "soliciting" /\ lane.doc = d /\ lane'.seen = seen
      <4>1. seen = "rejected" => doc[d].number > count
        BY <1>2, <1>5
      <4> QED BY <1>1, <1>4, <1>5, <1>6, <2>1, <3>2, <4>1 DEF IInv, Works, Docs
    <3> QED BY <1>4, <3>1, <3>2
  <2>4. Solicited' /\ Voided'
    BY <1>1, <1>4, <2>1, Untouched
  <2> QED BY <1>1, <2>1, <2>2, <2>3, <2>4, Untouched DEF IInv
<1>7. CASE seen = "authorized"
  <2> DEFINE v == [doc |-> d, amount |-> AmountOf[doc[d].sale]]
             new == Len(arca) + 1
  <2>1. v \in [doc : {0} \union Docs, amount : Amount] /\ arca' = Append(arca, v)
    BY <1>2, <1>7, Typed DEF IInv
  <2>2. doc[d].number = new /\ v.doc = d /\ v.amount = AmountOf[doc[d].sale]
    BY <1>2, <1>7
  <2>3. /\ arca' \in Seq([doc : {0} \union Docs, amount : Amount]) /\ Len(arca') = new
        /\ DOMAIN arca = 1..Len(arca) /\ DOMAIN arca' = DOMAIN arca \union {new} /\ arca'[new] = v
        /\ \A n \in DOMAIN arca : arca'[n] = arca[n]
    <3> HIDE DEF v
    <3> QED BY <2>1, VoucherAdded
  <2>4. /\ Series' /\ Counts' /\ Told' /\ Replied' /\ Decided' /\ Requests' /\ Accounts'
        /\ Satisfied' /\ NoSaleForgotten'
    <3> HIDE DEF v
    <3> QED BY <1>1, <2>1, VoucherKeeps
  <2> HIDE DEF v
  <2>5. TypeOK'
    BY <1>1, <1>4, <2>3 DEF IInv, TypeOK, Recorded, Docs
  <2>6. Works'
    <3>1. lane.work # "soliciting" => lane' = lane
      BY <1>4
    <3>2. CASE lane.work # "soliciting"
      BY <1>1, <3>1, <3>2 DEF IInv, Works, Docs
    <3>3. CASE lane.work = "soliciting" /\ lane.doc = d
      <4>1. lane'.seen = "authorized"
        BY <1>2, <1>3, <1>7, <3>3
      <4>2. doc[d].number <= Len(arca') /\ d \notin inflight'
        BY <1>1, <1>5, <2>2, <2>3
      <4>3. req[d].answer = "none" /\ req[d].decision = "none"
        BY <3>3 DEF IInv, Works
      <4> QED BY <1>1, <1>4, <3>3, <4>1, <4>2, <4>3 DEF Works, Docs
    <3>4. CASE lane.work = "soliciting" /\ lane.doc # d
      <4>1. lane' = lane /\ lane.doc \in Docs /\ doc[lane.doc].number \in Nat
        BY <1>4, <3>4, Typed DEF IInv, Works
      <4>2. doc[lane.doc].number <= Len(arca) => doc[lane.doc].number <= Len(arca')
        BY <1>5, <2>3, <4>1
      <4>3. (\A n \in DOMAIN arca : arca[n].doc # lane.doc) =>
                \A n \in DOMAIN arca' : arca'[n].doc # lane.doc
        BY <2>2, <2>3, <3>4
      <4> QED BY <1>1, <3>4, <4>1, <4>2, <4>3 DEF IInv, Works, Docs
    <3> QED BY <3>2, <3>3, <3>4
  <2>7. Solicited'
    <3>1. ASSUME NEW e \in inflight'
          PROVE  req[e].answer \in {"none", "unclear"} /\ ~(lane'.work = "recorded" /\ lane'.doc = e)
      <4>1. e \in inflight
        BY <1>1
      <4>2. req[e].answer \in {"none", "unclear"} /\ ~(lane.work = "recorded" /\ lane.doc = e)
        BY <4>1 DEF IInv, Solicited
      <4> QED BY <1>4, <4>2
    <3>2. ASSUME NEW n \in DOMAIN arca, arca[n].doc # 0
          PROVE  /\ doc[arca[n].doc].number = n /\ arca[n].amount = AmountOf[doc[arca[n].doc].sale]
                 /\ arca[n].doc \notin inflight'
                 /\ req[arca[n].doc].answer \in {"none", "unclear", "authorized"}
                 /\ ~(lane'.work = "recorded" /\ lane'.doc = arca[n].doc)
      <4>1. /\ doc[arca[n].doc].number = n /\ arca[n].amount = AmountOf[doc[arca[n].doc].sale]
            /\ arca[n].doc \notin inflight
            /\ req[arca[n].doc].answer \in {"none", "unclear", "authorized"}
            /\ ~(lane.work = "recorded" /\ lane.doc = arca[n].doc)
        BY <3>2 DEF IInv, Solicited
      <4>2. arca[n].doc \notin inflight'
        BY <1>1, <4>1
      <4> QED BY <1>4, <4>1, <4>2
    <3>3. /\ doc[v.doc].number = new /\ v.amount = AmountOf[doc[v.doc].sale] /\ v.doc \notin inflight'
          /\ req[v.doc].answer \in {"none", "unclear", "authorized"}
          /\ ~(lane'.work = "recorded" /\ lane'.doc = v.doc)
      BY <1>1, <1>4, <1>5, <2>2
    <3>4. UNCHANGED <<doc, req>>
      BY <1>1
    <3> HIDE DEF new
    <3> QED BY <2>3, <3>1, <3>2, <3>3, <3>4 DEF Solicited
  <2>8. Voided'
    BY <1>1, <2>2, <2>3 DEF IInv, Voided, Docs
  <2> QED BY <2>4, <2>5, <2>6, <2>7, <2>8 DEF IInv
<1> QED BY <1>6, <1>7

LEMMA InvoicedElsewhereKeeps ==
    ASSUME IInv, InvoicedElsewhere PROVE IInv'
<1> USE DEF registerVars, cloudVars
<1>1. PICK a \in Amount : arca' = Append(arca, [doc |-> 0, amount |-> a])
  BY DEF InvoicedElsewhere
<1>2. UNCHANGED <<registerVars, calls, reply, cloudVars, lane, inflight, faults, late>>
  BY DEF InvoicedElsewhere
<1> DEFINE v == [doc |-> 0, amount |-> a]
<1>3. v \in [doc : {0} \union Docs, amount : Amount] /\ arca' = Append(arca, v) /\ v.doc = 0
  BY <1>1
<1> HIDE DEF v
<1>4. /\ arca' \in Seq([doc : {0} \union Docs, amount : Amount]) /\ Len(arca') = Len(arca) + 1
      /\ Len(arca) \in Nat /\ DOMAIN arca' = DOMAIN arca \union {Len(arca) + 1}
      /\ arca'[Len(arca) + 1] = v /\ \A n \in DOMAIN arca : arca'[n] = arca[n]
  BY <1>3, VoucherAdded
<1>5. /\ Series' /\ Counts' /\ Told' /\ Replied' /\ Decided' /\ Requests' /\ Accounts'
      /\ Satisfied' /\ NoSaleForgotten'
  BY <1>2, <1>3, VoucherKeeps
<1>6. TypeOK'
  BY <1>2, <1>4 DEF IInv, TypeOK, Recorded, Docs
<1>7. ASSUME NEW d \in Docs, \A n \in DOMAIN arca : arca[n].doc # d
      PROVE  \A n \in DOMAIN arca' : arca'[n].doc # d
  <2>1. d # 0
    BY Typed DEF IInv
  <2> QED BY <1>3, <1>4, <1>7, <2>1
<1>8. Works'
  <2>1. CASE lane.work # "soliciting"
    BY <1>2, <2>1 DEF IInv, Works, Docs
  <2>2. CASE lane.work = "soliciting"
    <3>1. lane.doc \in Docs /\ doc[lane.doc].number \in Nat
      BY <2>2, Typed DEF IInv, Works
    <3>2. doc[lane.doc].number <= Len(arca) => doc[lane.doc].number <= Len(arca')
      BY <1>4, <3>1
    <3>3. (\A n \in DOMAIN arca : arca[n].doc # lane.doc) =>
              \A n \in DOMAIN arca' : arca'[n].doc # lane.doc
      BY <1>7, <3>1
    <3> QED BY <1>2, <2>2, <3>1, <3>2, <3>3 DEF IInv, Works, Docs
  <2> QED BY <2>1, <2>2
<1>9. Solicited'
  BY <1>2, <1>3, <1>4 DEF IInv, Solicited
<1>10. Voided'
  BY <1>2, <1>7 DEF IInv, Voided, Docs
<1> QED BY <1>5, <1>6, <1>8, <1>9, <1>10 DEF IInv

-----------------------------------------------------------------------------
(* The theorems *)

LEMMA InitKeeps ==
    ASSUME Init PROVE IInv
<1>1. /\ sold = <<>> /\ offline = {} /\ deferred = [s \in Sale |-> "none"] /\ doc = <<>>
      /\ pulled = [count |-> 0, frozen |-> FALSE] /\ calls = {} /\ reply = "none"
      /\ req = [d \in DocId |-> Unrecorded] /\ lane = FreeLane /\ settled = {}
      /\ jobs = [decide |-> {}, diagnose |-> {}, reconcile |-> FALSE]
      /\ count = 0 /\ freeze = NotFrozen /\ tasks = {}
      /\ arca = <<>> /\ inflight = {} /\ faults = 0 /\ late = 0
  BY DEF Init
<1>2. /\ Docs = {} /\ DOMAIN arca = {} /\ DOMAIN sold = {} /\ Len(doc) = 0 /\ Len(arca) = 0 /\ Len(sold) = 0
  BY <1>1 DEF Docs
<1>3. Recorded = {}
  BY <1>1 DEF Recorded, Unrecorded
<1>4. TypeOK
  <2>1. sold \in Seq(Sale) /\ doc \in Seq([sale : Sale, number : Nat \ {0}, state : States])
        /\ arca \in Seq([doc : {0} \union Docs, amount : Amount])
    BY <1>1
  <2>2. Cardinality(Sale) \in Nat
    BY FS_CardinalityType
  <2>3. /\ Len(sold) <= Cardinality(Sale) /\ Len(doc) <= MaxDocs
        /\ faults \in 0..MaxFaults /\ late \in 0..MaxLate
    BY <1>1, <1>2, <2>2
  <2>4. req \in [DocId -> [answer : Answers \union {"unrecorded"}, conflict : BOOLEAN,
                           decision : Decisions, diagnosed : BOOLEAN]]
    BY <1>1 DEF Unrecorded, Decisions
  <2> QED BY <1>1, <1>3, <2>1, <2>3, <2>4 DEF TypeOK, Answers, FreeLane, NotFrozen
<1>5. Series
  <2>1. {sold[i] : i \in DOMAIN sold} = {}
    BY <1>2
  <2> QED BY <1>2, <2>1, FS_EmptySet DEF Series
<1>6. Counts
  BY <1>1, <1>2 DEF Counts, NotFrozen
<1>7. Told /\ Requests
  BY <1>2 DEF Told, Requests
<1>8. Replied
  BY <1>1 DEF Replied
<1>9. Decided
  BY <1>1 DEF Decided, Unrecorded
<1>10. Works
  BY <1>1 DEF Works, FreeLane
<1>11. Solicited /\ Voided
  BY <1>1, <1>2 DEF Solicited, Voided
<1>12. Accounts
  BY <1>1, <1>2 DEF Accounts
<1>13. Satisfied /\ NoSaleForgotten
  BY <1>1, <1>2 DEF Satisfied, NoSaleForgotten
<1> QED BY <1>4, <1>5, <1>6, <1>7, <1>8, <1>9, <1>10, <1>11, <1>12, <1>13 DEF IInv

LEMMA StutterKeeps ==
    ASSUME IInv, UNCHANGED vars PROVE IInv'
<1> USE DEF vars, registerVars, cloudVars
<1>1. TypeOK'
  BY DEF IInv, TypeOK, Recorded, Docs
<1> QED BY <1>1, Untouched DEF IInv

LEMMA StepKeepsIInv ==
    ASSUME IInv, [Next]_vars PROVE IInv'
<1>1. CASE Progress
  <2>1. CASE \E d \in Docs : \/ ResolveCall(d) \/ StartAuthorize(d) \/ AskOutcome(d)
                             \/ SettlingDelayPasses(d) \/ DecideStart(d) \/ Diagnose(d)
                             \/ ArcaProcesses(d)
    BY <2>1, ResolveCallKeeps, StartAuthorizeKeeps, AskOutcomeKeeps, SettlingDelayPassesKeeps,
       DecideStartKeeps, DiagnoseKeeps, ArcaProcessesKeeps
  <2> QED BY <1>1, <2>1, PullKeeps, SolicitKeeps, FinishAuthorizeKeeps, DecideVoucherKeeps,
             DecideLastAuthorizedKeeps, ReconcileKeeps DEF Progress
<1>2. CASE \/ CatchUp \/ NotAttempted \/ DecideNoAnswer \/ LaneIsLost
           \/ RestartRegister \/ InvoicedElsewhere
  BY <1>2, CatchUpKeeps, NotAttemptedKeeps, DecideNoAnswerKeeps, LaneIsLostKeeps,
     RestartRegisterKeeps, InvoicedElsewhereKeeps
<1>3. CASE \E s \in Sale : CompleteReserving(s) \/ CompleteAside(s)
  BY <1>3, CompleteReservingKeeps, CompleteAsideKeeps
<1>4. CASE \E d \in Docs : CallIsLost(d) \/ SolicitationIsLost(d)
  BY <1>4, CallIsLostKeeps, SolicitationIsLostKeeps
<1>5. CASE UNCHANGED vars
  BY <1>5, StutterKeeps
<1> QED BY <1>1, <1>2, <1>3, <1>4, <1>5 DEF Next

\* The inductive invariant holds of every state of the specification.
THEOREM Inductive == Spec => []IInv
<1>1. Init => IInv
  BY InitKeeps
<1>2. IInv /\ [Next]_vars => IInv'
  BY StepKeepsIInv
<1> QED BY <1>1, <1>2, PTL DEF Spec

\* Every variable keeps its type, whatever the register, the cloud, the tax authority and
\* the network do.
THEOREM TypeCorrect == Spec => []TypeOK
<1>1. IInv => TypeOK
  BY DEF IInv
<1> QED BY <1>1, Inductive, PTL

\* The register never reserves a number with a gap below it: each one is at most the
\* number after the last voucher of the tax authority.
THEOREM NoGap == Spec => []SeriesHasNoGap
<1>1. IInv => SeriesHasNoGap
  BY NumbersAreReached DEF SeriesHasNoGap
<1> QED BY <1>1, Inductive, PTL

\* A document with an outcome, whose request the cloud claims a voucher for, is authorized.
LEMMA ClaimedIsAuthorized ==
    ASSUME IInv, NEW d \in Docs, Claims(d), doc[d].state \notin Unresolved
    PROVE  doc[d].state = "AUTHORIZED"
<1>1. doc[d].state \in States /\ d \in DocId
  BY Typed DEF IInv
<1>2. doc[d].state \notin {"REJECTED", "RELEASED", "CONFLICTING"}
  BY <1>1 DEF IInv, Told, Decided, Claims
<1> QED BY <1>1, <1>2 DEF States, Consuming

\* What became of a sale and what the cloud counts never part: two documents whose
\* vouchers the cloud claims are of different numbers and of different sales.
THEOREM ClaimedByOne == Spec => []ClaimedOnce
<1>1. ASSUME IInv, NEW d \in Recorded, NEW e \in Recorded, Claims(d), Claims(e), d < e
      PROVE  doc[d].number < doc[e].number /\ doc[d].sale # doc[e].sale
  <2>1. d \in Docs /\ e \in Docs
    BY <1>1 DEF IInv, TypeOK
  <2>2. doc[d].state = "AUTHORIZED"
    BY <1>1, <2>1, ClaimedIsAuthorized DEF IInv, Series
  <2> QED BY <1>1, <2>1, <2>2 DEF IInv, Series, Consuming
<1>2. ASSUME IInv PROVE ClaimedOnce
  <2> SUFFICES ASSUME NEW d \in Recorded, NEW e \in Recorded, Claims(d), Claims(e), d # e
               PROVE  doc[d].number # doc[e].number /\ doc[d].sale # doc[e].sale
    BY DEF ClaimedOnce
  <2>1. d \in Nat /\ e \in Nat /\ doc[d].number \in Nat /\ doc[e].number \in Nat
    <3>1. d \in Docs /\ e \in Docs
      BY <1>2 DEF IInv, TypeOK
    <3> QED BY <1>2, <3>1, Typed DEF IInv
  <2>2. CASE d < e
    BY <1>1, <1>2, <2>1, <2>2
  <2>3. CASE e < d
    BY <1>1, <1>2, <2>1, <2>3
  <2> QED BY <2>1, <2>2, <2>3
<1> QED BY <1>2, Inductive, PTL

\* Of two documents of one sale, the tax authority has no voucher of the earlier one, as
\* long as no solicitation outlives the settling delay.
LEMMA EarlierHasNoVoucher ==
    ASSUME IInv, late = 0, NEW d \in Docs, NEW e \in Docs, d < e, doc[d].sale = doc[e].sale
    PROVE  \A n \in DOMAIN arca : arca[n].doc # d
<1>1. doc[d].state \in States /\ doc[d].state \notin Unresolved /\ doc[d].state # "AUTHORIZED"
  BY Typed DEF IInv, Series
<1>2. doc[d].state \in {"REJECTED", "RELEASED", "CONFLICTING"}
  BY <1>1 DEF States, Consuming
<1>3. req[d].decision \in {"released", "conflicting"} \/ req[d].answer = "rejected"
  BY <1>2 DEF IInv, Told
<1> QED BY <1>3 DEF IInv, Voided

\* However the calls were lost and retried, the tax authority never holds two invoices of
\* one sale, as long as no solicitation outlives the settling delay.
THEOREM OneInvoice == Spec => []InvoicedOnce
<1>1. ASSUME IInv PROVE InvoicedOnce
  <2> SUFFICES ASSUME late = 0, NEW m \in DOMAIN arca, NEW n \in DOMAIN arca,
                      arca[m].doc # 0, arca[n].doc # 0,
                      doc[arca[m].doc].sale = doc[arca[n].doc].sale
               PROVE  m = n
    BY DEF InvoicedOnce
  <2>1. PICK d \in Docs, e \in Docs : d = arca[m].doc /\ e = arca[n].doc
    BY <1>1, Typed DEF IInv
  <2>2. d \in Nat /\ e \in Nat /\ doc[d].sale = doc[e].sale
    BY <1>1, <2>1, Typed DEF IInv
  <2>3. ~(d < e) /\ ~(e < d)
    BY <1>1, <2>1, <2>2, EarlierHasNoVoucher
  <2>4. d = e
    BY <2>2, <2>3
  <2>5. doc[arca[m].doc].number = m /\ doc[arca[n].doc].number = n
    BY <1>1 DEF IInv, Solicited
  <2> QED BY <2>1, <2>4, <2>5
<1> QED BY <1>1, Inductive, PTL

\* The register holds an invoice only if the cloud counts it, and what the cloud counts the
\* register holds, or has not been told of yet.
THEOREM Agrees == Spec => []RegisterAgrees
<1>1. ASSUME IInv PROVE RegisterAgrees
  <2>1. \A d \in Docs : doc[d].state = "AUTHORIZED" => Claims(d)
    BY <1>1 DEF IInv, Told
  <2>2. \A d \in Docs : Claims(d) => doc[d].state \in {"AUTHORIZED"} \union Unresolved
    BY <1>1, ClaimedIsAuthorized
  <2> QED BY <2>1, <2>2 DEF RegisterAgrees
<1> QED BY <1>1, Inductive, PTL

\* The count never passes over a number: each one is a document's of the register, has a
\* request that its voucher matches behind it, or is somebody's to invoice outside.
THEOREM CountAccounted == Spec => []CountedIsAccounted
<1>1. IInv => CountedIsAccounted
  BY DEF IInv, Accounts, Accounted, CountedIsAccounted
<1> QED BY <1>1, Inductive, PTL

\* No sale completed is forgotten, and none is taken for satisfied without its invoice.
THEOREM NobodyLost == Spec => []NoSaleForgotten
<1>1. IInv => NoSaleForgotten
  BY DEF IInv
<1> QED BY <1>1, Inductive, PTL


-----------------------------------------------------------------------------
(* The register and the cloud implement FiscalVerdicts *)

\* The state a document takes at the register is the verdict on it.
StatesAreVerdicts == \A d \in Docs : doc[d].state \notin Unresolved => doc[d].state = VerdictOn(d)

LEMMA LearnedIsGiven == IInv => StatesAreVerdicts
<1> SUFFICES ASSUME IInv, NEW d \in Docs, doc[d].state \notin Unresolved
             PROVE  doc[d].state = VerdictOn(d)
  BY DEF StatesAreVerdicts
<1>1. d \in DocId /\ doc[d].state \in {"AUTHORIZED", "REJECTED", "RELEASED", "CONFLICTING"}
  BY Typed DEF IInv, States, Consuming
<1>2. req[d].decision # "none" => req[d].answer \in {"not_attempted", "unclear"}
  BY <1>1 DEF IInv, Decided
<1> QED BY <1>1, <1>2 DEF IInv, Told, VerdictOn, Claims

\* What the cloud and the register know, as FiscalVerdicts reads it.
Given == [d \in DocId |-> VerdictOn(d)]
Known == [d \in DocId |-> IF d \in Docs \ InState(Unresolved) THEN doc[d].state ELSE "none"]
Sales == [d \in Docs |-> doc[d].sale]

LEMMA SameRegister ==
    ASSUME UNCHANGED doc PROVE UNCHANGED <<Known, Sales>>
BY DEF Known, Sales, Docs, InState

LEMMA SameVerdicts ==
    ASSUME \A d \in DocId : req'[d].answer = req[d].answer /\ req'[d].decision = req[d].decision
    PROVE  UNCHANGED Given
BY DEF Given, VerdictOn, Claims

\* A request that was neither answered nor decided has no verdict, and gets at most one.
LEMMA OneVerdict ==
    ASSUME IInv, NEW d \in Docs, req[d].decision = "none", req[d].answer \notin {"authorized", "rejected"},
           \A e \in DocId \ {d} : req'[e] = req[e], UNCHANGED doc
    PROVE  Abstract!GiveVerdict(d) \/ UNCHANGED Abstract!vars
<1>1. d \in DocId /\ Given[d] = "none"
  BY Typed DEF IInv, Given, VerdictOn, Claims
<1>2. \A e \in DocId \ {d} : VerdictOn(e)' = VerdictOn(e)
  BY DEF VerdictOn, Claims
<1>3. PICK v \in {"AUTHORIZED", "REJECTED", "RELEASED", "CONFLICTING", "none"} : VerdictOn(d)' = v
  BY DEF VerdictOn
<1>4. Given' = [Given EXCEPT ![d] = v]
  BY <1>1, <1>2, <1>3 DEF Given
<1>5. UNCHANGED <<Known, Sales>>
  BY SameRegister
<1>6. CASE v = "none"
  <2>1. UNCHANGED Given
    BY <1>1, <1>4, <1>6 DEF Given
  <2> QED BY <1>5, <2>1 DEF Abstract!vars, Given, Known, Sales
<1>7. CASE v \in Abstract!Verdicts
  BY <1>1, <1>4, <1>5, <1>7 DEF Abstract!GiveVerdict, Given, Known, Sales
<1> QED BY <1>3, <1>6, <1>7 DEF Abstract!Verdicts

\* A document that is settled takes its verdict.
LEMMA SettlingLearns ==
    ASSUME IInv, StatesAreVerdicts', NEW d \in InState(Unresolved), NEW state \in States,
           Settle(d, state), UNCHANGED req
    PROVE  Abstract!Learn(d) \/ UNCHANGED Abstract!vars
<1>1. /\ Docs' = Docs /\ d \in Docs /\ d \in DocId
      /\ \A e \in Docs : /\ doc'[e].sale = doc[e].sale
                         /\ doc'[e].state = IF e = d THEN state ELSE doc[e].state
  BY Settled, Typed DEF IInv
<1>2. UNCHANGED Given /\ \A e \in DocId : VerdictOn(e)' = VerdictOn(e)
  BY DEF Given, VerdictOn, Claims
<1>3. UNCHANGED Sales
  BY <1>1 DEF Sales
<1>4. Known[d] = "none"
  BY <1>1 DEF Known
<1>5. CASE state \in Unresolved
  <2>1. UNCHANGED Known
    BY <1>1, <1>4, <1>5 DEF Known, InState
  <2> QED BY <1>2, <1>3, <2>1 DEF Abstract!vars, Given, Known, Sales
<1>6. CASE state \notin Unresolved
  <2>1. state = Given[d] /\ state # "none"
    BY <1>1, <1>2, <1>6 DEF StatesAreVerdicts, Given, States, Consuming
  <2>2. Known' = [Known EXCEPT ![d] = Given[d]]
    BY <1>1, <1>6, <2>1 DEF Known, InState
  <2>3. UNCHANGED <<Given, Sales>>
    BY <1>2, <1>3
  <2> QED BY <1>1, <1>4, <2>1, <2>2, <2>3 DEF Abstract!Learn, Given, Known, Sales
<1> QED BY <1>5, <1>6

\* A document is reserved when all the verdicts before are known, for a sale without an invoice.
LEMMA ReservingReserves ==
    ASSUME IInv, NEW s \in Sale, Reserve(s), SeriesOpen, ~HoldsAuthorized(s), UNCHANGED req
    PROVE  Abstract!Reserve(s)
<1> DEFINE new == Len(doc) + 1
<1>1. /\ Len(doc) \in Nat /\ Docs = 1..Len(doc) /\ Docs \subseteq DocId /\ Len(doc) < MaxDocs
      /\ \A d \in Docs : doc[d].sale \in Sale /\ doc[d].state \in States
  BY Typed DEF IInv, Reserve
<1>2. /\ Docs' = Docs \union {new} /\ new \notin Docs
      /\ \A d \in Docs : doc'[d] = doc[d]
      /\ doc'[new].sale = s /\ doc'[new].state = "REQUESTING"
  BY Added
<1>3. \A d \in Docs : doc[d].state \notin Unresolved
  BY DEF SeriesOpen, InState
<1>4. Sales \in Seq(Sale) /\ Len(Sales) = Len(doc) /\ DOMAIN Sales = Docs
  BY <1>1 DEF Sales
<1>5. Sales' = Append(Sales, s)
  <2>1. /\ Append(Sales, s) \in Seq(Sale) /\ Len(Append(Sales, s)) = Len(doc) + 1
        /\ \A d \in Docs : Append(Sales, s)[d] = doc[d].sale
        /\ Append(Sales, s)[Len(doc) + 1] = s
    <3>1. \A d \in Docs : Sales[d] = doc[d].sale
      BY DEF Sales
    <3> QED BY <1>1, <1>4, <3>1, AppendProperties
  <2>2. Docs' = 1..(Len(doc) + 1)
    BY <1>1, <1>2
  <2>3. Sales' \in Seq(Sale) /\ Len(Sales') = Len(doc) + 1
    <3>1. \A d \in Docs' : doc'[d].sale \in Sale
      BY <1>1, <1>2
    <3> QED BY <1>1, <2>2, <3>1 DEF Sales
  <2>4. \A d \in 1..(Len(doc) + 1) : Sales'[d] = Append(Sales, s)[d]
    BY <1>1, <1>2, <2>1, <2>2 DEF Sales
  <2> QED BY <1>1, <2>1, <2>3, <2>4, SeqEqual
<1>6. UNCHANGED Known
  BY <1>1, <1>2, <1>3 DEF Known, InState, Unresolved
<1>7. UNCHANGED Given
  BY SameVerdicts
<1>8. \A d \in Docs : Known[d] # "none" /\ ~(Sales[d] = s /\ Known[d] = "AUTHORIZED")
  BY <1>1, <1>3 DEF Known, Sales, InState, HoldsAuthorized, States, Unresolved, Consuming
<1> QED BY <1>1, <1>4, <1>5, <1>6, <1>7, <1>8 DEF Abstract!Reserve, Given, Known, Sales

\* The actions that give or learn a verdict.
LEMMA RequestsGetOneVerdict ==
    ASSUME IInv,
           \/ \E d \in Docs : StartAuthorize(d) \/ DecideStart(d)
           \/ NotAttempted \/ FinishAuthorize \/ DecideVoucher \/ DecideLastAuthorized
    PROVE  (\E d \in Docs : Abstract!GiveVerdict(d)) \/ UNCHANGED Abstract!vars
<1>1. UNCHANGED doc
  BY DEF StartAuthorize, DecideStart, NotAttempted, FinishAuthorize, DecideVoucher,
         DecideLastAuthorized, RecordAnswer, registerVars
<1>2. UNCHANGED req => UNCHANGED Abstract!vars
  <2> SUFFICES ASSUME UNCHANGED req PROVE UNCHANGED Abstract!vars
    OBVIOUS
  <2>1. UNCHANGED <<Given, Known, Sales>>
    BY <1>1, SameRegister, SameVerdicts
  <2> QED BY <2>1 DEF Abstract!vars, Given, Known, Sales
<1>3. req \in [DocId -> [answer : Answers \union {"unrecorded"}, conflict : BOOLEAN,
                         decision : Decisions, diagnosed : BOOLEAN]]
  BY DEF IInv, TypeOK
<1>4. ASSUME NEW d \in Docs, req[d].decision = "none", req[d].answer \notin {"authorized", "rejected"},
             \A e \in DocId \ {d} : req'[e] = req[e]
      PROVE  Abstract!GiveVerdict(d) \/ UNCHANGED Abstract!vars
  BY <1>1, <1>4, OneVerdict
<1>5. ASSUME NEW d \in Docs, StartAuthorize(d)
      PROVE  (\E e \in Docs : Abstract!GiveVerdict(e)) \/ UNCHANGED Abstract!vars
  <2>1. CASE req[d].answer # "unrecorded"
    BY <1>2, <1>5, <2>1 DEF StartAuthorize
  <2>2. CASE req[d].answer = "unrecorded"
    <3>1. req[d].decision = "none"
      BY <2>2, Typed DEF IInv, Decided
    <3>2. \A e \in DocId \ {d} : req'[e] = req[e]
      BY <1>3, <1>5, <2>2 DEF StartAuthorize
    <3> QED BY <1>4, <2>2, <3>1, <3>2
  <2> QED BY <2>1, <2>2
<1>6. ASSUME NEW d \in Docs, DecideStart(d)
      PROVE  (\E e \in Docs : Abstract!GiveVerdict(e)) \/ UNCHANGED Abstract!vars
  <2>1. CASE ~AwaitsDecision(d)
    BY <1>2, <1>6, <2>1 DEF DecideStart
  <2>2. CASE AwaitsDecision(d)
    <3>1. req[d].decision = "none" /\ req[d].answer \notin {"authorized", "rejected"}
      BY <2>2 DEF AwaitsDecision
    <3>2. \A e \in DocId \ {d} : req'[e] = req[e]
      BY <1>3, <1>6, <2>2 DEF DecideStart, RecordDecision
    <3> QED BY <1>4, <3>1, <3>2
  <2> QED BY <2>1, <2>2
<1>7. CASE NotAttempted \/ FinishAuthorize \/ DecideVoucher \/ DecideLastAuthorized
  <2>1. PICK d \in Docs : d = lane.doc
    BY <1>7 DEF IInv, Works, NotAttempted, FinishAuthorize, DecideVoucher, DecideLastAuthorized
  <2>2. req[d].decision = "none" /\ req[d].answer \notin {"authorized", "rejected"}
    BY <1>7, <2>1, DecidingUnclear
       DEF IInv, Works, NotAttempted, FinishAuthorize, DecideVoucher, DecideLastAuthorized
  <2>3. \A e \in DocId \ {d} : req'[e] = req[e]
    BY <1>3, <1>7, <2>1 DEF NotAttempted, FinishAuthorize, DecideVoucher, DecideLastAuthorized,
                            RecordAnswer, RecordDecision
  <2> QED BY <1>4, <2>2, <2>3
<1> QED BY <1>5, <1>6, <1>7

LEMMA RegisterLearns ==
    ASSUME IInv, StatesAreVerdicts',
           (\E d \in Docs : ResolveCall(d) \/ AskOutcome(d)) \/ RestartRegister
    PROVE  \/ \E d \in Docs : Abstract!GiveVerdict(d) \/ Abstract!Learn(d)
           \/ UNCHANGED Abstract!vars
<1>1. ASSUME UNCHANGED <<doc, req>> PROVE UNCHANGED Abstract!vars
  <2>1. UNCHANGED <<Given, Known, Sales>>
    BY <1>1, SameRegister, SameVerdicts
  <2> QED BY <2>1 DEF Abstract!vars, Given, Known, Sales
<1>2. ASSUME NEW d \in InState(Unresolved), NEW state \in States, Settle(d, state), UNCHANGED req
      PROVE  d \in Docs /\ (Abstract!Learn(d) \/ UNCHANGED Abstract!vars)
  BY <1>2, SettlingLearns DEF InState
<1>3. /\ \A a \in Answers : StateOfAnswer(a) \in States
      /\ \A k \in Decisions : StateOfDecision(k) \in States
  BY DEF Answers, Decisions, StateOfAnswer, StateOfDecision, States, Unresolved, Consuming
<1>4. reply \in Answers /\ "unclear" \in Answers
  BY DEF IInv, TypeOK, Answers
<1>5. ASSUME NEW d \in Docs, ResolveCall(d)
      PROVE  (\E e \in Docs : Abstract!Learn(e)) \/ UNCHANGED Abstract!vars
  <2>1. d \in InState(Unresolved) /\ UNCHANGED req
    BY <1>5 DEF ResolveCall, InState, Unresolved, cloudVars
  <2>2. PICK a \in Answers : Settle(d, StateOfAnswer(a))
    BY <1>4, <1>5 DEF ResolveCall
  <2> QED BY <1>2, <1>3, <2>1, <2>2
<1>6. CASE RestartRegister
  <2>1. UNCHANGED req
    BY <1>6 DEF RestartRegister, cloudVars
  <2>2. CASE UNCHANGED doc
    BY <1>1, <2>1, <2>2
  <2>3. ASSUME NEW d \in InState({"REQUESTING"}), Settle(d, StateOfAnswer("unclear"))
        PROVE  (\E e \in Docs : Abstract!Learn(e)) \/ UNCHANGED Abstract!vars
    <3>1. d \in InState(Unresolved)
      BY DEF InState, Unresolved
    <3> QED BY <1>2, <1>3, <1>4, <2>1, <2>3, <3>1
  <2> QED BY <1>6, <2>2, <2>3 DEF RestartRegister
<1>7. ASSUME NEW d \in Docs, AskOutcome(d)
      PROVE  \/ \E e \in Docs : Abstract!GiveVerdict(e) \/ Abstract!Learn(e)
             \/ UNCHANGED Abstract!vars
  <2>1. d \in InState(Unresolved) /\ d \in DocId
    BY <1>7, Typed DEF AskOutcome, InState, Unresolved, IInv
  <2>2. CASE req[d].answer = "unrecorded" /\ req' = [req EXCEPT ![d].answer = "unclear"] /\ UNCHANGED doc
    <3>1. req[d].decision = "none"
      BY <2>1, <2>2 DEF IInv, Decided
    <3>2. \A e \in DocId \ {d} : req'[e] = req[e]
      BY <2>2 DEF IInv, TypeOK
    <3>3. Abstract!GiveVerdict(d) \/ UNCHANGED Abstract!vars
      BY <2>2, <3>1, <3>2, OneVerdict
    <3> QED BY <3>3
  <2>3. CASE req[d].answer \in {"authorized", "rejected"} /\ Settle(d, StateOfAnswer(req[d].answer)) /\ UNCHANGED req
    <3>1. StateOfAnswer(req[d].answer) \in States
      BY <1>3, <2>3 DEF Answers
    <3> QED BY <1>2, <2>1, <2>3, <3>1
  <2>4. CASE Settle(d, StateOfDecision(req[d].decision)) /\ UNCHANGED req
    <3>1. StateOfDecision(req[d].decision) \in States
      BY <1>3, RequestTyped
    <3> QED BY <1>2, <2>1, <2>4, <3>1
  <2> QED BY <1>7, <2>2, <2>3, <2>4 DEF AskOutcome
<1> QED BY <1>5, <1>6, <1>7

LEMMA RegisterReserves ==
    ASSUME IInv, CatchUp \/ \E s \in Sale : CompleteReserving(s)
    PROVE  \E s \in Sale : Abstract!Reserve(s)
<1>1. UNCHANGED req
  BY DEF CatchUp, CompleteReserving, cloudVars
<1>2. CASE CatchUp
  <2>1. PICK i \in DOMAIN sold : sold[i] \in Backlog /\ Reserve(sold[i])
    BY <1>2 DEF CatchUp
  <2>2. PICK s \in Sale : s = sold[i]
    BY Typed DEF IInv
  <2>3. Reserve(s) /\ SeriesOpen /\ ~HoldsAuthorized(s)
    BY <1>2, <2>1, <2>2 DEF CatchUp, Backlog
  <2> QED BY <1>1, <2>3, ReservingReserves
<1>3. ASSUME NEW s \in Sale, CompleteReserving(s) PROVE Abstract!Reserve(s)
  <2>1. \A d \in Docs : doc[d].sale # s
    BY <1>3 DEF CompleteReserving, Complete, IInv, Series
  <2>2. ~HoldsAuthorized(s)
    BY <2>1 DEF HoldsAuthorized, InState
  <2> QED BY <1>1, <1>3, <2>2, ReservingReserves DEF CompleteReserving
<1> QED BY <1>2, <1>3

LEMMA StepImplementsFiscalVerdicts ==
    ASSUME IInv, StatesAreVerdicts', [Next]_vars
    PROVE  [Abstract!Next]_(Abstract!vars)
<1>1. DOMAIN Sales = Docs
  BY DEF Sales
<1>2. CASE CatchUp \/ \E s \in Sale : CompleteReserving(s)
  BY <1>2, RegisterReserves DEF Abstract!Next
<1>3. ASSUME \/ \E d \in Docs : Abstract!GiveVerdict(d) \/ Abstract!Learn(d)
             \/ UNCHANGED Abstract!vars
      PROVE  [Abstract!Next]_(Abstract!vars)
  BY <1>1, <1>3 DEF Abstract!Next, Sales
<1>4. CASE \/ \E d \in Docs : StartAuthorize(d) \/ DecideStart(d)
           \/ NotAttempted \/ FinishAuthorize \/ DecideVoucher \/ DecideLastAuthorized
  <2>1. (\E d \in Docs : Abstract!GiveVerdict(d)) \/ UNCHANGED Abstract!vars
    BY <1>4, RequestsGetOneVerdict
  <2> QED BY <1>3, <2>1
<1>5. CASE (\E d \in Docs : ResolveCall(d) \/ AskOutcome(d)) \/ RestartRegister
  <2>1. \/ \E d \in Docs : Abstract!GiveVerdict(d) \/ Abstract!Learn(d)
        \/ UNCHANGED Abstract!vars
    BY <1>5, RegisterLearns
  <2> QED BY <1>3, <2>1
<1>6. ASSUME UNCHANGED doc,
             \A d \in DocId : req'[d].answer = req[d].answer /\ req'[d].decision = req[d].decision
      PROVE  UNCHANGED Abstract!vars
  <2>1. UNCHANGED <<Given, Known, Sales>>
    BY <1>6, SameRegister, SameVerdicts
  <2> QED BY <2>1 DEF Abstract!vars, Given, Known, Sales
<1>7. ASSUME NEW d \in Docs, Diagnose(d) PROVE UNCHANGED Abstract!vars
  <2>1. req' = [req EXCEPT ![d].diagnosed = TRUE] /\ UNCHANGED doc
    BY <1>7 DEF Diagnose, registerVars
  <2>2. \A e \in DocId : req'[e].answer = req[e].answer /\ req'[e].decision = req[e].decision
    BY <2>1, RequestTyped
  <2> QED BY <1>6, <2>1, <2>2
<1>8. CASE UNCHANGED <<doc, req>>
  BY <1>6, <1>8
<1>9. \/ CatchUp \/ \E s \in Sale : CompleteReserving(s)
      \/ \E d \in Docs : StartAuthorize(d) \/ DecideStart(d)
      \/ NotAttempted \/ FinishAuthorize \/ DecideVoucher \/ DecideLastAuthorized
      \/ \E d \in Docs : ResolveCall(d) \/ AskOutcome(d) \/ Diagnose(d)
      \/ RestartRegister
      \/ UNCHANGED <<doc, req>>
  BY DEF Next, Progress, Pull, Solicit, Reconcile, SettlingDelayPasses, ArcaProcesses, DecideNoAnswer,
         LaneIsLost, InvoicedElsewhere, CompleteAside, CallIsLost, SolicitationIsLost, vars,
         registerVars, cloudVars
<1> QED BY <1>2, <1>4, <1>5, <1>7, <1>8, <1>9

\* Whatever calls, answers and workers are lost, and whoever else invoices from the point of
\* sale, the register and the cloud implement FiscalVerdicts: one verdict on each document, the
\* same at both, before the next document is reserved.
THEOREM AgreeingImplementsFiscalVerdicts == Spec => ImplementsFiscalVerdicts
<1>1. Init => Abstract!Init
  <2> SUFFICES ASSUME Init PROVE Abstract!Init
    OBVIOUS
  <2>1. doc = <<>> /\ Docs = {}
    BY DEF Init, Docs
  <2>2. Sales = <<>>
    BY <2>1 DEF Sales
  <2>3. Known = [d \in DocId |-> "none"]
    BY <2>1 DEF Known
  <2>4. Given = [d \in DocId |-> "none"]
    BY DEF Init, Given, VerdictOn, Claims, Unrecorded
  <2> QED BY <2>2, <2>3, <2>4 DEF Abstract!Init, Sales, Known, Given, DocId
<1>2. IInv /\ StatesAreVerdicts' /\ [Next]_vars => [Abstract!Next]_(Abstract!vars)
  BY StepImplementsFiscalVerdicts
<1> QED BY <1>1, <1>2, LearnedIsGiven, Inductive, PTL
        DEF Spec, ImplementsFiscalVerdicts, Abstract!Spec
=============================================================================
