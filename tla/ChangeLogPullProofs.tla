------------------------- MODULE ChangeLogPullProofs -------------------------
(***************************************************************************)
(* Theorems about ChangeLogPull, for any rows, writers, page size and      *)
(* bounds.                                                                 *)
(*                                                                         *)
(* What the register and the page under way reached of the log is settled: *)
(* no number below it is still to be committed (Horizon).  A version read  *)
(* after that is therefore as late as every change reached (Fresh), and    *)
(* stays so while writers go on, until it is in the replica.               *)
(***************************************************************************)
EXTENDS ChangeLogPull, LeastElements

USE EntitiesAssumption, BoundsAssumption

-----------------------------------------------------------------------------
(* The inductive invariant *)

\* What the transactions under way wrote, and what they logged of it.
Transactions ==
    /\ \A v, w \in Writers : writer[v] = "logging" /\ writer[w] = "logging" => v = w
    /\ \A w \in Writers :
          /\ IsFiniteSet(written[w])
          /\ writer[w] = "idle" => written[w] = {}
          /\ writer[w] = "writing" => written[w] # {}
          /\ writer[w] # "logging" => numbered[w] = {}
    /\ \A v, w \in Writers : \A x \in written[v], y \in written[w] :
          x.entity = y.entity => v = w /\ x = y
    /\ \A w \in Writers : \A x \in written[w] :
          /\ x.version = row[x.entity] + 1
          /\ row[x.entity] > 0 \/ x.entity \notin EntitiesOf(log)
          /\ writer[w] = "logging" =>
                /\ x.version <= lastSeq
                /\ \E c \in numbered[w] : c.entity = x.entity /\ c.version = x.version
    /\ \A w \in Writers : \A c \in numbered[w] :
          \E x \in written[w] : x.entity = c.entity /\ x.version = c.version

\* Numbers are unique, and those under the log's lock are above the committed ones.
Numbers ==
    /\ \A c, d \in log : c.seq = d.seq => c = d
    /\ \A c \in log : c.seq <= lastSeq
    /\ \A w \in Writers : \A c \in numbered[w] :
          /\ c.seq <= lastSeq
          /\ \A d \in numbered[w] : c.seq = d.seq => c = d
          /\ \A d \in log : d.seq < c.seq

Logs(e, version) == \E c \in log : c.entity = e /\ c.version >= version

\* The log tells the version of each row, and versions only grow.
Versions ==
    /\ \A e \in Entity : row[e] <= lastSeq /\ (row[e] > 0 => Logs(e, row[e]))
    /\ \A c \in log : row[c.entity] = 0 \/ c.version <= row[c.entity]

\* Numbers that the register, or the page under way, reached.
Reached(n) ==
    \/ n <= cursor \/ n <= since \/ n <= answer.cursor
    \/ \E k \in Kind : n <= redeliveryCursor[k]
    \/ \E d \in logged : n <= d.seq

\* No number that may still be committed was reached.
Horizon ==
    /\ \A n \in Seq0 : Reached(n) => n <= lastSeq
    /\ \A w \in Writers : \A d \in numbered[w] : ~Reached(d.seq)

\* A version of a row as it was read after everything that was reached.
Fresh(e, version) ==
    /\ \A c \in log : c.entity = e /\ Reached(c.seq) => c.version <= version
    /\ Logs(e, version) /\ replica[e].version <= version
    /\ row[e] = 0 => Logs(e, version + 1)

Deleted(e) == row[e] = 0 /\ e \in EntitiesOf(log)

\* What the feed serves of the changes that were reached, after the page's cursor.
Due(c) == Reached(c.seq) /\ c.seq > since /\ Served(c.entity)

PageRead ==
    /\ pc # "reading" => logged = {} /\ pending = {} /\ found = Nothing /\ parts = Nothing
    /\ logged \subseteq log /\ pending \subseteq EntitiesOf(logged)
    /\ \A c \in logged : c.seq > since
    /\ pc = "reading" =>
          \A c \in log : Due(c) =>
             \/ c \in logged
             \/ First(PageSize, logged) # logged /\ \A d \in logged : d.seq < c.seq
    /\ \A e \in Entity : found[e] > 0 => Fresh(e, found[e])
    /\ \A e \in EntitiesOf(logged) \ pending : found[e] > 0 \/ Deleted(e)

PartsRead ==
    \A e \in Entity :
        /\ found[e] = 0 => parts[e] = 0
        /\ found[e] > 0 =>
              \/ parts[e] = found[e]
              \/ parts[e] = 0 /\ e \in Compound /\ row[e] = found[e] /\ ~RowLocked(e)

ItemTrue(i) ==
    IF i.removed
    THEN /\ Deleted(i.entity) /\ i.version > 0 /\ Logs(i.entity, i.version)
         /\ \A c \in log : c.entity = i.entity => c.version <= i.version
    ELSE i.version > 0 /\ i.parts = i.version /\ Fresh(i.entity, i.version)

Answered ==
    /\ pc # "answered" => answer = NoAnswer
    /\ \A i \in answer.items :
          ItemTrue(i) /\ \E c \in log : c.entity = i.entity /\ c.seq <= answer.cursor
    /\ pc = "answered" =>
          /\ since <= answer.cursor
          /\ \A c \in log : Due(c) /\ c.seq <= answer.cursor =>
                \E i \in answer.items : i.entity = c.entity
          /\ ~answer.more => \A c \in log : Due(c) => c.seq <= answer.cursor

\* Where the register is in its pull.
Asked ==
    /\ pc \in {"asking", "reading", "answered"} =>
          since = IF feed = "pull" THEN cursor ELSE redeliveryCursor[feed]
    /\ pc \in {"asking", "reading", "answered", "redelivered"} /\ feed # "pull" =>
          feed \in redelivering
    /\ pc = "redelivered" =>
          /\ feed # "pull"
          /\ \A c \in log : Reached(c.seq) /\ KindOf[c.entity] = feed =>
                c.seq <= redeliveryCursor[feed]
    /\ redelivering # {} => upgraded
    /\ observed <= cursor /\ \A n \in delayed : n <= cursor

InNewVersion(e) == replica[e].whole \/ replica[e].removed

Replicated ==
    /\ \A e \in Entity :
          /\ replica[e].version > 0 => Logs(e, replica[e].version)
          /\ replica[e].version > 0 /\ ~replica[e].removed /\ row[e] = 0 =>
                Logs(e, replica[e].version + 1)
          /\ ~upgraded \/ replica[e].version = 0 => replica[e].whole
          /\ (~upgraded /\ replica[e].version > 0) \/ ~replica[e].whole =>
                \E c \in log : c.entity = e /\ c.seq <= cursor
    /\ \A c \in log :
          KindOf[c.entity] \in redelivering /\ c.seq <= redeliveryCursor[KindOf[c.entity]] =>
             InNewVersion(c.entity)

IInv ==
    /\ TypeOK /\ Transactions /\ Numbers /\ Versions /\ Horizon
    /\ PageRead /\ PartsRead /\ Answered /\ Asked /\ Replicated
    /\ NothingSkipped /\ NotTorn /\ RedeliveredIsWhole

-----------------------------------------------------------------------------
(* Pages *)

LEMMA SeqsAreNumbers ==
    \A c \in Change : c.seq \in Nat \ {0} /\ c.seq <= MaxSeq /\ c.seq \in Seq0 /\ c.entity \in Entity
                      /\ c.version \in Nat \ {0} /\ c.version <= MaxSeq
BY DEF Change, Seq0

\* A change that comes before one of the first is one of the first.
LEMMA FirstIsPrefix ==
    ASSUME NEW S \in SUBSET Change, IsFiniteSet(S), NEW n \in Nat,
           NEW c \in First(n, S), NEW d \in S, d.seq <= c.seq
    PROVE  d \in First(n, S)
<1> DEFINE Before(x) == {y \in S : y.seq < x.seq}
<1>1. c \in S /\ Cardinality(Before(c)) < n
  BY DEF First
<1>2. Before(d) \subseteq Before(c) /\ Before(c) \subseteq S
  BY <1>1, SeqsAreNumbers
<1>3. IsFiniteSet(Before(c)) /\ Cardinality(Before(c)) \in Nat
  BY <1>2, FS_Subset, FS_CardinalityType
<1>4. Cardinality(Before(d)) <= Cardinality(Before(c)) /\ IsFiniteSet(Before(d))
  BY <1>2, <1>3, FS_Subset
<1>5. Cardinality(Before(d)) \in Nat
  BY <1>4, FS_CardinalityType
<1>6. Cardinality(Before(d)) < n
  <2> HIDE DEF Before
  <2> QED BY <1>1, <1>3, <1>4, <1>5
<1> QED BY <1>6 DEF First

\* When a change is left out, the ones that are read are more than a page.
LEMMA LeftOutMakesMore ==
    ASSUME NEW S \in SUBSET Change, IsFiniteSet(S), NEW n \in Nat \ {0},
           \A x, y \in S : x.seq = y.seq => x = y,
           NEW c \in S, c \notin First(n + 1, S)
    PROVE  First(n, First(n + 1, S)) # First(n + 1, S)
<1> DEFINE F == First(n + 1, S)
           Before(x) == {y \in S : y.seq < x.seq}
           Left == {x.seq : x \in S \ F}
<1>1. F \subseteq S
  BY DEF First
<1>2. PICK least \in Left : \A s \in Left : least <= s
  <2>1. Left \in SUBSET Nat /\ Left # {}
    BY SeqsAreNumbers
  <2> QED BY <2>1, LeastNatural
<1>3. PICK out \in S \ F : out.seq = least
  BY <1>2
<1>4. Before(out) \subseteq F
  <2> SUFFICES ASSUME NEW x \in Before(out), x \notin F PROVE FALSE
    OBVIOUS
  <2>1. x \in S \ F /\ x.seq < out.seq /\ x.seq \in Left
    OBVIOUS
  <2>2. least <= x.seq /\ x.seq \in Nat /\ out.seq \in Nat
    BY <1>2, <1>3, <2>1, SeqsAreNumbers
  <2> QED BY <1>3, <2>1, <2>2
<1>5. IsFiniteSet(Before(out)) /\ Cardinality(Before(out)) \in Nat
  BY FS_Subset, FS_CardinalityType
<1>6. Cardinality(Before(out)) >= n + 1
  <2>1. ~(Cardinality(Before(out)) < n + 1)
    BY <1>3 DEF First
  <2> HIDE DEF Before
  <2> QED BY <1>5, <2>1
<1>7. PICK last \in Before(out) : \A x \in Before(out) : x.seq <= last.seq
  <2> DEFINE Seqs == {x.seq : x \in Before(out)}
  <2>1. Before(out) # {}
    <3> HIDE DEF Before
    <3> QED BY <1>5, <1>6, FS_EmptySet
  <2>2. Seqs \in SUBSET Nat /\ Seqs # {} /\ \A s \in Seqs : s <= MaxSeq
    BY <2>1, SeqsAreNumbers
  <2>3. PICK m \in Seqs : \A s \in Seqs : s <= m
    <3> HIDE DEF Seqs
    <3> QED BY <2>2, GreatestNatural
  <2> QED BY <2>3
<1>8. last \in F
  BY <1>4
<1> DEFINE BeforeLast == {y \in F : y.seq < last.seq}
<1>9. Before(out) \ {last} \subseteq BeforeLast
  BY <1>4, <1>7, SeqsAreNumbers
<1>10. IsFiniteSet(BeforeLast) /\ Cardinality(BeforeLast) \in Nat
  BY <1>1, FS_Subset, FS_CardinalityType
<1>11. Cardinality(Before(out) \ {last}) <= Cardinality(BeforeLast)
  <2> HIDE DEF BeforeLast, Before
  <2> QED BY <1>9, <1>10, FS_Subset
<1>12. Cardinality(Before(out) \ {last}) = Cardinality(Before(out)) - 1
  <2> HIDE DEF Before
  <2> QED BY <1>5, <1>7, FS_RemoveElement
<1>13. ~(Cardinality(BeforeLast) < n)
  <2> HIDE DEF BeforeLast, Before
  <2> QED BY <1>5, <1>6, <1>10, <1>11, <1>12
<1> QED BY <1>8, <1>13 DEF First

\* A cursor is where the page began or the number of its last change.
LEMMA CursorIsLast ==
    ASSUME since \in Seq0, NEW page \in SUBSET Change, \A c \in page : c.seq > since
    PROVE  /\ CursorOf(page) \in Seq0 /\ since <= CursorOf(page)
           /\ \A c \in page : c.seq <= CursorOf(page)
           /\ CursorOf(page) = since \/ \E c \in page : c.seq = CursorOf(page)
<1> DEFINE Seqs == {c.seq : c \in page} \cup {since}
<1>1. Seqs \in SUBSET Nat /\ Seqs # {} /\ \A s \in Seqs : s <= MaxSeq
  BY SeqsAreNumbers DEF Seq0
<1>2. PICK m \in Seqs : \A s \in Seqs : s <= m
  <2> HIDE DEF Seqs
  <2> QED BY <1>1, GreatestNatural
<1>3. CursorOf(page) \in Seqs /\ \A c \in page : c.seq <= CursorOf(page)
  BY <1>2 DEF CursorOf
<1>4. since <= CursorOf(page)
  BY <1>3, SeqsAreNumbers DEF Seq0
<1> QED BY <1>3, <1>4, SeqsAreNumbers

\* latestLoggedVersions returns the version of the last change of a row.
LEMMA LatestIsLogged ==
    ASSUME log \in SUBSET Change, NEW e \in EntitiesOf(log)
    PROVE  /\ LatestLogged(e) \in Nat \ {0} /\ LatestLogged(e) \in Seq0
           /\ \E c \in log : c.entity = e /\ c.version = LatestLogged(e)
           /\ \A c \in log : c.entity = e => c.version <= LatestLogged(e)
<1> DEFINE Own == {c.version : c \in {d \in log : d.entity = e}}
<1>1. Own \in SUBSET Nat /\ Own # {} /\ \A n \in Own : n <= MaxSeq
  BY SeqsAreNumbers DEF EntitiesOf
<1>2. PICK m \in Own : \A n \in Own : n <= m
  <2> HIDE DEF Own
  <2> QED BY <1>1, GreatestNatural
<1>3. /\ m \in Seq0 /\ \E c \in log : c.entity = e /\ c.version = m
      /\ \A c \in log : c.entity = e => c.version <= m
  BY <1>2, SeqsAreNumbers
     DEF Seq0
<1>4. /\ \E c \in log : c.entity = e /\ c.version = LatestLogged(e)
      /\ \A c \in log : c.entity = e => c.version <= LatestLogged(e)
      /\ LatestLogged(e) \in Seq0
  BY <1>3 DEF LatestLogged
<1> QED BY <1>4, SeqsAreNumbers

LEMMA LogIsFinite == ASSUME TypeOK, Numbers PROVE IsFiniteSet(log) /\ log \in SUBSET Change
<1> DEFINE f == [c \in log |-> c.seq]
<1>1. log \in SUBSET Change
  BY DEF TypeOK
<1>2. f \in Injection(log, 1..MaxSeq)
  BY <1>1 DEF Numbers, Change, Injection, IsInjective
<1>3. IsFiniteSet(1..MaxSeq)
  BY FS_Interval
<1>4. IsFiniteSet(log)
  <2> HIDE DEF f
  <2> QED BY <1>2, <1>3, FS_Injection
<1> QED BY <1>1, <1>4

-----------------------------------------------------------------------------
(* The initial state *)

LEMMA InitKeeps == Init => IInv
<1> SUFFICES ASSUME Init PROVE IInv
  OBVIOUS
<1>1. /\ \A e \in Entity : row[e] = 0 /\ found[e] = 0 /\ parts[e] = 0 /\ replica[e] = NoCopy
      /\ \A w \in Writers : writer[w] = "idle" /\ written[w] = {} /\ numbered[w] = {}
      /\ \A k \in Kind : redeliveryCursor[k] = 0
      /\ log = {} /\ logged = {} /\ pending = {} /\ answer = NoAnswer /\ delayed = {}
      /\ cursor = 0 /\ since = 0 /\ lastSeq = 0 /\ observed = 0 /\ pc = "idle" /\ feed = "pull"
      /\ redelivering = {} /\ upgraded = FALSE /\ found = Nothing /\ parts = Nothing
  BY DEF Init, Nothing
<1>2. 0 \in Seq0 /\ NoAnswer \in Answer /\ NoCopy \in Copy
  BY DEF Seq0, NoAnswer, Answer, NoCopy, Copy
<1>3. TypeOK
  BY <1>1, <1>2 DEF Init, TypeOK, Nothing, PcLabels
<1>4. Transactions
  BY <1>1, FS_EmptySet DEF Transactions
<1>5. Numbers /\ Versions /\ NothingSkipped
  BY <1>1 DEF Numbers, Versions, NothingSkipped
<1>6. Horizon
  BY <1>1 DEF Horizon, Reached, Seq0, NoAnswer
<1>7. PageRead /\ PartsRead
  BY <1>1 DEF PageRead, PartsRead, EntitiesOf
<1>8. Answered /\ Asked
  BY <1>1 DEF Answered, Asked, NoAnswer
<1>9. Replicated /\ NotTorn /\ RedeliveredIsWhole
  BY <1>1 DEF Replicated, NotTorn, RedeliveredIsWhole, NoCopy
<1> QED BY <1>3, <1>4, <1>5, <1>6, <1>7, <1>8, <1>9 DEF IInv

-----------------------------------------------------------------------------
(* The writers: their transactions, the numbers and the versions *)

Writing == TypeOK /\ Transactions /\ Numbers /\ Versions

\* What a writer step leaves alone.
PullOnly == <<observed, pageVars, delayed, pc, feed, since, answer, storedVars>>

LEMMA WriteKeepsWriting ==
    ASSUME Writing, NEW w \in Writers, Write(w)
    PROVE  Writing' /\ UNCHANGED <<log, row, lastSeq, numbered, PullOnly>>
<1>1. UNCHANGED <<log, row, lastSeq, numbered, PullOnly>> /\ writer[w] = "idle"
  BY DEF Write, cloudVars, PullOnly
<1>2. PICK es \in SUBSET {e \in Entity : MayBeWritten(e)}, deleted \in SUBSET Removable :
        /\ es # {} /\ lastSeq + Cardinality(es) <= MaxSeq
        /\ written' = [written EXCEPT ![w] =
             {[entity |-> e, version |-> NextVersion(e), kept |-> e \notin deleted] : e \in es}]
  BY DEF Write
<1> DEFINE new == {[entity |-> e, version |-> NextVersion(e), kept |-> e \notin deleted] : e \in es}
<1>3. IsFiniteSet(es) /\ Cardinality(es) \in Nat /\ Cardinality(es) # 0
  BY <1>2, FS_Subset, FS_CardinalityType, FS_EmptySet
<1>4. \A e \in es : /\ e \in Entity /\ MayBeWritten(e) /\ row[e] \in Nat
                    /\ NextVersion(e) = row[e] + 1 /\ NextVersion(e) \in 1..MaxSeq
  BY <1>2, <1>3 DEF Writing, TypeOK, Versions, NextVersion, Seq0
<1>5. new \in SUBSET Written
  <2> SUFFICES ASSUME NEW e \in es
               PROVE  [entity |-> e, version |-> NextVersion(e), kept |-> e \notin deleted]
                         \in Written
    OBVIOUS
  <2>1. e \in Entity /\ NextVersion(e) \in 1..MaxSeq
    BY <1>4
  <2>2. CASE e \in deleted
    <3>1. [entity |-> e, version |-> NextVersion(e), kept |-> FALSE] \in Written
      BY <2>1 DEF Written
    <3>2. (e \notin deleted) = FALSE
      BY <2>2
    <3> QED BY <3>1, <3>2, Zenon
  <2>3. CASE e \notin deleted
    <3>1. [entity |-> e, version |-> NextVersion(e), kept |-> TRUE] \in Written
      BY <2>1 DEF Written
    <3>2. (e \notin deleted) = TRUE
      BY <2>3
    <3> QED BY <3>1, <3>2, Zenon
  <2> QED BY <2>2, <2>3
<1>6. IsFiniteSet(new)
  <2> DEFINE f == [e \in es |->
                     [entity |-> e, version |-> NextVersion(e), kept |-> e \notin deleted]]
  <2>1. f \in Surjection(es, new)
    BY DEF Surjection
  <2> HIDE DEF f, new
  <2> QED BY <1>3, <2>1, FS_Surjection
<1>7. /\ \A x \in new : x.entity \in es /\ x.version = NextVersion(x.entity)
      /\ \A x, y \in new : x.entity = y.entity => x = y
      /\ new # {}
  <2>1. \A x \in new : \E e \in es :
          x = [entity |-> e, version |-> NextVersion(e), kept |-> e \notin deleted]
    OBVIOUS
  <2>2. new # {}
    BY <1>2
  <2> HIDE DEF new
  <2>3. \A x \in new : x.entity \in es /\ x.version = NextVersion(x.entity)
    BY <2>1
  <2>4. \A x, y \in new : x.entity = y.entity => x = y
    <3> SUFFICES ASSUME NEW x \in new, NEW y \in new, x.entity = y.entity PROVE x = y
      OBVIOUS
    <3>1. PICK e \in es :
            x = [entity |-> e, version |-> NextVersion(e), kept |-> e \notin deleted]
      BY <2>1
    <3>2. PICK f \in es :
            y = [entity |-> f, version |-> NextVersion(f), kept |-> f \notin deleted]
      BY <2>1
    <3>3. e = f
      BY <3>1, <3>2
    <3> QED BY <3>1, <3>2, <3>3
  <2> QED BY <2>2, <2>3, <2>4
<1>8. /\ written' = [written EXCEPT ![w] = new] /\ writer' = [writer EXCEPT ![w] = "writing"]
  BY <1>2 DEF Write
<1> HIDE DEF new
<1>9. /\ \A v \in Writers : v # w => written'[v] = written[v] /\ writer'[v] = writer[v]
      /\ written'[w] = new /\ writer'[w] = "writing"
  BY <1>8 DEF Writing, TypeOK
<1>10. TypeOK'
  <2>1. written' \in [Writers -> SUBSET Written] /\ writer' \in [Writers -> {"idle", "writing", "logging"}]
    BY <1>5, <1>8 DEF Writing, TypeOK
  <2> QED BY <1>1, <2>1 DEF Writing, TypeOK, PullOnly, pageVars, storedVars
<1>11. \A v \in Writers : \A x \in written[v] : x.entity \notin es
  BY <1>4 DEF MayBeWritten, RowLocked, EntitiesOf
<1>12. Transactions'
  <2>1. \A u, v \in Writers : writer'[u] = "logging" /\ writer'[v] = "logging" => u = v
    BY <1>9 DEF Writing, Transactions
  <2>2. \A v \in Writers : /\ IsFiniteSet(written'[v])
                           /\ writer'[v] = "idle" => written'[v] = {}
                           /\ writer'[v] = "writing" => written'[v] # {}
                           /\ writer'[v] # "logging" => numbered'[v] = {}
    BY <1>1, <1>6, <1>7, <1>9 DEF Writing, Transactions
  <2>3. \A u, v \in Writers : \A x \in written'[u], y \in written'[v] :
          x.entity = y.entity => u = v /\ x = y
    BY <1>7, <1>9, <1>11 DEF Writing, Transactions
  <2>4. \A v \in Writers : \A x \in written'[v] :
          /\ x.version = row[x.entity] + 1
          /\ row[x.entity] > 0 \/ x.entity \notin EntitiesOf(log)
          /\ writer'[v] = "logging" =>
                /\ x.version <= lastSeq
                /\ \E c \in numbered[v] : c.entity = x.entity /\ c.version = x.version
    BY <1>4, <1>7, <1>9 DEF Writing, Transactions, MayBeWritten
  <2>5. \A v \in Writers : \A c \in numbered'[v] :
          \E x \in written'[v] : x.entity = c.entity /\ x.version = c.version
    BY <1>1, <1>9 DEF Writing, Transactions
  <2> QED BY <1>1, <2>1, <2>2, <2>3, <2>4, <2>5 DEF Transactions, EntitiesOf
<1>13. Numbers' /\ Versions'
  BY <1>1 DEF Writing, Numbers, Versions, Logs
<1> QED BY <1>1, <1>10, <1>12, <1>13 DEF Writing

LEMMA LogChangesKeepsWriting ==
    ASSUME Writing, NEW w \in Writers, LogChanges(w)
    PROVE  /\ Writing' /\ UNCHANGED <<log, row, written, PullOnly>> /\ lastSeq' >= lastSeq
           /\ \A v \in Writers : \A d \in numbered'[v] :
                 d \in numbered[v] \/ d.seq > lastSeq
<1>1. /\ UNCHANGED <<log, row, written, PullOnly>> /\ writer[w] = "writing" /\ ~LogLocked
      /\ writer' = [writer EXCEPT ![w] = "logging"]
  BY DEF LogChanges, PullOnly
<1> DEFINE n == Cardinality(written[w])
<1>2. n \in Nat \ {0}
  <2>1. IsFiniteSet(written[w]) /\ written[w] # {}
    BY <1>1 DEF Writing, Transactions
  <2> QED BY <2>1, FS_CardinalityType, FS_EmptySet
<1>3. /\ lastSeq + n <= MaxSeq /\ lastSeq' = lastSeq + n
      /\ \E number \in [written[w] -> lastSeq + 1 .. lastSeq + n] :
            /\ \A c, d \in written[w] : number[c] = number[d] => c = d
            /\ numbered' = [numbered EXCEPT ![w] =
                 {[seq |-> number[c], entity |-> c.entity, version |-> c.version] : c \in written[w]}]
  BY DEF LogChanges
<1> HIDE DEF n
<1>4. PICK number \in [written[w] -> lastSeq + 1 .. lastSeq + n] :
        /\ \A c, d \in written[w] : number[c] = number[d] => c = d
        /\ numbered' = [numbered EXCEPT ![w] =
             {[seq |-> number[c], entity |-> c.entity, version |-> c.version] : c \in written[w]}]
  BY <1>3
<1> DEFINE new == {[seq |-> number[c], entity |-> c.entity, version |-> c.version] : c \in written[w]}
<1>5. /\ lastSeq \in Nat /\ lastSeq' \in Seq0 /\ lastSeq' > lastSeq
      /\ \A c \in written[w] : /\ number[c] \in 1..MaxSeq /\ number[c] > lastSeq
                               /\ number[c] <= lastSeq'
  BY <1>2, <1>3, <1>4 DEF Writing, TypeOK, Seq0
<1>6. written[w] \in SUBSET Written
  BY DEF Writing, TypeOK
<1>7. new \in SUBSET Change
  BY <1>5, <1>6 DEF Written, Change
<1>8. /\ \A x \in written[w] : \E c \in new : c.entity = x.entity /\ c.version = x.version
      /\ \A c \in new : \E x \in written[w] : c = [seq |-> number[x], entity |-> x.entity,
                                                   version |-> x.version]
  <2>1. ASSUME NEW x \in written[w]
        PROVE  \E c \in new : c.entity = x.entity /\ c.version = x.version
    <3>1. [seq |-> number[x], entity |-> x.entity, version |-> x.version] \in new
      OBVIOUS
    <3> HIDE DEF new
    <3> QED BY <3>1
  <2> QED BY <2>1
<1> HIDE DEF new
<1>9. /\ \A v \in Writers : v # w => numbered'[v] = numbered[v] /\ writer'[v] = writer[v]
      /\ numbered'[w] = new /\ writer'[w] = "logging"
      /\ numbered' = [numbered EXCEPT ![w] = new]
  BY <1>1, <1>4 DEF Writing, TypeOK, new
<1>10. /\ \A c \in new : c.seq > lastSeq /\ c.seq <= lastSeq'
       /\ \A c, d \in new : c.seq = d.seq => c = d
       /\ \A c \in new : \E x \in written[w] : x.entity = c.entity /\ x.version = c.version
  <2>1. \A c \in new : /\ c.seq > lastSeq /\ c.seq <= lastSeq'
                       /\ \E x \in written[w] : x.entity = c.entity /\ x.version = c.version
    BY <1>5, <1>8
  <2>2. \A c, d \in new : c.seq = d.seq => c = d
    <3> SUFFICES ASSUME NEW c \in new, NEW d \in new, c.seq = d.seq PROVE c = d
      OBVIOUS
    <3>1. PICK x \in written[w] : c = [seq |-> number[x], entity |-> x.entity, version |-> x.version]
      BY <1>8
    <3>2. PICK y \in written[w] : d = [seq |-> number[y], entity |-> y.entity, version |-> y.version]
      BY <1>8
    <3>3. x = y
      BY <1>4, <3>1, <3>2
    <3> QED BY <3>1, <3>2, <3>3
  <2> QED BY <2>1, <2>2
<1>11. TypeOK'
  <2>1. numbered' \in [Writers -> SUBSET Change]
    BY <1>7, <1>9 DEF Writing, TypeOK
  <2>2. writer' \in [Writers -> {"idle", "writing", "logging"}]
    BY <1>1 DEF Writing, TypeOK
  <2> QED BY <1>1, <1>5, <2>1, <2>2 DEF Writing, TypeOK, PullOnly, pageVars, storedVars
<1>12. Transactions'
  <2>1. \A u, v \in Writers : writer'[u] = "logging" /\ writer'[v] = "logging" => u = v
    BY <1>1, <1>9 DEF LogLocked
  <2>2. \A v \in Writers : /\ IsFiniteSet(written'[v])
                           /\ writer'[v] = "idle" => written'[v] = {}
                           /\ writer'[v] = "writing" => written'[v] # {}
                           /\ writer'[v] # "logging" => numbered'[v] = {}
    BY <1>1, <1>9 DEF Writing, Transactions
  <2>3. \A u, v \in Writers : \A x \in written'[u], y \in written'[v] :
          x.entity = y.entity => u = v /\ x = y
    BY <1>1 DEF Writing, Transactions
  <2>4. \A x \in written[w] : x.version <= lastSeq'
    <3> SUFFICES ASSUME NEW x \in written[w] PROVE x.version <= lastSeq'
      OBVIOUS
    <3>1. x.entity \in Entity /\ row[x.entity] \in Nat /\ x.version = row[x.entity] + 1
          /\ row[x.entity] <= lastSeq
      BY <1>6 DEF Written, Writing, TypeOK, Transactions, Versions, Seq0
    <3> QED BY <3>1, <1>5 DEF Seq0
  <2>5. \A v \in Writers : \A x \in written'[v] :
          /\ x.version = row'[x.entity] + 1
          /\ row'[x.entity] > 0 \/ x.entity \notin EntitiesOf(log')
          /\ writer'[v] = "logging" =>
                /\ x.version <= lastSeq'
                /\ \E c \in numbered'[v] : c.entity = x.entity /\ c.version = x.version
    <3> SUFFICES ASSUME NEW v \in Writers, NEW x \in written[v]
                 PROVE  /\ x.version = row[x.entity] + 1
                        /\ row[x.entity] > 0 \/ x.entity \notin EntitiesOf(log)
                        /\ writer'[v] = "logging" =>
                              /\ x.version <= lastSeq'
                              /\ \E c \in numbered'[v] :
                                    c.entity = x.entity /\ c.version = x.version
      BY <1>1
    <3>1. CASE v = w
      BY <1>8, <1>9, <2>4, <3>1 DEF Writing, Transactions
    <3>2. CASE v # w
      BY <1>1, <1>9, <3>2 DEF Writing, Transactions, LogLocked
    <3> QED BY <3>1, <3>2
  <2>6. \A v \in Writers : \A c \in numbered'[v] :
          \E x \in written'[v] : x.entity = c.entity /\ x.version = c.version
    BY <1>1, <1>9, <1>10 DEF Writing, Transactions
  <2> QED BY <2>1, <2>2, <2>3, <2>5, <2>6 DEF Transactions, EntitiesOf
<1>13. Numbers'
  <2>1. \A c \in log : c.seq \in Nat /\ c.seq <= lastSeq
    BY SeqsAreNumbers DEF Writing, Numbers, TypeOK
  <2>2. \A v \in Writers : \A c \in numbered'[v] :
          /\ c.seq <= lastSeq'
          /\ \A d \in numbered'[v] : c.seq = d.seq => c = d
          /\ \A d \in log : d.seq < c.seq
    <3> SUFFICES ASSUME NEW v \in Writers, NEW c \in numbered'[v]
                 PROVE  /\ c.seq <= lastSeq'
                        /\ \A d \in numbered'[v] : c.seq = d.seq => c = d
                        /\ \A d \in log : d.seq < c.seq
      OBVIOUS
    <3>1. CASE v = w
      <4>1. c \in new /\ c.seq \in Nat
        BY <1>7, <1>9, <3>1, SeqsAreNumbers
      <4> QED BY <1>5, <1>9, <1>10, <2>1, <3>1, <4>1
    <3>2. CASE v # w
      <4>1. numbered[v] = {}
        BY <1>1, <3>2 DEF Writing, Transactions, LogLocked
      <4> QED BY <1>9, <3>2, <4>1
    <3> QED BY <3>1, <3>2
  <2>3. \A c \in log : c.seq <= lastSeq'
    BY <1>5, <2>1 DEF Seq0
  <2> QED BY <1>1, <2>2, <2>3 DEF Writing, Numbers
<1>14. Versions'
  <2>1. \A e \in Entity : row[e] \in Nat /\ row[e] <= lastSeq
    BY DEF Writing, TypeOK, Versions, Seq0
  <2>2. \A e \in Entity : row[e] <= lastSeq'
    BY <1>5, <2>1 DEF Seq0
  <2> QED BY <1>1, <2>2 DEF Writing, Versions, Logs
<1>15. \A v \in Writers : \A d \in numbered'[v] : d \in numbered[v] \/ d.seq > lastSeq
  BY <1>9, <1>10
<1> QED BY <1>1, <1>5, <1>11, <1>12, <1>13, <1>14, <1>15 DEF Writing, Seq0

\* A row that is committed as a writer left it.
LEMMA CommitRows ==
    ASSUME Writing, NEW w \in Writers, Commit(w)
    PROVE  /\ \A x \in written[w] : row'[x.entity] = IF x.kept THEN x.version ELSE 0
           /\ \A e \in Entity : RowLocked(e) \/ row'[e] = row[e]
           /\ \A e \in Entity : row'[e] = row[e] \/ \E x \in written[w] : x.entity = e
           /\ row' \in [Entity -> Seq0]
<1>1. row' = [e \in Entity |->
            IF \E c \in written[w] : c.entity = e
            THEN LET c == CHOOSE d \in written[w] : d.entity = e
                 IN  IF c.kept THEN c.version ELSE 0
            ELSE row[e]]
  BY DEF Commit
<1>2. written[w] \in SUBSET Written
  BY DEF Writing, TypeOK
<1>3. \A x \in written[w] : x.entity \in Entity /\ x.version \in Seq0 /\ 0 \in Seq0
  BY <1>2 DEF Written, Seq0
<1>4. ASSUME NEW x \in written[w]
      PROVE  row'[x.entity] = IF x.kept THEN x.version ELSE 0
  <2> DEFINE c == CHOOSE d \in written[w] : d.entity = x.entity
  <2>1. c \in written[w] /\ c.entity = x.entity
    OBVIOUS
  <2>2. c = x
    <3> HIDE DEF c
    <3> QED BY <2>1 DEF Writing, Transactions
  <2>3. row'[x.entity] = IF c.kept THEN c.version ELSE 0
    BY <1>1, <1>3
  <2> HIDE DEF c
  <2> QED BY <2>2, <2>3
<1>5. \A e \in Entity : row'[e] = row[e] \/ \E x \in written[w] : x.entity = e
  BY <1>1
<1>6. \A e \in Entity : RowLocked(e) \/ row'[e] = row[e]
  BY <1>5 DEF RowLocked, EntitiesOf
<1>7. \A e \in Entity : row'[e] \in Seq0
  <2> SUFFICES ASSUME NEW e \in Entity PROVE row'[e] \in Seq0
    OBVIOUS
  <2>1. CASE row'[e] = row[e]
    BY <2>1 DEF Writing, TypeOK
  <2>2. CASE \E x \in written[w] : x.entity = e
    BY <1>3, <1>4, <2>2
  <2> QED BY <1>5, <2>1, <2>2
<1>8. row' \in [Entity -> Seq0]
  BY <1>1, <1>7
<1> QED BY <1>4, <1>5, <1>6, <1>8

LEMMA EmptiedIsFinite == \A S : S = {} => IsFiniteSet(S)
BY FS_EmptySet

LEMMA TransactionEnds ==
    ASSUME Writing, NEW w \in Writers, EndTransaction(w)
    PROVE  /\ writer'[w] = "idle" /\ written'[w] = {} /\ numbered'[w] = {}
           /\ \A v \in Writers : v # w => /\ writer'[v] = writer[v] /\ written'[v] = written[v]
                                          /\ numbered'[v] = numbered[v]
           /\ writer' \in [Writers -> {"idle", "writing", "logging"}]
           /\ written' \in [Writers -> SUBSET Written] /\ numbered' \in [Writers -> SUBSET Change]
           /\ UNCHANGED <<lastSeq, PullOnly>>
BY DEF EndTransaction, Writing, TypeOK, PullOnly

LEMMA RollbackKeepsWriting ==
    ASSUME Writing, NEW w \in Writers, Rollback(w)
    PROVE  /\ Writing' /\ UNCHANGED <<log, row, lastSeq, PullOnly>>
           /\ \A v \in Writers : numbered'[v] \subseteq numbered[v] /\ written'[v] \subseteq written[v]
<1>1. UNCHANGED <<log, row>> /\ EndTransaction(w)
  BY DEF Rollback
<1>2. /\ writer'[w] = "idle" /\ written'[w] = {} /\ numbered'[w] = {}
      /\ \A v \in Writers : v # w => /\ writer'[v] = writer[v] /\ written'[v] = written[v]
                                     /\ numbered'[v] = numbered[v]
      /\ UNCHANGED <<lastSeq, PullOnly>>
  BY <1>1, TransactionEnds
<1>3. TypeOK'
  BY <1>1, TransactionEnds DEF Writing, TypeOK, PullOnly, pageVars, storedVars
<1>4. Transactions'
  <2>1. \A v \in Writers : written'[v] \subseteq written[v] /\ IsFiniteSet(written'[v])
    BY <1>2, EmptiedIsFinite DEF Writing, Transactions
  <2>2. \A u, v \in Writers : \A x \in written'[u], y \in written'[v] :
          x.entity = y.entity => u = v /\ x = y
    BY <2>1 DEF Writing, Transactions
  <2> QED BY <1>1, <1>2, <2>1, <2>2 DEF Writing, Transactions, EntitiesOf
<1>5. Numbers' /\ Versions'
  BY <1>1, <1>2 DEF Writing, Numbers, Versions, Logs
<1> QED BY <1>1, <1>2, <1>3, <1>4, <1>5 DEF Writing

LEMMA CommitKeepsWriting ==
    ASSUME Writing, NEW w \in Writers, Commit(w)
    PROVE  /\ Writing' /\ UNCHANGED <<lastSeq, PullOnly>> /\ log' = log \cup numbered[w]
           /\ \A v \in Writers : numbered'[v] = {} /\ written'[v] \subseteq written[v]
           /\ \A e \in Entity : Deleted(e) =>
                 row'[e] = 0 /\ \A c \in numbered[w] : c.entity # e
           /\ \A e \in Entity : row[e] > 0 /\ row'[e] = 0 =>
                 \E c \in log' : c.entity = e /\ c.version >= row[e] + 1
<1>1. log' = log \cup numbered[w] /\ EndTransaction(w) /\ writer[w] = "logging"
  BY DEF Commit
<1>2. /\ writer'[w] = "idle" /\ written'[w] = {} /\ numbered'[w] = {}
      /\ \A v \in Writers : v # w => /\ writer'[v] = writer[v] /\ written'[v] = written[v]
                                     /\ numbered'[v] = numbered[v]
      /\ UNCHANGED <<lastSeq, PullOnly>>
  BY <1>1, TransactionEnds
<1>3. \A v \in Writers : v # w => writer[v] # "logging" /\ numbered[v] = {}
  BY <1>1 DEF Writing, Transactions
<1>4. /\ written[w] \in SUBSET Written /\ numbered[w] \in SUBSET Change /\ log \in SUBSET Change
      /\ \A e \in Entity : row[e] \in Nat /\ row'[e] \in Nat
      /\ lastSeq \in Nat
  BY CommitRows DEF Writing, TypeOK, Seq0
<1>5. \A x \in written[w] :
        /\ x.entity \in Entity /\ x.version \in Nat \ {0} /\ x.version <= lastSeq
        /\ x.version = row[x.entity] + 1
        /\ row'[x.entity] = x.version \/ row'[x.entity] = 0
        /\ \E c \in numbered[w] : c.entity = x.entity /\ c.version = x.version
        /\ row[x.entity] > 0 \/ x.entity \notin EntitiesOf(log)
  <2> SUFFICES ASSUME NEW x \in written[w]
               PROVE  /\ x.entity \in Entity /\ x.version \in Nat \ {0} /\ x.version <= lastSeq
                      /\ x.version = row[x.entity] + 1
                      /\ row'[x.entity] = x.version \/ row'[x.entity] = 0
                      /\ \E c \in numbered[w] : c.entity = x.entity /\ c.version = x.version
                      /\ row[x.entity] > 0 \/ x.entity \notin EntitiesOf(log)
    OBVIOUS
  <2>1. x.entity \in Entity /\ x.version \in Nat \ {0}
    BY <1>4 DEF Written
  <2>2. row'[x.entity] = x.version \/ row'[x.entity] = 0
    BY CommitRows
  <2> QED BY <1>1, <2>1, <2>2 DEF Writing, Transactions
<1>6. \A c \in numbered[w] : \E x \in written[w] : x.entity = c.entity /\ x.version = c.version
  BY DEF Writing, Transactions
<1>7. \A e \in Entity : row'[e] = row[e] \/ \E x \in written[w] : x.entity = e
  BY CommitRows
<1>8. TypeOK'
  <2>1. row' \in [Entity -> Seq0]
    BY CommitRows
  <2>2. log' \in SUBSET Change
    BY <1>1, <1>4
  <2> QED BY <1>1, <1>2, <2>1, <2>2, TransactionEnds
          DEF Writing, TypeOK, PullOnly, pageVars, storedVars
<1>9. Transactions'
  <2>1. \A v \in Writers : written'[v] \subseteq written[v] /\ IsFiniteSet(written'[v])
    BY <1>2, EmptiedIsFinite DEF Writing, Transactions
  <2>2. \A v \in Writers : \A x \in written'[v] :
          row'[x.entity] = row[x.entity] /\ (x.entity \in EntitiesOf(log') => x.entity \in EntitiesOf(log))
    <3> SUFFICES ASSUME NEW v \in Writers, NEW x \in written'[v]
                 PROVE  /\ row'[x.entity] = row[x.entity]
                        /\ x.entity \in EntitiesOf(log') => x.entity \in EntitiesOf(log)
      OBVIOUS
    <3>1. v # w /\ x \in written[v]
      BY <1>2
    <3>2. \A y \in written[w] : y.entity # x.entity
      BY <3>1 DEF Writing, Transactions
    <3>3. x.entity \in Entity
      BY <3>1 DEF Writing, TypeOK, Written
    <3>4. row'[x.entity] = row[x.entity]
      BY <1>7, <3>2, <3>3
    <3>5. \A c \in numbered[w] : c.entity # x.entity
      BY <1>6, <3>2
    <3> QED BY <1>1, <3>4, <3>5 DEF EntitiesOf
  <2>3. \A v \in Writers : \A x \in written'[v] :
          /\ x.version = row'[x.entity] + 1
          /\ row'[x.entity] > 0 \/ x.entity \notin EntitiesOf(log')
          /\ writer'[v] = "logging" =>
                /\ x.version <= lastSeq'
                /\ \E c \in numbered'[v] : c.entity = x.entity /\ c.version = x.version
    BY <1>2, <1>3, <2>1, <2>2 DEF Writing, Transactions
  <2>4. \A u, v \in Writers : \A x \in written'[u], y \in written'[v] :
          x.entity = y.entity => u = v /\ x = y
    BY <2>1 DEF Writing, Transactions
  <2>5. \A v \in Writers : numbered'[v] = {}
    BY <1>2, <1>3
  <2>6. /\ \A u, v \in Writers : writer'[u] = "logging" /\ writer'[v] = "logging" => u = v
        /\ \A v \in Writers : /\ writer'[v] = "idle" => written'[v] = {}
                              /\ writer'[v] = "writing" => written'[v] # {}
    BY <1>2, <1>3 DEF Writing, Transactions
  <2> QED BY <2>1, <2>3, <2>4, <2>5, <2>6 DEF Transactions, EntitiesOf
<1>10. Numbers'
  <2>1. \A c, d \in log' : c.seq = d.seq => c = d
    <3>1. /\ \A c, d \in log : c.seq = d.seq => c = d
          /\ \A c, d \in numbered[w] : c.seq = d.seq => c = d
          /\ \A c \in numbered[w], d \in log : d.seq < c.seq /\ c.seq \in Nat /\ d.seq \in Nat
      BY <1>4, SeqsAreNumbers DEF Writing, Numbers
    <3>2. \A c \in numbered[w], d \in log : d.seq # c.seq
      BY <3>1
    <3> QED BY <1>1, <3>1, <3>2
  <2>2. \A c \in log' : c.seq <= lastSeq'
    BY <1>1, <1>2 DEF Writing, Numbers
  <2>3. \A v \in Writers : numbered'[v] = {}
    BY <1>2, <1>3
  <2> QED BY <2>1, <2>2, <2>3 DEF Numbers
<1>11. Versions'
  <2>1. ASSUME NEW e \in Entity
        PROVE  /\ row'[e] <= lastSeq'
               /\ row'[e] > 0 => \E c \in log' : c.entity = e /\ c.version >= row'[e]
    <3>1. CASE row'[e] = row[e]
      <4>1. row[e] <= lastSeq /\ (row[e] > 0 => \E c \in log : c.entity = e /\ c.version >= row[e])
        BY DEF Writing, Versions, Logs
      <4> QED BY <1>1, <1>2, <3>1, <4>1
    <3>2. CASE \E x \in written[w] : x.entity = e
      <4>1. PICK x \in written[w] : x.entity = e
        BY <3>2
      <4>2. PICK c \in numbered[w] : c.entity = e /\ c.version = x.version
        BY <1>5, <4>1
      <4>3. x.version \in Nat /\ x.version <= lastSeq /\ (row'[e] = x.version \/ row'[e] = 0)
        BY <1>5, <4>1
      <4>4. row'[e] > 0 => c.version >= row'[e]
        BY <4>2, <4>3
      <4> QED BY <1>1, <1>2, <1>4, <4>2, <4>3, <4>4
    <3> QED BY <1>7, <3>1, <3>2
  <2>2. ASSUME NEW c \in log' PROVE row'[c.entity] = 0 \/ c.version <= row'[c.entity]
    <3>1. c \in Change /\ c.entity \in Entity /\ c.version \in Nat
      BY <1>1, <1>4, SeqsAreNumbers
    <3>2. CASE \E x \in written[w] : x.entity = c.entity
      <4>1. PICK x \in written[w] : x.entity = c.entity
        BY <3>2
      <4>2. CASE c \in numbered[w]
        <5>1. PICK y \in written[w] : y.entity = c.entity /\ y.version = c.version
          BY <1>6, <4>2
        <5>2. row'[y.entity] = y.version \/ row'[y.entity] = 0
          BY <1>5
        <5> QED BY <3>1, <5>1, <5>2
      <4>3. CASE c \in log
        <5>1. x.entity \in EntitiesOf(log)
          BY <4>1, <4>3 DEF EntitiesOf
        <5>2. row[c.entity] > 0 /\ x.version = row[c.entity] + 1
          BY <1>5, <4>1, <5>1
        <5>3. c.version <= row[c.entity]
          BY <4>3, <5>2 DEF Writing, Versions
        <5>4. row'[c.entity] = x.version \/ row'[c.entity] = 0
          BY <1>5, <4>1
        <5> QED BY <1>4, <3>1, <5>2, <5>3, <5>4
      <4> QED BY <1>1, <4>2, <4>3
    <3>3. CASE ~\E x \in written[w] : x.entity = c.entity
      <4>1. c \in log /\ row'[c.entity] = row[c.entity]
        BY <1>1, <1>6, <1>7, <3>1, <3>3
      <4> QED BY <4>1 DEF Writing, Versions
    <3> QED BY <3>2, <3>3
  <2> QED BY <2>1, <2>2 DEF Versions, Logs
<1>12. ASSUME NEW e \in Entity, Deleted(e)
       PROVE  row'[e] = 0 /\ \A c \in numbered[w] : c.entity # e
  <2>1. row[e] = 0 /\ e \in EntitiesOf(log)
    BY <1>12 DEF Deleted
  <2>2. \A x \in written[w] : x.entity # e
    BY <1>5, <2>1
  <2> QED BY <1>6, <1>7, <2>1, <2>2
<1>13. ASSUME NEW e \in Entity, row[e] > 0, row'[e] = 0
       PROVE  \E c \in log' : c.entity = e /\ c.version >= row[e] + 1
  <2>1. PICK x \in written[w] : x.entity = e
    BY <1>7, <1>13, <1>4
  <2>2. PICK c \in numbered[w] : c.entity = e /\ c.version = x.version
    BY <1>5, <2>1
  <2>3. c.version >= row[e] + 1 /\ c \in log'
    BY <1>1, <1>4, <1>5, <2>1, <2>2
  <2> QED BY <2>2, <2>3
<1>14. \A v \in Writers : numbered'[v] = {} /\ written'[v] \subseteq written[v]
  BY <1>2, <1>3
<1> QED BY <1>1, <1>2, <1>8, <1>9, <1>10, <1>11, <1>12, <1>13, <1>14 DEF Writing

-----------------------------------------------------------------------------
(* What the register reached, and the page under way, while writers go on *)

\* The rows and the log as a writer leaves them: it commits only what was not reached.
Grows ==
    /\ log \subseteq log' /\ \A c \in log' : c \in log \/ ~Reached(c.seq)
    /\ \A e \in Entity : Deleted(e) => row'[e] = 0 /\ \A c \in log' : c.entity = e => c \in log
    /\ \A e \in Entity : row[e] > 0 /\ row'[e] = 0 =>
          \E c \in log' : c.entity = e /\ c.version >= row[e] + 1
    /\ \A e \in Entity : row'[e] = row[e] \/ RowLocked(e)
    /\ \A e \in Entity : ~RowLocked(e) /\ e \in Compound /\ found[e] > 0 => ~RowLocked(e)'
    /\ UNCHANGED PullOnly

LEMMA SameReached ==
    ASSUME UNCHANGED <<cursor, since, answer, redeliveryCursor, logged>>, NEW n
    PROVE  Reached(n)' <=> Reached(n)
BY DEF Reached

LEMMA GrowsReached == ASSUME Grows, NEW n PROVE Reached(n)' <=> Reached(n)
BY SameReached DEF Grows, PullOnly, pageVars, storedVars

LEMMA VersionsTyped ==
    ASSUME TypeOK
    PROVE  /\ \A c \in log : c \in Change /\ c.version \in Nat /\ c.seq \in Nat \ {0} /\ c.entity \in Entity
           /\ \A e \in Entity : row[e] \in Nat /\ found[e] \in Nat /\ parts[e] \in Nat
                                /\ replica[e] \in Copy /\ replica[e].version \in Nat
           /\ cursor \in Nat /\ since \in Nat /\ observed \in Nat /\ lastSeq \in Nat
           /\ answer \in Answer /\ answer.cursor \in Nat
           /\ \A i \in answer.items : i \in Item /\ i.entity \in Entity /\ i.version \in Nat
           /\ \A k \in Kind : redeliveryCursor[k] \in Nat
           /\ \A n \in delayed : n \in Nat
<1>1. \A c \in log : c \in Change
  BY DEF TypeOK
<1>2. \A e \in Entity : /\ row[e] \in Nat /\ found[e] \in Nat /\ parts[e] \in Nat
                        /\ replica[e] \in Copy /\ replica[e].version \in Nat
  BY DEF TypeOK, Seq0, Copy
<1>3. /\ cursor \in Nat /\ since \in Nat /\ observed \in Nat /\ lastSeq \in Nat
      /\ answer \in Answer /\ answer.cursor \in Nat
      /\ \A i \in answer.items : i \in Item /\ i.entity \in Entity /\ i.version \in Nat
  BY DEF TypeOK, Seq0, Answer, Item
<1>4. (\A k \in Kind : redeliveryCursor[k] \in Nat) /\ \A n \in delayed : n \in Nat
  BY DEF TypeOK, Seq0
<1> QED BY <1>1, <1>2, <1>3, <1>4, SeqsAreNumbers

LEMMA GrowsLogs == ASSUME Grows, NEW e, NEW n PROVE Logs(e, n) => Logs(e, n)'
BY DEF Grows, Logs

LEMMA GrowsDeleted == ASSUME Grows, NEW e \in Entity PROVE Deleted(e) => Deleted(e)'
BY DEF Grows, Deleted, EntitiesOf

LEMMA GrowsFresh ==
    ASSUME TypeOK, TypeOK', Versions, Grows, NEW e \in Entity, NEW n \in Nat, Fresh(e, n)
    PROVE  Fresh(e, n)'
<1>1. \A c \in log' : c.entity = e /\ Reached(c.seq)' => c.version <= n
  BY GrowsReached DEF Grows, Fresh
<1>2. Logs(e, n)' /\ replica'[e].version <= n
  BY GrowsLogs DEF Fresh, Grows, PullOnly, storedVars
<1>3. ASSUME row'[e] = 0 PROVE Logs(e, n + 1)'
  <2>1. CASE row[e] = 0
    BY <2>1, GrowsLogs DEF Fresh
  <2>2. CASE row[e] > 0
    <3>1. PICK c \in log' : c.entity = e /\ c.version >= row[e] + 1
      BY <1>3, <2>2 DEF Grows
    <3>2. PICK d \in log : d.entity = e /\ d.version >= n
      BY DEF Fresh, Logs
    <3>3. d.version <= row[e] /\ d.version \in Nat /\ row[e] \in Nat
      BY <2>2, <3>2, VersionsTyped DEF Versions
    <3>4. c.version >= n + 1
      <4>1. c.version \in Nat
        BY <3>1, SeqsAreNumbers DEF TypeOK
      <4> QED BY <3>1, <3>2, <3>3, <4>1
    <3> QED BY <3>1, <3>4 DEF Logs
  <2> QED BY <2>1, <2>2, VersionsTyped
<1> QED BY <1>1, <1>2, <1>3 DEF Fresh

LEMMA GrowsPage ==
    ASSUME IInv, TypeOK', Grows
    PROVE  PageRead' /\ PartsRead'
<1>1. UNCHANGED <<logged, pending, found, parts, pc, since, feed, upgraded, replica>>
  BY DEF Grows, PullOnly, pageVars, storedVars
<1>2. ASSUME NEW c \in log', Due(c)' PROVE c \in log /\ Due(c)
  <2>1. Reached(c.seq)
    BY <1>2, GrowsReached DEF Due
  <2> QED BY <1>1, <1>2, <2>1 DEF Grows, Due, Served
<1>3. PageRead'
  <2>1. pc' = "reading" =>
          \A c \in log' : Due(c)' =>
             \/ c \in logged'
             \/ First(PageSize, logged') # logged' /\ \A d \in logged' : d.seq < c.seq
    BY <1>1, <1>2 DEF IInv, PageRead
  <2>2. \A e \in Entity : found'[e] > 0 => Fresh(e, found[e])'
    BY <1>1, GrowsFresh, VersionsTyped DEF IInv, PageRead
  <2>3. \A e \in EntitiesOf(logged) \ pending : found[e] > 0 \/ Deleted(e)'
    <3>1. \A e \in EntitiesOf(logged) : e \in Entity
      BY VersionsTyped DEF IInv, PageRead, EntitiesOf
    <3> QED BY <3>1, GrowsDeleted DEF IInv, PageRead
  <2>4. logged' \subseteq log'
    BY <1>1 DEF IInv, PageRead, Grows
  <2> QED BY <1>1, <2>1, <2>2, <2>3, <2>4 DEF IInv, PageRead, EntitiesOf
<1>4. PartsRead'
  <2>1. \A e \in Entity : ~RowLocked(e) => row'[e] = row[e]
    BY DEF Grows
  <2> QED BY <1>1, <2>1 DEF IInv, PartsRead, Grows
<1> QED BY <1>3, <1>4

LEMMA GrowsAnswer ==
    ASSUME IInv, TypeOK', Grows
    PROVE  Answered' /\ Asked'
<1>1. UNCHANGED <<answer, cursor, observed, delayed, redelivering, redeliveryCursor, pc, since,
                  feed, upgraded, replica>>
  BY DEF Grows, PullOnly, pageVars, storedVars
<1>2. ASSUME NEW c \in log', Reached(c.seq)' PROVE c \in log /\ Reached(c.seq)
  BY <1>2, GrowsReached DEF Grows
<1>3. ASSUME NEW c \in log', Due(c)' PROVE c \in log /\ Due(c)
  <2>1. Reached(c.seq) /\ c \in log
    BY <1>2, <1>3 DEF Due
  <2> QED BY <1>1, <1>3, <2>1 DEF Due, Served
<1>4. ASSUME NEW i \in answer.items
      PROVE  ItemTrue(i)' /\ \E c \in log' : c.entity = i.entity /\ c.seq <= answer.cursor
  <2>1. i.entity \in Entity /\ i.version \in Nat /\ ItemTrue(i)
    BY <1>4, VersionsTyped DEF IInv, Answered
  <2>2. CASE i.removed
    <3>1. Deleted(i.entity)' /\ i.version > 0 /\ Logs(i.entity, i.version)'
      BY <2>1, <2>2, GrowsDeleted, GrowsLogs DEF ItemTrue
    <3>2. \A c \in log' : c.entity = i.entity => c \in log
      BY <2>1, <2>2 DEF ItemTrue, Grows
    <3> QED BY <1>4, <2>1, <2>2, <3>1, <3>2 DEF ItemTrue, IInv, Answered, Grows
  <2>3. CASE ~i.removed
    <3>1. Fresh(i.entity, i.version)'
      BY <2>1, <2>3, GrowsFresh DEF ItemTrue, IInv
    <3> QED BY <1>4, <2>1, <2>3, <3>1 DEF ItemTrue, IInv, Answered, Grows
  <2> QED BY <2>2, <2>3
<1>5. Answered'
  <2>1. pc = "answered" =>
          /\ since <= answer.cursor
          /\ \A c \in log' : Due(c)' /\ c.seq <= answer.cursor =>
                \E i \in answer.items : i.entity = c.entity
          /\ ~answer.more => \A c \in log' : Due(c)' => c.seq <= answer.cursor
    BY <1>3 DEF IInv, Answered
  <2>2. pc # "answered" => answer = NoAnswer
    BY DEF IInv, Answered
  <2> QED BY <1>1, <1>4, <2>1, <2>2 DEF Answered
<1>6. Asked'
  BY <1>1, <1>2 DEF IInv, Asked
<1> QED BY <1>5, <1>6

LEMMA GrowsReplica ==
    ASSUME IInv, TypeOK', Grows
    PROVE  Replicated' /\ NothingSkipped' /\ NotTorn' /\ RedeliveredIsWhole'
<1>1. UNCHANGED <<cursor, redelivering, redeliveryCursor, upgraded, replica>>
  BY DEF Grows, PullOnly, storedVars
<1>2. ASSUME NEW c \in log', c.seq <= cursor \/ \E k \in Kind : c.seq <= redeliveryCursor[k]
      PROVE  c \in log
  BY <1>2 DEF Grows, Reached
<1>3. \A c \in log' : c.entity \in Entity /\ KindOf[c.entity] \in Kind /\ c.version \in Nat
  BY SeqsAreNumbers DEF TypeOK
<1>4. ASSUME NEW e \in Entity, replica[e].version > 0, ~replica[e].removed, row'[e] = 0
      PROVE  Logs(e, replica[e].version + 1)'
  <2>1. CASE row[e] = 0
    BY <1>1, <1>4, <2>1, GrowsLogs DEF IInv, Replicated
  <2>2. CASE row[e] > 0
    <3>1. PICK c \in log' : c.entity = e /\ c.version >= row[e] + 1
      BY <1>4, <2>2 DEF Grows
    <3>2. PICK d \in log : d.entity = e /\ d.version >= replica[e].version
      BY <1>4 DEF IInv, Replicated, Logs
    <3>3. d.version <= row[e] /\ d.version \in Nat /\ row[e] \in Nat /\ replica[e].version \in Nat
      BY <2>2, <3>2, VersionsTyped DEF IInv, Versions
    <3>4. c.version \in Nat
      BY <1>3, <3>1
    <3>5. c.version >= replica[e].version + 1
      BY <3>1, <3>2, <3>3, <3>4
    <3> QED BY <1>1, <3>1, <3>5 DEF Logs
  <2> QED BY <2>1, <2>2, VersionsTyped DEF IInv
<1>5. Replicated'
  <2>1. ASSUME NEW e \in Entity
        PROVE  /\ replica[e].version > 0 => Logs(e, replica[e].version)'
               /\ ~upgraded \/ replica[e].version = 0 => replica[e].whole
               /\ (~upgraded /\ replica[e].version > 0) \/ ~replica[e].whole =>
                     \E c \in log' : c.entity = e /\ c.seq <= cursor
    BY <1>1, GrowsLogs DEF IInv, Replicated, Grows
  <2>2. ASSUME NEW c \in log', KindOf[c.entity] \in redelivering,
               c.seq <= redeliveryCursor[KindOf[c.entity]]
        PROVE  InNewVersion(c.entity)'
    <3>1. c \in log
      BY <1>2, <1>3, <2>2
    <3> QED BY <1>1, <2>2, <3>1 DEF IInv, Replicated, InNewVersion
  <2> QED BY <1>1, <1>4, <2>1, <2>2 DEF Replicated
<1>6. NothingSkipped'
  <2> SUFFICES ASSUME NEW c \in log', Behind(c)' PROVE Holds(c)'
    BY DEF NothingSkipped
  <2>1. Behind(c)
    BY <1>1 DEF Behind
  <2>2. c \in log
    BY <1>2, <1>3, <2>1 DEF Behind
  <2>3. Holds(c)
    BY <2>1, <2>2 DEF IInv, NothingSkipped
  <2>4. row[c.entity] = 0 => row'[c.entity] = 0
    <3>1. c.entity \in EntitiesOf(log) /\ c.entity \in Entity
      BY <1>3, <2>2 DEF EntitiesOf
    <3> QED BY <3>1 DEF Grows, Deleted
  <2> QED BY <1>1, <2>3, <2>4 DEF Holds
<1>7. NotTorn' /\ RedeliveredIsWhole'
  BY <1>1 DEF IInv, NotTorn, RedeliveredIsWhole
<1> QED BY <1>5, <1>6, <1>7

\* Without a change of the rows or the log, only locks may matter.
LEMMA SameRowsGrow ==
    ASSUME UNCHANGED <<log, row, PullOnly>>,
           \A e \in Entity : ~RowLocked(e) /\ e \in Compound /\ found[e] > 0 => ~RowLocked(e)'
    PROVE  Grows
BY DEF Grows, Deleted

LEMMA GrowsKeepsIInv ==
    ASSUME IInv, Writing', Grows, Horizon'
    PROVE  IInv'
BY GrowsPage, GrowsAnswer, GrowsReplica DEF IInv, Writing

LEMMA WriteKeepsIInv == ASSUME IInv, NEW w \in Writers, Write(w) PROVE IInv'
<1>1. Writing' /\ UNCHANGED <<log, row, lastSeq, numbered, PullOnly>>
  BY WriteKeepsWriting DEF IInv, Writing
<1>2. ASSUME NEW e \in Entity, ~RowLocked(e), e \in Compound, found[e] > 0 PROVE ~RowLocked(e)'
  <2>1. pc = "reading"
    BY <1>2 DEF IInv, PageRead, Nothing
  <2>2. ~MayBeWritten(e)
    BY <1>2, <2>1 DEF MayBeWritten, ShareLocked
  <2>3. \A x \in written'[w] : x.entity # e
    <3>1. PICK es \in SUBSET {f \in Entity : MayBeWritten(f)}, deleted \in SUBSET Removable :
            written' = [written EXCEPT ![w] =
              {[entity |-> f, version |-> NextVersion(f), kept |-> f \notin deleted] : f \in es}]
      BY DEF Write
    <3>2. written'[w] =
            {[entity |-> f, version |-> NextVersion(f), kept |-> f \notin deleted] : f \in es}
      BY <3>1 DEF IInv, TypeOK
    <3>3. e \notin es
      BY <2>2
    <3> QED BY <3>2, <3>3
  <2>4. \A v \in Writers : v # w => written'[v] = written[v]
    BY DEF Write, IInv, TypeOK
  <2> QED BY <1>2, <2>3, <2>4 DEF RowLocked, EntitiesOf
<1>3. Grows
  BY <1>1, <1>2, SameRowsGrow
<1>4. Horizon'
  BY <1>1, <1>3, GrowsReached DEF IInv, Horizon
<1> QED BY <1>1, <1>3, <1>4, GrowsKeepsIInv

LEMMA LogChangesKeepsIInv == ASSUME IInv, NEW w \in Writers, LogChanges(w) PROVE IInv'
<1>1. /\ Writing' /\ UNCHANGED <<log, row, written, PullOnly>> /\ lastSeq' >= lastSeq
      /\ \A v \in Writers : \A d \in numbered'[v] : d \in numbered[v] \/ d.seq > lastSeq
  BY LogChangesKeepsWriting DEF IInv, Writing
<1>2. Grows
  BY <1>1, SameRowsGrow DEF RowLocked
<1>3. /\ \A v \in Writers : \A d \in numbered'[v] : d.seq \in Seq0
      /\ lastSeq \in Nat /\ lastSeq' \in Nat /\ \A n \in Seq0 : n \in Nat
  BY <1>1, SeqsAreNumbers DEF IInv, Writing, TypeOK, Seq0
<1>4. Horizon'
  <2>1. \A n \in Seq0 : Reached(n) => n <= lastSeq'
    BY <1>1, <1>3 DEF IInv, Horizon
  <2>2. ASSUME NEW v \in Writers, NEW d \in numbered'[v] PROVE ~Reached(d.seq)
    <3>1. CASE d \in numbered[v]
      BY <3>1 DEF IInv, Horizon
    <3>2. CASE d.seq > lastSeq
      BY <1>3, <3>2 DEF IInv, Horizon
    <3> QED BY <1>1, <3>1, <3>2
  <2> QED BY <1>2, <2>1, <2>2, GrowsReached DEF Horizon
<1> QED BY <1>1, <1>2, <1>4, GrowsKeepsIInv

LEMMA RollbackKeepsIInv == ASSUME IInv, NEW w \in Writers, Rollback(w) PROVE IInv'
<1>1. /\ Writing' /\ UNCHANGED <<log, row, lastSeq, PullOnly>>
      /\ \A v \in Writers : numbered'[v] \subseteq numbered[v] /\ written'[v] \subseteq written[v]
  BY RollbackKeepsWriting DEF IInv, Writing
<1>2. Grows
  <2>1. \A e \in Entity : ~RowLocked(e) => ~RowLocked(e)'
    BY <1>1 DEF RowLocked, EntitiesOf
  <2> QED BY <1>1, <2>1, SameRowsGrow
<1>3. Horizon'
  BY <1>1, <1>2, GrowsReached DEF IInv, Horizon
<1> QED BY <1>1, <1>2, <1>3, GrowsKeepsIInv

LEMMA CommitKeepsIInv == ASSUME IInv, NEW w \in Writers, Commit(w) PROVE IInv'
<1>1. /\ Writing' /\ UNCHANGED <<lastSeq, PullOnly>> /\ log' = log \cup numbered[w]
      /\ \A v \in Writers : numbered'[v] = {} /\ written'[v] \subseteq written[v]
      /\ \A e \in Entity : Deleted(e) => row'[e] = 0 /\ \A c \in numbered[w] : c.entity # e
      /\ \A e \in Entity : row[e] > 0 /\ row'[e] = 0 =>
            \E c \in log' : c.entity = e /\ c.version >= row[e] + 1
  BY CommitKeepsWriting DEF IInv, Writing
<1>2. Grows
  <2>1. \A e \in Entity : ~RowLocked(e) => ~RowLocked(e)'
    BY <1>1 DEF RowLocked, EntitiesOf
  <2>2. \A e \in Entity : row'[e] = row[e] \/ RowLocked(e)
    BY CommitRows DEF IInv, Writing
  <2>3. \A c \in numbered[w] : ~Reached(c.seq)
    BY DEF IInv, Horizon
  <2> QED BY <1>1, <2>1, <2>2, <2>3 DEF Grows
<1>3. Horizon'
  BY <1>1, <1>2, GrowsReached DEF IInv, Horizon
<1> QED BY <1>1, <1>2, <1>3, GrowsKeepsIInv

-----------------------------------------------------------------------------
(* The page *)

LEMMA WritersUntouched ==
    ASSUME UNCHANGED <<cloudVars, writerVars>>, NEW e, NEW n
    PROVE  /\ Transactions => Transactions'
           /\ Numbers => Numbers'
           /\ Versions => Versions'
           /\ Logs(e, n)' <=> Logs(e, n)
           /\ Deleted(e)' <=> Deleted(e)
           /\ RowLocked(e)' <=> RowLocked(e)
<1>1. UNCHANGED <<row, log, lastSeq, writer, written, numbered>>
  BY DEF cloudVars, writerVars
<1>2. /\ Transactions => Transactions'
      /\ Numbers => Numbers'
  BY <1>1 DEF Transactions, Numbers, EntitiesOf
<1>3. /\ Versions => Versions'
      /\ Logs(e, n)' <=> Logs(e, n)
      /\ Deleted(e)' <=> Deleted(e)
      /\ RowLocked(e)' <=> RowLocked(e)
  BY <1>1 DEF Versions, Logs, Deleted, RowLocked, EntitiesOf
<1> QED BY <1>2, <1>3

\* A step that reaches nothing new.
LEMMA NothingNewReached ==
    ASSUME IInv, UNCHANGED <<cloudVars, writerVars>>, \A n \in Nat : Reached(n)' => Reached(n)
    PROVE  /\ Horizon'
           /\ \A c \in log : Reached(c.seq)' => Reached(c.seq)
<1>1. UNCHANGED <<lastSeq, numbered>> /\ \A n \in Seq0 : n \in Nat
  BY DEF cloudVars, writerVars, Seq0
<1>2. \A w \in Writers : \A d \in numbered[w] : d.seq \in Nat
  BY SeqsAreNumbers DEF IInv, TypeOK
<1>3. \A c \in log : c.seq \in Nat
  BY VersionsTyped DEF IInv
<1> QED BY <1>1, <1>2, <1>3 DEF IInv, Horizon

\* The replica and what it says of the log, while neither changes.
LEMMA SameReplica ==
    ASSUME IInv, UNCHANGED <<cloudVars, storedVars>>
    PROVE  Replicated' /\ NothingSkipped' /\ NotTorn' /\ RedeliveredIsWhole'
<1>1. UNCHANGED <<row, log, cursor, redelivering, redeliveryCursor, upgraded, replica>>
  BY DEF cloudVars, storedVars
<1>2. Replicated'
  BY <1>1 DEF IInv, Replicated, Logs, InNewVersion
<1>3. NothingSkipped'
  BY <1>1 DEF IInv, NothingSkipped, Behind, Holds
<1> QED BY <1>1, <1>2, <1>3 DEF IInv, NotTorn, RedeliveredIsWhole

LEMMA BeginPageKeepsIInv == ASSUME IInv, BeginPage PROVE IInv'
<1>1. /\ pc = "asking" /\ pc' = "reading"
      /\ logged' = First(PageSize + 1, {c \in log : c.seq > since /\ Served(c.entity)})
      /\ pending' = EntitiesOf(logged')
      /\ UNCHANGED <<cloudVars, observed, writerVars, found, parts, delayed, feed, since, answer,
                     storedVars>>
      /\ UNCHANGED <<row, log, lastSeq, numbered, cursor, redelivering, redeliveryCursor, upgraded,
                     replica>>
  BY DEF BeginPage, cloudVars, writerVars, storedVars
<1>2. /\ answer = NoAnswer /\ found = Nothing /\ parts = Nothing /\ logged = {}
  BY <1>1 DEF IInv, Answered, PageRead
<1> DEFINE S == {c \in log : c.seq > since /\ Served(c.entity)}
<1>3. /\ S \in SUBSET Change /\ IsFiniteSet(S) /\ logged' = First(PageSize + 1, S)
      /\ \A c, d \in S : c.seq = d.seq => c = d
  <2>1. IsFiniteSet(log) /\ log \in SUBSET Change
    BY LogIsFinite DEF IInv
  <2> QED BY <1>1, <2>1, FS_Subset DEF IInv, Numbers
<1>4. logged' \subseteq S
  BY <1>3 DEF First
<1>5. \A n : Reached(n)' <=> Reached(n) \/ \E d \in logged' : n <= d.seq
  BY <1>1, <1>2 DEF Reached
<1>6. TypeOK'
  <2>1. logged' \in SUBSET Change /\ pending' \in SUBSET Entity
    BY <1>1, <1>3, <1>4, SeqsAreNumbers DEF EntitiesOf
  <2> QED BY <1>1, <2>1
          DEF IInv, TypeOK, cloudVars, writerVars, storedVars, PcLabels
<1>7. Transactions' /\ Numbers' /\ Versions'
  BY <1>1, WritersUntouched DEF IInv
<1>8. Horizon'
  <2>1. \A c \in log : c.seq \in Nat /\ c.seq <= lastSeq
    BY VersionsTyped DEF IInv, Numbers
  <2>2. \A n \in Seq0 : Reached(n)' => n <= lastSeq
    <3> SUFFICES ASSUME NEW n \in Seq0, NEW d \in log, n <= d.seq PROVE n <= lastSeq
      BY <1>4, <1>5 DEF IInv, Horizon
    <3> QED BY <2>1, VersionsTyped DEF Seq0, IInv
  <2>3. \A w \in Writers : \A c \in numbered[w] : ~Reached(c.seq)'
    <3> SUFFICES ASSUME NEW w \in Writers, NEW c \in numbered[w], NEW d \in log, c.seq <= d.seq
                 PROVE  FALSE
      BY <1>4, <1>5 DEF IInv, Horizon
    <3>1. d.seq < c.seq /\ c.seq \in Nat /\ d.seq \in Nat
      BY <2>1, SeqsAreNumbers DEF IInv, Numbers, TypeOK
    <3> QED BY <3>1
  <2> QED BY <1>1, <2>2, <2>3 DEF Horizon
<1>9. PageRead'
  <2>1. ASSUME NEW c \in log, Due(c)', c \notin logged'
        PROVE  First(PageSize, logged') # logged' /\ \A d \in logged' : d.seq < c.seq
    <3>1. c \in S
      BY <1>1, <2>1 DEF Due, Served
    <3>2. First(PageSize, First(PageSize + 1, S)) # First(PageSize + 1, S)
      BY <1>3, <2>1, <3>1, LeftOutMakesMore
    <3>3. ASSUME NEW d \in logged' PROVE d.seq < c.seq
      <4>1. PageSize + 1 \in Nat /\ d \in First(PageSize + 1, S) /\ c.seq \in Nat /\ d.seq \in Nat
        BY <1>3, <1>4, <3>1, SeqsAreNumbers
      <4>2. ~(c.seq <= d.seq)
        BY <1>3, <2>1, <3>1, <4>1, FirstIsPrefix
      <4> QED BY <4>1, <4>2
    <3> QED BY <1>3, <3>2, <3>3
  <2>2. \A e \in Entity : found'[e] = 0
    BY <1>1, <1>2 DEF Nothing
  <2> QED BY <1>1, <1>4, <2>1, <2>2 DEF PageRead
<1>10. PartsRead'
  BY <1>1, <1>2 DEF PartsRead, Nothing
<1>11. Answered' /\ Asked'
  BY <1>1, <1>2 DEF Answered, Asked, NoAnswer, IInv
<1>12. Replicated' /\ NothingSkipped' /\ NotTorn' /\ RedeliveredIsWhole'
  BY <1>1, SameReplica
<1> QED BY <1>6, <1>7, <1>8, <1>9, <1>10, <1>11, <1>12 DEF IInv

LEMMA StillReading ==
    ASSUME IInv, pc = "reading", pc' = "reading",
           UNCHANGED <<observed, delayed, feed, since, answer, cursor, redelivering,
                       redeliveryCursor, upgraded>>
    PROVE  Answered' /\ Asked'
<1>1. answer = NoAnswer
  BY DEF IInv, Answered
<1>2. Answered'
  BY <1>1 DEF Answered, NoAnswer
<1>3. Asked'
  BY DEF IInv, Asked
<1> QED BY <1>2, <1>3

LEMMA ReadRowKeepsIInv == ASSUME IInv, NEW e \in Entity, ReadRow(e) PROVE IInv'
<1>1. /\ pc = "reading" /\ e \in pending /\ (e \in Compound => ~RowLocked(e))
      /\ found' = [found EXCEPT ![e] = row[e]]
      /\ parts' = [parts EXCEPT ![e] = IF e \in Compound THEN 0 ELSE row[e]]
      /\ pending' = pending \ {e}
      /\ UNCHANGED <<cloudVars, observed, writerVars, logged, delayed, pc, feed, since, answer,
                     storedVars>>
      /\ UNCHANGED <<row, log, cursor, redeliveryCursor, upgraded, replica, written>>
  BY DEF ReadRow, cloudVars, writerVars, storedVars
<1>2. \A n : Reached(n)' <=> Reached(n)
  BY <1>1, SameReached
<1>3. /\ found'[e] = row[e] /\ parts'[e] = IF e \in Compound THEN 0 ELSE row[e]
      /\ \A f \in Entity : f # e => found'[f] = found[f] /\ parts'[f] = parts[f]
  BY <1>1 DEF IInv, TypeOK
<1>4. TypeOK'
  <2>1. found' \in [Entity -> Seq0] /\ parts' \in [Entity -> Seq0]
    BY <1>1 DEF IInv, TypeOK, Seq0
  <2> QED BY <1>1, <2>1 DEF IInv, TypeOK, cloudVars, writerVars, storedVars
<1>5. e \in EntitiesOf(log)
  BY <1>1 DEF IInv, PageRead, EntitiesOf
<1>6. row[e] > 0 => Fresh(e, row[e])
  <2> SUFFICES ASSUME row[e] > 0 PROVE Fresh(e, row[e])
    OBVIOUS
  <2>1. \A c \in log : c.entity = e => c.version <= row[e]
    BY DEF IInv, Versions
  <2>2. replica[e].version <= row[e]
    <3>1. CASE replica[e].version > 0
      <4>1. PICK c \in log : c.entity = e /\ c.version >= replica[e].version
        BY <3>1 DEF IInv, Replicated, Logs
      <4> QED BY <2>1, <4>1, VersionsTyped DEF IInv
    <3> QED BY <3>1, VersionsTyped DEF IInv
  <2>3. Logs(e, row[e]) /\ row[e] # 0
    BY VersionsTyped DEF IInv, Versions
  <2> QED BY <2>1, <2>2, <2>3 DEF Fresh
<1>7. \A f \in Entity : \A n \in Nat : Fresh(f, n) => Fresh(f, n)'
  BY <1>1, <1>2 DEF Fresh, Logs
<1>8. \A f : Deleted(f)' <=> Deleted(f)
  BY <1>1, WritersUntouched
<1>9. PageRead'
  <2>1. \A c \in log : Due(c)' <=> Due(c)
    BY <1>1, <1>2 DEF Due, Served
  <2>2. ASSUME NEW f \in Entity, found'[f] > 0 PROVE Fresh(f, found[f])'
    <3>1. PICK n \in Nat : n = found'[f]
      BY <1>4 DEF TypeOK, Seq0
    <3>2. Fresh(f, n)
      BY <1>3, <1>6, <2>2, <3>1 DEF IInv, PageRead
    <3>3. Fresh(f, n)'
      BY <1>7, <3>2
    <3> QED BY <3>1, <3>3
  <2>3. \A f \in EntitiesOf(logged) \ pending' : found'[f] > 0 \/ Deleted(f)'
    <3> SUFFICES ASSUME NEW f \in EntitiesOf(logged), f \notin pending' PROVE found'[f] > 0 \/ Deleted(f)
      BY <1>8
    <3>1. f \in Entity
      BY VersionsTyped DEF IInv, PageRead, EntitiesOf
    <3>2. CASE f = e
      BY <1>3, <1>5, <3>2, VersionsTyped DEF Deleted, IInv
    <3>3. CASE f # e
      BY <1>1, <1>3, <3>1, <3>3 DEF IInv, PageRead
    <3> QED BY <3>2, <3>3
  <2> QED BY <1>1, <2>1, <2>2, <2>3 DEF IInv, PageRead, EntitiesOf
<1>10. PartsRead'
  <2>1. \A f : RowLocked(f)' <=> RowLocked(f)
    BY <1>1, WritersUntouched
  <2>2. row[e] > 0 \/ row[e] = 0
    BY VersionsTyped DEF IInv
  <2> QED BY <1>1, <1>3, <2>1, <2>2 DEF IInv, PartsRead
<1>11. Answered' /\ Asked'
  BY <1>1, StillReading DEF storedVars
<1>12. Horizon'
  BY <1>1, <1>2, NothingNewReached
<1>13. Transactions' /\ Numbers' /\ Versions'
  BY <1>1, WritersUntouched DEF IInv
<1>14. Replicated' /\ NothingSkipped' /\ NotTorn' /\ RedeliveredIsWhole'
  BY <1>1, SameReplica
<1> QED BY <1>4, <1>9, <1>10, <1>11, <1>12, <1>13, <1>14 DEF IInv

LEMMA ReadPartsKeepsIInv == ASSUME IInv, NEW e \in Entity, ReadParts(e) PROVE IInv'
<1>1. /\ pc = "reading" /\ found[e] > 0 /\ parts[e] = 0
      /\ parts' = [parts EXCEPT ![e] = row[e]]
      /\ UNCHANGED <<cloudVars, observed, writerVars, logged, pending, found, delayed, pc, feed,
                     since, answer, storedVars>>
      /\ UNCHANGED <<row, log, cursor, redeliveryCursor, upgraded, replica, written>>
  BY DEF ReadParts, cloudVars, writerVars, storedVars
<1>2. \A n : Reached(n)' <=> Reached(n)
  BY <1>1, SameReached
<1>3. /\ parts'[e] = row[e] /\ row[e] = found[e]
      /\ \A f \in Entity : f # e => parts'[f] = parts[f]
  BY <1>1, VersionsTyped DEF IInv, TypeOK, PartsRead
<1>4. TypeOK'
  <2>1. parts' \in [Entity -> Seq0]
    BY <1>1 DEF IInv, TypeOK
  <2> QED BY <1>1, <2>1 DEF IInv, TypeOK, cloudVars, writerVars, storedVars
<1>5. PageRead'
  <2>1. \A c \in log : Due(c)' <=> Due(c)
    BY <1>1, <1>2 DEF Due, Served
  <2>2. \A f \in Entity : \A n : Fresh(f, n) => Fresh(f, n)'
    BY <1>1, <1>2 DEF Fresh, Logs
  <2>3. \A f : Deleted(f)' <=> Deleted(f)
    BY <1>1, WritersUntouched
  <2> QED BY <1>1, <2>1, <2>2, <2>3 DEF IInv, PageRead, EntitiesOf
<1>6. PartsRead'
  <2>1. \A f : RowLocked(f)' <=> RowLocked(f)
    BY <1>1, WritersUntouched
  <2> QED BY <1>1, <1>3, <2>1, VersionsTyped DEF IInv, PartsRead
<1>7. Answered' /\ Asked'
  BY <1>1, StillReading DEF storedVars
<1>8. Horizon'
  BY <1>1, <1>2, NothingNewReached
<1>9. Transactions' /\ Numbers' /\ Versions'
  BY <1>1, WritersUntouched DEF IInv
<1>10. Replicated' /\ NothingSkipped' /\ NotTorn' /\ RedeliveredIsWhole'
  BY <1>1, SameReplica
<1> QED BY <1>4, <1>5, <1>6, <1>7, <1>8, <1>9, <1>10 DEF IInv

LEMMA NothingRead ==
    ASSUME pc' # "reading", logged' = {}, pending' = {}, found' = Nothing, parts' = Nothing
    PROVE  PageRead' /\ PartsRead'
<1>1. EntitiesOf(logged') = {} /\ \A e \in Entity : found'[e] = 0 /\ parts'[e] = 0
  BY DEF EntitiesOf, Nothing
<1> QED BY <1>1 DEF PageRead, PartsRead, EntitiesOf

LEMMA FinishPageKeepsIInv == ASSUME IInv, FinishPage PROVE IInv'
<1> DEFINE page == First(PageSize, logged)
<1>1. /\ pc = "reading" /\ pending = {} /\ \A e \in Entity : found[e] > 0 => parts[e] > 0
      /\ answer' = [items |-> {ItemOf(e) : e \in EntitiesOf(page)},
                    cursor |-> CursorOf(page), more |-> page # logged]
      /\ observed' = ObservedPull /\ pc' = "answered"
      /\ logged' = {} /\ pending' = {} /\ found' = Nothing /\ parts' = Nothing
      /\ UNCHANGED <<cloudVars, writerVars, delayed, feed, since, storedVars>>
      /\ UNCHANGED <<row, log, lastSeq, cursor, redelivering, redeliveryCursor, upgraded, replica>>
  BY DEF FinishPage, cloudVars, writerVars, storedVars
<1>2. /\ page \subseteq logged /\ logged \subseteq log /\ log \in SUBSET Change
      /\ IsFiniteSet(logged) /\ logged \in SUBSET Change
      /\ \A c \in page : c.seq > since
      /\ since \in Seq0 /\ answer = NoAnswer
  <2>1. page \subseteq logged
    BY DEF First
  <2>2. logged \subseteq log /\ IsFiniteSet(log) /\ log \in SUBSET Change
    BY LogIsFinite DEF IInv, PageRead
  <2> QED BY <1>1, <2>1, <2>2, FS_Subset DEF IInv, PageRead, TypeOK, Answered
<1> HIDE DEF page
<1>3. /\ CursorOf(page) \in Seq0 /\ since <= CursorOf(page)
      /\ \A c \in page : c.seq <= CursorOf(page)
      /\ CursorOf(page) = since \/ \E c \in page : c.seq = CursorOf(page)
  BY <1>2, CursorIsLast
<1>4. /\ answer'.cursor = CursorOf(page) /\ answer'.more = (page # logged)
      /\ answer'.items = {ItemOf(e) : e \in EntitiesOf(page)}
  BY <1>1
<1>5. \A n \in Nat : Reached(n)' => Reached(n)
  BY <1>1, <1>2, <1>3, <1>4 DEF Reached
<1>6. Horizon' /\ \A c \in log : Reached(c.seq)' => Reached(c.seq)
  BY <1>1, <1>5, NothingNewReached
<1>7. ASSUME NEW e \in EntitiesOf(page)
      PROVE  /\ e \in Entity /\ e \in EntitiesOf(log)
             /\ \E c \in page : c.entity = e
             /\ found[e] > 0 \/ (found[e] = 0 /\ Deleted(e))
  <2>1. PICK c \in page : c.entity = e
    BY DEF EntitiesOf
  <2>2. e \in Entity /\ e \in EntitiesOf(log) /\ e \in EntitiesOf(logged)
    BY <1>2, <2>1, SeqsAreNumbers DEF EntitiesOf
  <2> QED BY <1>1, <2>1, <2>2, VersionsTyped DEF IInv, PageRead
<1>8. ASSUME NEW e \in EntitiesOf(page), NEW i, i = ItemOf(e), found[e] > 0
      PROVE  i \in Item /\ i.entity = e /\ ItemTrue(i)'
  <2>1. parts[e] = found[e] /\ e \in Entity /\ found[e] \in Seq0 /\ found[e] # 0
    BY <1>1, <1>7, <1>8, VersionsTyped DEF IInv, PartsRead, TypeOK
  <2>2. i = [entity |-> e, version |-> found[e], parts |-> found[e], removed |-> FALSE]
    BY <1>8, <2>1 DEF ItemOf
  <2>3. PICK n \in Nat : n = found[e]
    BY <2>1, VersionsTyped DEF IInv
  <2>4. Fresh(e, n)
    BY <1>8, <2>1, <2>3 DEF IInv, PageRead
  <2>5. Fresh(e, n)'
    BY <1>1, <1>6, <2>4 DEF Fresh, Logs
  <2>6. i \in Item /\ i.version = n /\ i.parts = n /\ i.entity = e /\ ~i.removed /\ n > 0
    BY <1>8, <2>1, <2>2, <2>3 DEF Item
  <2> QED BY <2>5, <2>6 DEF ItemTrue
<1>9. ASSUME NEW e \in EntitiesOf(page), NEW i, i = ItemOf(e), found[e] = 0
      PROVE  i \in Item /\ i.entity = e /\ ItemTrue(i)'
  <2>1. /\ e \in Entity /\ parts[e] = 0 /\ Deleted(e) /\ e \in EntitiesOf(log) /\ 0 \in Seq0
    BY <1>7, <1>9 DEF IInv, PartsRead, Seq0
  <2>2. i = [entity |-> e, version |-> LatestLogged(e), parts |-> 0, removed |-> TRUE]
    <3>1. (found[e] = 0) = TRUE /\ ~(found[e] > 0)
      BY <1>9
    <3>2. i = [entity |-> e, version |-> LatestLogged(e), parts |-> parts[e],
               removed |-> found[e] = 0]
      BY <1>9, <3>1 DEF ItemOf
    <3> QED BY <2>1, <3>1, <3>2, Zenon
  <2>3. PICK n \in Nat \ {0} :
          /\ n = LatestLogged(e) /\ n \in Seq0 /\ \E c \in log : c.entity = e /\ c.version = n
          /\ \A c \in log : c.entity = e => c.version <= n
    BY <1>2, <2>1, LatestIsLogged
  <2>4. i \in Item /\ i.version = n /\ i.entity = e /\ i.removed /\ n > 0
    BY <2>1, <2>2, <2>3 DEF Item
  <2>5. Logs(e, n)' /\ Deleted(e)'
    <3>1. Deleted(e)'
      BY <1>1, <2>1, WritersUntouched
    <3> QED BY <1>1, <2>3, <3>1 DEF Logs
  <2> QED BY <1>1, <2>3, <2>4, <2>5 DEF ItemTrue
<1>10. \A i \in answer'.items :
         /\ i \in Item /\ ItemTrue(i)'
         /\ \E c \in log : c.entity = i.entity /\ c.seq <= answer'.cursor
  <2> SUFFICES ASSUME NEW e \in EntitiesOf(page), NEW i, i = ItemOf(e)
               PROVE  /\ i \in Item /\ ItemTrue(i)'
                      /\ \E c \in log : c.entity = i.entity /\ c.seq <= answer'.cursor
    BY <1>4
  <2>1. i \in Item /\ i.entity = e /\ ItemTrue(i)'
    BY <1>7, <1>8, <1>9
  <2>2. \E c \in page : c.entity = e
    BY <1>7
  <2> QED BY <1>2, <1>3, <1>4, <2>1, <2>2
<1>11. TypeOK'
  <2>1. answer' \in Answer
    BY <1>1, <1>3, <1>4, <1>10 DEF Answer
  <2>2. observed' \in Seq0
    BY <1>1 DEF ObservedPull, IInv, TypeOK
  <2>3. found' \in [Entity -> Seq0] /\ parts' \in [Entity -> Seq0]
    BY <1>1 DEF Nothing, Seq0
  <2> QED BY <1>1, <2>1, <2>2, <2>3
          DEF IInv, TypeOK, cloudVars, writerVars, storedVars, PcLabels
<1>12. Transactions' /\ Numbers' /\ Versions'
  BY <1>1, WritersUntouched DEF IInv
<1>13. PageRead' /\ PartsRead'
  BY <1>1, NothingRead
<1>14. ASSUME NEW c \in log, Due(c)'
       PROVE  \/ c \in logged
              \/ page # logged /\ \A d \in logged : d.seq < c.seq
  <2>1. Due(c)
    BY <1>1, <1>6, <1>14 DEF Due, Served
  <2> QED BY <1>1, <2>1 DEF IInv, PageRead, page
<1>15. Answered'
  <2>1. ASSUME NEW c \in log, Due(c)', c.seq <= answer'.cursor
        PROVE  \E i \in answer'.items : i.entity = c.entity
    <3>1. c.seq \in Nat /\ c.seq > since /\ since \in Nat
      BY <1>1, <2>1, VersionsTyped DEF Due, IInv
    <3>2. PICK d \in page : c.seq <= d.seq
      BY <1>3, <1>4, <2>1, <3>1
    <3>3. d \in logged /\ d.seq \in Nat
      BY <1>2, SeqsAreNumbers
    <3>4. c \in logged
      BY <1>14, <2>1, <3>1, <3>2, <3>3
    <3>5. c \in page
      BY <1>2, <3>2, <3>4, FirstIsPrefix DEF page
    <3>6. c.entity \in EntitiesOf(page)
      BY <3>5 DEF EntitiesOf
    <3>7. ItemOf(c.entity) \in answer'.items
      BY <1>4, <3>6
    <3>8. ItemOf(c.entity).entity = c.entity
      BY DEF ItemOf
    <3> QED BY <3>7, <3>8
  <2>2. ASSUME ~answer'.more, NEW c \in log, Due(c)' PROVE c.seq <= answer'.cursor
    <3>1. page = logged
      BY <1>4, <2>2
    <3> QED BY <1>3, <1>4, <1>14, <2>2, <3>1
  <2> QED BY <1>1, <1>3, <1>4, <1>10, <2>1, <2>2 DEF Answered
<1>16. Asked'
  <2>1. observed' <= cursor
    <3>1. feed = "pull" => since = cursor
      BY <1>1 DEF IInv, Asked
    <3> QED BY <1>1, <3>1, VersionsTyped DEF IInv, Asked, ObservedPull
  <2> QED BY <1>1, <2>1 DEF IInv, Asked
<1>17. Replicated' /\ NothingSkipped' /\ NotTorn' /\ RedeliveredIsWhole'
  BY <1>1, SameReplica
<1> QED BY <1>6, <1>11, <1>12, <1>13, <1>15, <1>16, <1>17 DEF IInv

LEMMA HandleDelayedKeepsIInv == ASSUME IInv, HandleDelayed PROVE IInv'
<1>1. /\ \E n \in delayed : observed' = n /\ delayed' = delayed \ {n}
      /\ UNCHANGED <<cloudVars, writerVars, pageVars, pc, feed, since, answer, storedVars>>
      /\ UNCHANGED <<row, log, logged, pending, found, parts, cursor, redelivering,
                     redeliveryCursor, upgraded, replica>>
  BY DEF HandleDelayed, cloudVars, pageVars, storedVars
<1>2. \A n : Reached(n)' <=> Reached(n)
  BY <1>1, SameReached
<1>3. TypeOK'
  BY <1>1 DEF IInv, TypeOK, cloudVars, writerVars
<1>4. Transactions' /\ Numbers' /\ Versions'
  BY <1>1, WritersUntouched DEF IInv
<1>5. Horizon'
  BY <1>1, <1>2, NothingNewReached
<1>6. /\ \A e, n : Fresh(e, n)' <=> Fresh(e, n)
      /\ \A e : (Deleted(e)' <=> Deleted(e)) /\ (RowLocked(e)' <=> RowLocked(e))
      /\ \A c : Due(c)' <=> Due(c)
  <2>1. \A e, n : Fresh(e, n)' <=> Fresh(e, n)
    BY <1>1, <1>2 DEF Fresh, Logs
  <2>2. \A e : (Deleted(e)' <=> Deleted(e)) /\ (RowLocked(e)' <=> RowLocked(e))
    BY <1>1, WritersUntouched
  <2>3. \A c : Due(c)' <=> Due(c)
    BY <1>1, <1>2 DEF Due, Served
  <2> QED BY <2>1, <2>2, <2>3
<1>7. PageRead'
  BY <1>1, <1>6 DEF IInv, PageRead, EntitiesOf
<1>8. PartsRead'
  BY <1>1, <1>6 DEF IInv, PartsRead
<1>9. Answered'
  <2>1. \A i \in answer.items : ItemTrue(i)'
    BY <1>1, <1>6 DEF IInv, Answered, ItemTrue, Logs
  <2> QED BY <1>1, <1>6, <2>1 DEF IInv, Answered
<1>10. Asked'
  BY <1>1, <1>2 DEF IInv, Asked
<1>11. Replicated' /\ NothingSkipped' /\ NotTorn' /\ RedeliveredIsWhole'
  BY <1>1, SameReplica
<1> QED BY <1>3, <1>4, <1>5, <1>7, <1>8, <1>9, <1>10, <1>11 DEF IInv

-----------------------------------------------------------------------------
(* The register *)

\* What a step of the register keeps that reaches nothing new, outside a page under way.
LEMMA RegisterFrame ==
    ASSUME IInv, UNCHANGED <<cloudVars, writerVars, pageVars>>, pc # "reading", pc' # "reading",
           pc' # "answered", answer' = NoAnswer, \A n \in Nat : Reached(n)' => Reached(n)
    PROVE  /\ Transactions' /\ Numbers' /\ Versions' /\ Horizon' /\ PageRead' /\ PartsRead'
           /\ Answered'
           /\ \A c \in log : Reached(c.seq)' => Reached(c.seq)
           /\ UNCHANGED <<row, log, lastSeq>>
<1>1. Transactions' /\ Numbers' /\ Versions'
  BY WritersUntouched DEF IInv
<1>2. Horizon' /\ \A c \in log : Reached(c.seq)' => Reached(c.seq)
  BY NothingNewReached
<1>3. PageRead' /\ PartsRead'
  BY NothingRead DEF IInv, PageRead, pageVars
<1>4. Answered'
  BY DEF Answered, NoAnswer
<1> QED BY <1>1, <1>2, <1>3, <1>4 DEF cloudVars

\* An answer that is forgotten, or none, reaches nothing.
LEMMA LessReached ==
    ASSUME IInv, UNCHANGED <<cursor, logged>>, answer' = NoAnswer,
           since' = since \/ since' = cursor \/ since' = answer.cursor
             \/ \E k \in Kind : since' = redeliveryCursor[k],
           \A k \in Kind : redeliveryCursor'[k] \in {0, redeliveryCursor[k]},
           NEW n \in Nat, Reached(n)'
    PROVE  Reached(n)
<1>1. cursor \in Nat
  BY VersionsTyped DEF IInv
<1>2. n <= 0 => n <= cursor
  BY <1>1
<1>3. n <= answer'.cursor => n <= cursor
  BY <1>2 DEF NoAnswer
<1>4. n <= since' => Reached(n)
  BY DEF Reached
<1>5. ASSUME NEW k \in Kind, n <= redeliveryCursor'[k] PROVE Reached(n)
  BY <1>2, <1>5 DEF Reached
<1> QED BY <1>3, <1>4, <1>5 DEF Reached

LEMMA StartPullKeepsIInv == ASSUME IInv, StartPull PROVE IInv'
<1>1. /\ pc = "idle" /\ pc' = "asking" /\ feed' = "pull" /\ since' = cursor
      /\ UNCHANGED <<cloudVars, observed, writerVars, pageVars, delayed, answer, storedVars>>
      /\ UNCHANGED <<log, logged, cursor, redelivering, redeliveryCursor, upgraded, replica>>
  BY DEF StartPull, cloudVars, pageVars, storedVars
<1>2. answer = NoAnswer
  BY <1>1 DEF IInv, Answered
<1>3. \A n \in Nat : Reached(n)' => Reached(n)
  BY <1>1, <1>2, LessReached
<1>4. TypeOK'
  BY <1>1 DEF IInv, TypeOK, cloudVars, writerVars, pageVars, PcLabels
<1>5. /\ Transactions' /\ Numbers' /\ Versions' /\ Horizon' /\ PageRead' /\ PartsRead' /\ Answered'
  BY <1>1, <1>2, <1>3, RegisterFrame
<1>6. Asked'
  BY <1>1 DEF IInv, Asked
<1>7. Replicated' /\ NothingSkipped' /\ NotTorn' /\ RedeliveredIsWhole'
  BY <1>1, SameReplica
<1> QED BY <1>4, <1>5, <1>6, <1>7 DEF IInv

LEMMA NextRedeliveryKeepsIInv == ASSUME IInv, NextRedelivery PROVE IInv'
<1>1. /\ pc = "caught_up" /\ pc' = "asking"
      /\ UNCHANGED <<cloudVars, observed, writerVars, pageVars, delayed, answer, storedVars>>
      /\ UNCHANGED <<log, logged, cursor, redelivering, redeliveryCursor, upgraded, replica>>
  BY DEF NextRedelivery, cloudVars, pageVars, storedVars
<1>2. PICK k \in redelivering : feed' = k /\ since' = redeliveryCursor[k]
  BY DEF NextRedelivery
<1>3. answer = NoAnswer /\ k \in Kind /\ k # "pull"
  BY <1>1 DEF IInv, Answered, TypeOK
<1>4. \A n \in Nat : Reached(n)' => Reached(n)
  BY <1>1, <1>2, <1>3, LessReached
<1>5. TypeOK'
  BY <1>1, <1>2, <1>3 DEF IInv, TypeOK, cloudVars, writerVars, pageVars, PcLabels
<1>6. /\ Transactions' /\ Numbers' /\ Versions' /\ Horizon' /\ PageRead' /\ PartsRead' /\ Answered'
  BY <1>1, <1>3, <1>4, RegisterFrame
<1>7. Asked'
  BY <1>1, <1>2, <1>3 DEF IInv, Asked
<1>8. Replicated' /\ NothingSkipped' /\ NotTorn' /\ RedeliveredIsWhole'
  BY <1>1, SameReplica
<1> QED BY <1>5, <1>6, <1>7, <1>8 DEF IInv

LEMMA EndPullKeepsIInv == ASSUME IInv, EndPull PROVE IInv'
<1>1. /\ pc = "caught_up" /\ pc' = "idle"
      /\ UNCHANGED <<cloudVars, observed, writerVars, pageVars, delayed, feed, since, answer, storedVars>>
      /\ UNCHANGED <<log, logged, cursor, redelivering, redeliveryCursor, upgraded, replica>>
  BY DEF EndPull, cloudVars, pageVars, storedVars
<1>2. answer = NoAnswer
  BY <1>1 DEF IInv, Answered
<1>3. \A n \in Nat : Reached(n)' => Reached(n)
  BY <1>1, <1>2, LessReached
<1>4. TypeOK'
  BY <1>1 DEF IInv, TypeOK, cloudVars, writerVars, pageVars, PcLabels
<1>5. /\ Transactions' /\ Numbers' /\ Versions' /\ Horizon' /\ PageRead' /\ PartsRead' /\ Answered'
  BY <1>1, <1>2, <1>3, RegisterFrame
<1>6. Asked'
  BY <1>1 DEF IInv, Asked
<1>7. Replicated' /\ NothingSkipped' /\ NotTorn' /\ RedeliveredIsWhole'
  BY <1>1, SameReplica
<1> QED BY <1>4, <1>5, <1>6, <1>7 DEF IInv

LEMMA StopKeepsIInv == ASSUME IInv, Stop PROVE IInv'
<1>1. /\ pc # "reading" /\ pc' = "idle" /\ answer' = NoAnswer
      /\ UNCHANGED <<cloudVars, observed, writerVars, pageVars, feed, since, storedVars>>
      /\ UNCHANGED <<log, logged, cursor, redelivering, redeliveryCursor, upgraded, replica>>
      /\ \/ delayed' = delayed
         \/ pc = "asking" /\ feed = "pull" /\ delayed' = delayed \cup {since}
  BY DEF Stop, ForgetPull, cloudVars, pageVars, storedVars
<1>2. \A n \in Nat : Reached(n)' => Reached(n)
  BY <1>1, LessReached
<1>3. TypeOK'
  <2>1. NoAnswer \in Answer
    BY DEF NoAnswer, Answer, Seq0
  <2>2. delayed' \in SUBSET Seq0
    BY <1>1 DEF IInv, TypeOK
  <2> QED BY <1>1, <2>1, <2>2 DEF IInv, TypeOK, cloudVars, writerVars, pageVars, PcLabels
<1>4. /\ Transactions' /\ Numbers' /\ Versions' /\ Horizon' /\ PageRead' /\ PartsRead' /\ Answered'
  BY <1>1, <1>2, RegisterFrame
<1>5. Asked'
  <2>1. pc = "asking" /\ feed = "pull" => since = cursor /\ since <= cursor
    BY VersionsTyped DEF IInv, Asked
  <2>2. \A n \in delayed' : n <= cursor
    BY <1>1, <2>1 DEF IInv, Asked
  <2> QED BY <1>1, <2>2 DEF IInv, Asked
<1>6. Replicated' /\ NothingSkipped' /\ NotTorn' /\ RedeliveredIsWhole'
  BY <1>1, SameReplica
<1> QED BY <1>3, <1>4, <1>5, <1>6 DEF IInv

LEMMA UpgradeKeepsIInv == ASSUME IInv, Upgrade PROVE IInv'
<1>1. /\ ~upgraded /\ upgraded' = TRUE /\ redelivering' = {KindOf[e] : e \in HeldBack \cup Widened}
      /\ redeliveryCursor' = [k \in Kind |-> 0]
      /\ replica' = [e \in Entity |->
            IF e \in Widened /\ replica[e].version > 0 THEN [replica[e] EXCEPT !.whole = FALSE]
                                                       ELSE replica[e]]
      /\ pc # "reading" /\ pc' = "idle" /\ answer' = NoAnswer
      /\ UNCHANGED <<cloudVars, observed, writerVars, pageVars, feed, since, delayed, cursor>>
      /\ UNCHANGED <<row, log, logged>>
  BY DEF Upgrade, ForgetPull, cloudVars, pageVars
<1>2. \A n \in Nat : Reached(n)' => Reached(n)
  <2>1. \A k \in Kind : redeliveryCursor'[k] = 0
    BY <1>1
  <2> QED BY <1>1, <2>1, LessReached
<1>3. redelivering = {} /\ \A e \in Entity : replica[e].whole
  BY <1>1 DEF IInv, Asked, Replicated
<1>4. ASSUME NEW e \in Entity
      PROVE  /\ replica'[e] \in Copy /\ replica'[e].version = replica[e].version
             /\ replica'[e].parts = replica[e].parts /\ replica'[e].removed = replica[e].removed
             /\ ~replica'[e].whole => e \in Widened /\ replica[e].version > 0
  <2>1. replica[e] \in Copy /\ replica[e].whole
    BY <1>3, VersionsTyped DEF IInv
  <2>2. CASE e \in Widened /\ replica[e].version > 0
    <3>1. replica'[e] = [replica[e] EXCEPT !.whole = FALSE]
      BY <1>1, <2>2
    <3> QED BY <2>1, <2>2, <3>1 DEF Copy
  <2>3. CASE ~(e \in Widened /\ replica[e].version > 0)
    <3>1. replica'[e] = replica[e]
      BY <1>1, <2>3
    <3> QED BY <2>1, <3>1
  <2> QED BY <2>2, <2>3
<1>5. TypeOK'
  <2>1. NoAnswer \in Answer
    BY DEF NoAnswer, Answer, Seq0
  <2>2. replica' \in [Entity -> Copy]
    BY <1>1, <1>4
  <2>3. redelivering' \in SUBSET Kind /\ redeliveryCursor' \in [Kind -> Seq0]
    BY <1>1 DEF Seq0
  <2> QED BY <1>1, <2>1, <2>2, <2>3 DEF IInv, TypeOK, cloudVars, writerVars, pageVars, PcLabels
<1>6. /\ Transactions' /\ Numbers' /\ Versions' /\ Horizon' /\ PageRead' /\ PartsRead' /\ Answered'
  BY <1>1, <1>2, RegisterFrame
<1>7. Asked'
  BY <1>1 DEF IInv, Asked
<1>8. \A c \in log : c.entity \in Entity /\ c.seq \in Nat \ {0} /\ KindOf[c.entity] \in Kind
  BY VersionsTyped DEF IInv
<1>9. Replicated'
  <2>1. ASSUME NEW e \in Entity
        PROVE  /\ replica'[e].version > 0 => Logs(e, replica[e].version)'
               /\ replica'[e].version > 0 /\ ~replica'[e].removed /\ row'[e] = 0 =>
                     \E c \in log' : c.entity = e /\ c.version >= replica'[e].version + 1
               /\ ~upgraded' \/ replica'[e].version = 0 => replica'[e].whole
               /\ (~upgraded' /\ replica'[e].version > 0) \/ ~replica'[e].whole =>
                     \E c \in log' : c.entity = e /\ c.seq <= cursor'
    <3>1. replica'[e].version > 0 => \E c \in log' : c.entity = e /\ c.version >= replica'[e].version
      BY <1>1, <1>4 DEF IInv, Replicated, Logs
    <3>2. ~replica'[e].whole => \E c \in log' : c.entity = e /\ c.seq <= cursor'
      BY <1>1, <1>4 DEF IInv, Replicated
    <3>3. replica'[e].version = 0 => replica'[e].whole
      BY <1>4
    <3>4. replica'[e].version > 0 /\ ~replica'[e].removed /\ row'[e] = 0 =>
             \E c \in log' : c.entity = e /\ c.version >= replica'[e].version + 1
      BY <1>1, <1>4 DEF IInv, Replicated, Logs
    <3> QED BY <1>1, <3>1, <3>2, <3>3, <3>4 DEF Logs
  <2>2. ASSUME NEW c \in log PROVE ~(c.seq <= redeliveryCursor'[KindOf[c.entity]])
    BY <1>1, <1>8
  <2> QED BY <1>1, <2>1, <2>2 DEF Replicated, Logs
<1>10. NothingSkipped'
  <2> SUFFICES ASSUME NEW c \in log, Behind(c)' PROVE Holds(c)'
    BY <1>1 DEF NothingSkipped
  <2>1. c.entity \notin HeldBack
    <3> SUFFICES ASSUME c.entity \in HeldBack PROVE FALSE
      OBVIOUS
    <3>1. KindOf[c.entity] \in redelivering' /\ redeliveryCursor'[KindOf[c.entity]] = 0
      BY <1>1, <1>8
    <3>2. c.seq <= 0
      BY <3>1 DEF Behind
    <3> QED BY <1>8, <3>2
  <2>2. Holds(c)
    BY <1>1, <2>1 DEF Behind, IInv, NothingSkipped
  <2> QED BY <1>1, <1>4, <1>8, <2>2 DEF Holds
<1>11. NotTorn'
  BY <1>4 DEF IInv, NotTorn
<1>12. RedeliveredIsWhole'
  BY <1>1, <1>4 DEF RedeliveredIsWhole
<1> QED BY <1>5, <1>6, <1>7, <1>9, <1>10, <1>11, <1>12 DEF IInv

\* What saving a page makes of a row.
LEMMA SavedSpec ==
    ASSUME IInv, pc = "answered", NEW e \in Entity
    PROVE  LET copy == replica[e]
               new == Saved(e)
               sent == \E i \in answer.items : i.entity = e
           IN  /\ new \in Copy /\ new.version >= copy.version /\ new.parts = new.version
               /\ ~sent => new = copy
               /\ sent => \A c \in log : c.entity = e /\ Reached(c.seq) =>
                             new.version >= c.version \/ (new.version = 0 /\ row[e] = 0)
               /\ sent /\ feed # "pull" => new.whole \/ new.removed
               /\ copy.whole => new.whole
               /\ copy.whole \/ copy.removed => new.whole \/ new.removed
               /\ new.version = 0 => new.whole
               /\ new.version > 0 => Logs(e, new.version)
               /\ new.version > 0 /\ ~new.removed /\ row[e] = 0 => Logs(e, new.version + 1)
<1> DEFINE copy == replica[e]
           new == Saved(e)
           sent == \E i \in answer.items : i.entity = e
           item == CHOOSE i \in answer.items : i.entity = e
<1>1. /\ copy \in Copy /\ copy.version \in Nat /\ copy.parts = copy.version
      /\ copy.version = 0 => copy.whole
      /\ copy.version > 0 => Logs(e, copy.version)
      /\ copy.version > 0 /\ ~copy.removed /\ row[e] = 0 => Logs(e, copy.version + 1)
      /\ copy.version \in Seq0
  BY VersionsTyped DEF IInv, Replicated, NotTorn, TypeOK, Copy
<1>2. CASE ~sent
  <2>1. new = copy
    BY <1>2 DEF Saved
  <2> QED BY <1>1, <1>2, <2>1
<1>3. CASE sent
  <2>1. item \in answer.items /\ item.entity = e
    BY <1>3
  <2>2. new = IF item.removed
              THEN IF copy.version > 0 /\ copy.version < item.version
                   THEN [copy EXCEPT !.version = item.version, !.parts = item.version,
                                     !.removed = TRUE]
                   ELSE copy
              ELSE IF copy.version = 0 \/ Accepted(item.version, copy.version)
                   THEN [version |-> item.version, parts |-> item.parts, removed |-> FALSE,
                         whole |-> TRUE]
                   ELSE copy
    BY <1>3 DEF Saved
  <2> HIDE DEF item
  <2>3. item \in Item /\ item.version \in Nat /\ item.version \in Seq0 /\ ItemTrue(item)
    BY <2>1, VersionsTyped DEF IInv, Answered, Item
  <2>4. \A c \in log : c.version \in Nat
    BY VersionsTyped DEF IInv
  <2> HIDE DEF new
  <2>5. CASE item.removed
    <3>1. /\ row[e] = 0 /\ item.version > 0 /\ Logs(e, item.version)
          /\ \A c \in log : c.entity = e => c.version <= item.version
      BY <2>1, <2>3, <2>5 DEF ItemTrue, Deleted
    <3>2. CASE copy.version > 0 /\ copy.version < item.version
      <4>1. new = [copy EXCEPT !.version = item.version, !.parts = item.version, !.removed = TRUE]
        BY <2>2, <2>5, <3>2
      <4>2. /\ new \in Copy /\ new.version = item.version /\ new.parts = item.version
            /\ new.removed /\ new.whole = copy.whole
        BY <1>1, <2>3, <4>1 DEF Copy
      <4> QED BY <1>1, <1>3, <2>3, <2>4, <3>1, <3>2, <4>2 DEF new
    <3>3. CASE ~(copy.version > 0 /\ copy.version < item.version)
      <4>1. new = copy
        BY <2>2, <2>5, <3>3
      <4>2. copy.version > 0 => copy.removed
        <5> SUFFICES ASSUME copy.version > 0, ~copy.removed PROVE FALSE
          OBVIOUS
        <5>1. PICK c \in log : c.entity = e /\ c.version >= copy.version + 1
          BY <1>1, <3>1 DEF Logs
        <5> QED BY <1>1, <2>3, <2>4, <3>1, <3>3, <5>1
      <4>3. \A c \in log : c.entity = e => copy.version >= c.version \/ copy.version = 0
        BY <1>1, <2>3, <2>4, <3>1, <3>3
      <4> QED BY <1>1, <1>3, <3>1, <4>1, <4>2, <4>3 DEF new
    <3> QED BY <3>2, <3>3
  <2>6. CASE ~item.removed
    <3>1. item.version > 0 /\ item.parts = item.version /\ Fresh(e, item.version)
      BY <2>1, <2>3, <2>6 DEF ItemTrue
    <3>2. /\ \A c \in log : c.entity = e /\ Reached(c.seq) => c.version <= item.version
          /\ Logs(e, item.version) /\ copy.version <= item.version
          /\ row[e] = 0 => Logs(e, item.version + 1)
      BY <3>1 DEF Fresh
    <3>3. CASE copy.version = 0 \/ Accepted(item.version, copy.version)
      <4>1. new = [version |-> item.version, parts |-> item.parts, removed |-> FALSE, whole |-> TRUE]
        BY <2>2, <2>6, <3>3
      <4>2. /\ new \in Copy /\ new.version = item.version /\ new.parts = item.version
            /\ ~new.removed /\ new.whole
        BY <2>3, <3>1, <4>1 DEF Copy
      <4> QED BY <1>1, <1>3, <2>3, <2>4, <3>1, <3>2, <4>2 DEF new
    <3>4. CASE ~(copy.version = 0 \/ Accepted(item.version, copy.version))
      <4>1. new = copy /\ feed = "pull" /\ copy.version = item.version
        BY <1>1, <2>2, <2>3, <2>6, <3>2, <3>4 DEF Accepted
      <4> QED BY <1>1, <1>3, <2>4, <3>2, <4>1 DEF new
    <3> QED BY <3>3, <3>4
  <2> QED BY <2>5, <2>6
<1> QED BY <1>2, <1>3

\* What saving a page does to the replica, of a pull and of a redelivery alike.
LEMMA SavedReplica ==
    ASSUME IInv, pc = "answered", replica' = [e \in Entity |-> Saved(e)], UNCHANGED cloudVars
    PROVE  /\ replica' \in [Entity -> Copy] /\ NotTorn'
           /\ \A e \in Entity : InNewVersion(e) => InNewVersion(e)'
           /\ \A c \in log : Holds(c) /\ Reached(c.seq) => Holds(c)'
           /\ \A c \in log : Reached(c.seq) /\ (\E i \in answer.items : i.entity = c.entity) =>
                 Holds(c)' /\ (feed # "pull" => InNewVersion(c.entity)')
           /\ \A e \in Entity :
                 /\ replica'[e].version > 0 =>
                       \E c \in log : c.entity = e /\ c.version >= replica'[e].version
                 /\ replica'[e].version > 0 /\ ~replica'[e].removed /\ row[e] = 0 =>
                       \E c \in log : c.entity = e /\ c.version >= replica'[e].version + 1
                 /\ replica'[e].version = 0 => replica'[e].whole
                 /\ replica[e].whole => replica'[e].whole
                 /\ replica'[e].version > 0 =>
                       replica[e].version > 0 \/ \E i \in answer.items : i.entity = e
<1>1. \A e \in Entity : replica'[e] = Saved(e)
  OBVIOUS
<1>2. UNCHANGED <<row, log>> /\ \A c \in log : c.entity \in Entity /\ c.version \in Nat
  BY VersionsTyped DEF cloudVars, IInv
<1>3. ASSUME NEW e \in Entity
      PROVE  /\ replica'[e] \in Copy /\ replica'[e].version >= replica[e].version
             /\ replica'[e].parts = replica'[e].version
             /\ replica'[e].version \in Nat /\ replica[e].version \in Nat
             /\ ~(\E i \in answer.items : i.entity = e) => replica'[e] = replica[e]
             /\ InNewVersion(e) => InNewVersion(e)'
             /\ replica[e].whole => replica'[e].whole
             /\ replica'[e].version = 0 => replica'[e].whole
             /\ replica'[e].version > 0 => Logs(e, replica'[e].version)
             /\ replica'[e].version > 0 /\ ~replica'[e].removed /\ row[e] = 0 =>
                   Logs(e, replica'[e].version + 1)
    <2>1. replica'[e] \in Copy /\ replica'[e].version \in Nat /\ replica[e].version \in Nat
      BY <1>1, SavedSpec, VersionsTyped DEF Copy, Seq0, IInv
    <2> QED BY <1>1, <2>1, SavedSpec DEF InNewVersion
<1>4. ASSUME NEW c \in log, Reached(c.seq), \E i \in answer.items : i.entity = c.entity
      PROVE  Holds(c)' /\ (feed # "pull" => InNewVersion(c.entity)')
  BY <1>1, <1>2, <1>4, SavedSpec DEF Holds, InNewVersion
<1>5. ASSUME NEW c \in log, Holds(c), Reached(c.seq) PROVE Holds(c)'
  <2>1. CASE \E i \in answer.items : i.entity = c.entity
    BY <1>4, <1>5, <2>1
  <2>2. CASE ~(\E i \in answer.items : i.entity = c.entity)
    <3>1. replica'[c.entity] = replica[c.entity]
      BY <1>2, <1>3, <2>2
    <3> QED BY <1>2, <1>5, <3>1 DEF Holds
  <2> QED BY <2>1, <2>2
<1>6. NotTorn'
  BY <1>3 DEF NotTorn
<1>7. ASSUME NEW e \in Entity
      PROVE  /\ replica'[e].version > 0 =>
                   \E c \in log : c.entity = e /\ c.version >= replica'[e].version
             /\ replica'[e].version > 0 /\ ~replica'[e].removed /\ row[e] = 0 =>
                   \E c \in log : c.entity = e /\ c.version >= replica'[e].version + 1
             /\ replica'[e].version > 0 =>
                   replica[e].version > 0 \/ \E i \in answer.items : i.entity = e
  BY <1>3 DEF Logs
<1>8. replica' \in [Entity -> Copy]
  BY <1>3
<1> QED BY <1>3, <1>4, <1>5, <1>6, <1>7, <1>8

LEMMA SavePageKeepsIInv == ASSUME IInv, SavePage PROVE IInv'
<1>1. /\ pc = "answered" /\ feed = "pull" /\ replica' = [e \in Entity |-> Saved(e)]
      /\ cursor' = answer.cursor /\ since' = answer.cursor
      /\ pc' = (IF answer.more THEN "asking" ELSE "caught_up")
      /\ answer' = NoAnswer
      /\ UNCHANGED <<cloudVars, observed, writerVars, pageVars, delayed, feed, redelivering,
                     redeliveryCursor, upgraded>>
      /\ UNCHANGED <<row, log, logged>>
  BY DEF SavePage, cloudVars, pageVars
<1>2. /\ since = cursor /\ since <= answer.cursor /\ cursor <= answer.cursor
      /\ cursor \in Nat /\ answer.cursor \in Nat /\ answer.cursor \in Seq0
      /\ \A c \in log : c.seq \in Nat /\ c.entity \in Entity
  BY <1>1, VersionsTyped DEF IInv, Asked, Answered, Answer
<1>3. \A n \in Nat : Reached(n)' => Reached(n)
  <2> SUFFICES ASSUME NEW n \in Nat, Reached(n)' PROVE Reached(n)
    OBVIOUS
  <2>1. n <= answer'.cursor => n <= cursor
    BY <1>1, <1>2 DEF NoAnswer
  <2> QED BY <1>1, <2>1 DEF Reached
<1>4. TypeOK'
  <2>1. NoAnswer \in Answer
    BY DEF NoAnswer, Answer, Seq0
  <2>2. replica' \in [Entity -> Copy]
    BY <1>1, SavedReplica
  <2> QED BY <1>1, <1>2, <2>1, <2>2 DEF IInv, TypeOK, cloudVars, writerVars, pageVars, PcLabels
<1>5. /\ Transactions' /\ Numbers' /\ Versions' /\ Horizon' /\ PageRead' /\ PartsRead' /\ Answered'
  BY <1>1, <1>3, RegisterFrame
<1>6. Asked'
  <2>1. observed <= answer.cursor /\ \A n \in delayed : n <= answer.cursor
    BY <1>2, VersionsTyped DEF IInv, Asked
  <2> QED BY <1>1, <2>1 DEF IInv, Asked
<1>7. \A c \in log : c.seq <= answer.cursor => Reached(c.seq)
  BY DEF Reached
<1>8. ASSUME NEW c \in log, c.seq <= answer.cursor, c.seq > cursor, Served(c.entity)
      PROVE  \E i \in answer.items : i.entity = c.entity
  BY <1>1, <1>2, <1>7, <1>8 DEF IInv, Answered, Due
<1>9. Replicated'
  <2>1. ASSUME NEW e \in Entity, (~upgraded /\ replica'[e].version > 0) \/ ~replica'[e].whole
        PROVE  \E c \in log : c.entity = e /\ c.seq <= answer.cursor
    <3>1. CASE (~upgraded /\ replica[e].version > 0) \/ ~replica[e].whole
      <4>1. PICK c \in log : c.entity = e /\ c.seq <= cursor
        BY <3>1 DEF IInv, Replicated
      <4> QED BY <1>2, <4>1
    <3>2. CASE \E i \in answer.items : i.entity = e
      BY <3>2 DEF IInv, Answered
    <3> QED BY <1>1, <2>1, <3>1, <3>2, SavedReplica
  <2>2. \A e \in Entity : ~upgraded => replica'[e].whole
    BY <1>1, SavedReplica DEF IInv, Replicated
  <2>3. \A c \in log : KindOf[c.entity] \in redelivering
                       /\ c.seq <= redeliveryCursor[KindOf[c.entity]] => InNewVersion(c.entity)'
    BY <1>1, <1>2, SavedReplica DEF IInv, Replicated
  <2> QED BY <1>1, <2>1, <2>2, <2>3, SavedReplica DEF Replicated, Logs
<1>10. NothingSkipped'
  <2> SUFFICES ASSUME NEW c \in log, Behind(c)' PROVE Holds(c)'
    BY <1>1 DEF NothingSkipped
  <2>1. CASE Behind(c)
    <3>1. Holds(c)
      BY <2>1 DEF IInv, NothingSkipped
    <3>2. Reached(c.seq)
      <4>1. KindOf[c.entity] \in Kind
        BY <1>2
      <4> QED BY <2>1, <4>1 DEF Behind, Reached
    <3> QED BY <1>1, <3>1, <3>2, SavedReplica
  <2>2. CASE ~Behind(c)
    <3>1. c.seq <= answer.cursor /\ ~(c.seq <= cursor) /\ Served(c.entity)
      BY <1>1, <2>2 DEF Behind, Served
    <3>2. \E i \in answer.items : i.entity = c.entity
      BY <1>2, <1>8, <3>1
    <3> QED BY <1>1, <1>7, <3>1, <3>2, SavedReplica
  <2> QED BY <2>1, <2>2
<1>11. NotTorn'
  BY <1>1, SavedReplica
<1>12. RedeliveredIsWhole'
  BY <1>1, SavedReplica DEF IInv, RedeliveredIsWhole, InNewVersion
<1> QED BY <1>4, <1>5, <1>6, <1>9, <1>10, <1>11, <1>12 DEF IInv

LEMMA SaveRedeliveredPageKeepsIInv == ASSUME IInv, SaveRedeliveredPage PROVE IInv'
<1>1. /\ pc = "answered" /\ feed # "pull" /\ replica' = [e \in Entity |-> Saved(e)]
      /\ redeliveryCursor' = [redeliveryCursor EXCEPT ![feed] = answer.cursor]
      /\ since' = answer.cursor
      /\ pc' = (IF answer.more THEN "asking" ELSE "redelivered")
      /\ answer' = NoAnswer
      /\ UNCHANGED <<cloudVars, observed, writerVars, pageVars, delayed, feed, cursor,
                     redelivering, upgraded>>
      /\ UNCHANGED <<row, log, logged>>
  BY DEF SaveRedeliveredPage, cloudVars, pageVars
<1>2. /\ feed \in redelivering /\ feed \in Kind /\ upgraded
      /\ since = redeliveryCursor[feed] /\ since <= answer.cursor
      /\ cursor \in Nat /\ since \in Nat /\ answer.cursor \in Nat /\ answer.cursor \in Seq0
      /\ \A c \in log : c.seq \in Nat /\ c.entity \in Entity /\ KindOf[c.entity] \in Kind
  BY <1>1, VersionsTyped DEF IInv, Asked, Answered, Answer, TypeOK
<1>3. /\ redeliveryCursor'[feed] = answer.cursor
      /\ \A k \in Kind : k # feed => redeliveryCursor'[k] = redeliveryCursor[k]
  BY <1>1, <1>2 DEF IInv, TypeOK
<1>4. \A n \in Nat : Reached(n)' => Reached(n)
  <2> SUFFICES ASSUME NEW n \in Nat, Reached(n)' PROVE Reached(n)
    OBVIOUS
  <2>1. n <= answer'.cursor => n <= cursor
    BY <1>1, <1>2 DEF NoAnswer
  <2>2. ASSUME NEW k \in Kind, n <= redeliveryCursor'[k] PROVE Reached(n)
    BY <1>3, <2>2 DEF Reached
  <2> QED BY <1>1, <2>1, <2>2 DEF Reached
<1>5. TypeOK'
  <2>1. NoAnswer \in Answer
    BY DEF NoAnswer, Answer, Seq0
  <2>2. replica' \in [Entity -> Copy]
    BY <1>1, SavedReplica
  <2>3. redeliveryCursor' \in [Kind -> Seq0]
    BY <1>1, <1>2 DEF IInv, TypeOK
  <2> QED BY <1>1, <1>2, <2>1, <2>2, <2>3
          DEF IInv, TypeOK, cloudVars, writerVars, pageVars, PcLabels
<1>6. /\ Transactions' /\ Numbers' /\ Versions' /\ Horizon' /\ PageRead' /\ PartsRead' /\ Answered'
      /\ \A c \in log : Reached(c.seq)' => Reached(c.seq)
  BY <1>1, <1>4, RegisterFrame
<1>7. \A c \in log : c.seq <= answer.cursor => Reached(c.seq)
  BY DEF Reached
<1>8. \A c \in log : KindOf[c.entity] = feed => Served(c.entity)
  BY <1>2 DEF Served
<1>9. Asked'
  <2>1. ASSUME ~answer.more, NEW c \in log, Reached(c.seq)', KindOf[c.entity] = feed
        PROVE  c.seq <= answer.cursor
    <3>1. Reached(c.seq) /\ Served(c.entity)
      BY <1>6, <1>8, <2>1
    <3>2. CASE c.seq > since
      BY <1>1, <2>1, <3>1, <3>2 DEF IInv, Answered, Due
    <3>3. CASE ~(c.seq > since)
      BY <1>2, <3>3
    <3> QED BY <3>2, <3>3
  <2>2. observed <= cursor /\ \A n \in delayed : n <= cursor
    BY DEF IInv, Asked
  <2> QED BY <1>1, <1>2, <1>3, <2>1, <2>2 DEF Asked
<1>10. ASSUME NEW c \in log, KindOf[c.entity] = feed, c.seq <= answer.cursor,
              ~(c.seq <= redeliveryCursor[feed])
       PROVE  Reached(c.seq) /\ \E i \in answer.items : i.entity = c.entity
  BY <1>1, <1>2, <1>7, <1>8, <1>10 DEF IInv, Answered, Due
<1>11. Replicated'
  <2>1. ASSUME NEW e \in Entity, ~replica'[e].whole
        PROVE  \E c \in log : c.entity = e /\ c.seq <= cursor
    BY <1>1, <2>1, SavedReplica DEF IInv, Replicated
  <2>2. ASSUME NEW c \in log, KindOf[c.entity] \in redelivering,
               c.seq <= redeliveryCursor'[KindOf[c.entity]]
        PROVE  InNewVersion(c.entity)'
    <3>1. CASE c.seq <= redeliveryCursor[KindOf[c.entity]]
      BY <1>1, <1>2, <2>2, <3>1, SavedReplica DEF IInv, Replicated
    <3>2. CASE ~(c.seq <= redeliveryCursor[KindOf[c.entity]])
      <4>1. KindOf[c.entity] = feed /\ c.seq <= answer.cursor
        BY <1>2, <1>3, <2>2, <3>2
      <4> QED BY <1>1, <1>10, <3>2, <4>1, SavedReplica
    <3> QED BY <3>1, <3>2
  <2> QED BY <1>1, <1>2, <2>1, <2>2, SavedReplica DEF Replicated, Logs
<1>12. NothingSkipped'
  <2> SUFFICES ASSUME NEW c \in log, Behind(c)' PROVE Holds(c)'
    BY <1>1 DEF NothingSkipped
  <2>1. CASE Behind(c)
    <3>1. Holds(c)
      BY <2>1 DEF IInv, NothingSkipped
    <3>2. Reached(c.seq)
      BY <1>2, <2>1 DEF Behind, Reached
    <3> QED BY <1>1, <3>1, <3>2, SavedReplica
  <2>2. CASE ~Behind(c)
    <3>1. /\ KindOf[c.entity] = feed /\ c.seq <= answer.cursor
          /\ ~(c.seq <= redeliveryCursor[feed])
      BY <1>1, <1>2, <1>3, <2>2 DEF Behind
    <3> QED BY <1>1, <1>10, <3>1, SavedReplica
  <2> QED BY <2>1, <2>2
<1>13. NotTorn'
  BY <1>1, SavedReplica
<1>14. RedeliveredIsWhole'
  BY <1>1, SavedReplica DEF IInv, RedeliveredIsWhole, InNewVersion
<1> QED BY <1>5, <1>6, <1>9, <1>11, <1>12, <1>13, <1>14 DEF IInv

LEMMA FinishRedeliveryKeepsIInv == ASSUME IInv, FinishRedelivery PROVE IInv'
<1>1. /\ pc = "redelivered" /\ pc' = "caught_up" /\ redelivering' = redelivering \ {feed}
      /\ UNCHANGED <<cloudVars, observed, writerVars, pageVars, delayed, feed, since, answer,
                     cursor, redeliveryCursor, upgraded, replica>>
      /\ UNCHANGED <<row, log, logged>>
  BY DEF FinishRedelivery, cloudVars, pageVars
<1>2. answer = NoAnswer /\ feed \in redelivering /\ upgraded
  BY <1>1 DEF IInv, Answered, Asked
<1>3. \A c \in log : /\ c.entity \in Entity /\ c.seq \in Nat
                     /\ c.seq <= cursor /\ KindOf[c.entity] = feed => c.seq <= redeliveryCursor[feed]
  BY <1>1, VersionsTyped DEF IInv, Asked, Reached
<1>4. \A n \in Nat : Reached(n)' => Reached(n)
  BY <1>1, <1>2, LessReached
<1>5. TypeOK'
  BY <1>1 DEF IInv, TypeOK, cloudVars, writerVars, pageVars, PcLabels
<1>6. /\ Transactions' /\ Numbers' /\ Versions' /\ Horizon' /\ PageRead' /\ PartsRead' /\ Answered'
  BY <1>1, <1>2, <1>4, RegisterFrame
<1>7. Asked'
  BY <1>1, <1>2 DEF IInv, Asked
<1>8. Replicated'
  BY <1>1 DEF IInv, Replicated, Logs, InNewVersion
<1>9. NothingSkipped'
  BY <1>1, <1>2, <1>3 DEF IInv, NothingSkipped, Behind, Holds
<1>10. NotTorn'
  BY <1>1 DEF IInv, NotTorn
<1>11. RedeliveredIsWhole'
  <2> SUFFICES ASSUME NEW e \in Entity, KindOf[e] = feed, ~replica[e].whole, ~replica[e].removed
               PROVE  FALSE
    BY <1>1 DEF IInv, RedeliveredIsWhole
  <2>1. PICK c \in log : c.entity = e /\ c.seq <= cursor
    BY DEF IInv, Replicated
  <2>2. InNewVersion(e)
    BY <1>2, <1>3, <2>1 DEF IInv, Replicated
  <2> QED BY <2>2 DEF InNewVersion
<1> QED BY <1>5, <1>6, <1>7, <1>8, <1>9, <1>10, <1>11 DEF IInv

-----------------------------------------------------------------------------
(* The theorems *)

LEMMA StepKeepsIInv == ASSUME IInv, Next PROVE IInv'
<1>1. ASSUME NEW w \in Writers, WriterStep(w) PROVE IInv'
  BY <1>1, WriteKeepsIInv, LogChangesKeepsIInv, CommitKeepsIInv, RollbackKeepsIInv DEF WriterStep
<1>2. CASE PageStep
  BY <1>2, BeginPageKeepsIInv, ReadRowKeepsIInv, ReadPartsKeepsIInv, FinishPageKeepsIInv
     DEF PageStep
<1>3. CASE HandleDelayed
  BY <1>3, HandleDelayedKeepsIInv
<1>4. CASE RegisterStep
  BY <1>4, StartPullKeepsIInv, SavePageKeepsIInv, NextRedeliveryKeepsIInv,
     SaveRedeliveredPageKeepsIInv, FinishRedeliveryKeepsIInv, EndPullKeepsIInv, StopKeepsIInv,
     UpgradeKeepsIInv
     DEF RegisterStep
<1> QED BY <1>1, <1>2, <1>3, <1>4 DEF Next

\* A stutter keeps everything.
LEMMA StutterKeepsIInv == ASSUME IInv, UNCHANGED vars PROVE IInv'
<1>1. /\ UNCHANGED <<cloudVars, observed, writerVars, pageVars, delayed, pc, feed, since, answer,
                     storedVars>>
  BY DEF vars
<1>2. Writing' /\ UNCHANGED <<log, row, PullOnly>>
  <2>1. TypeOK'
    BY <1>1 DEF IInv, TypeOK, cloudVars, writerVars, pageVars, storedVars
  <2>2. Transactions' /\ Numbers' /\ Versions'
    BY <1>1, WritersUntouched DEF IInv
  <2> QED BY <1>1, <2>1, <2>2 DEF Writing, cloudVars, PullOnly
<1>3. Grows
  BY <1>1, <1>2, SameRowsGrow, WritersUntouched
<1>4. Horizon'
  BY <1>1, <1>3, GrowsReached, NothingNewReached
<1> QED BY <1>2, <1>3, <1>4, GrowsKeepsIInv

THEOREM Inductive == Spec => []IInv
<1>1. IInv /\ [Next]_vars => IInv'
  BY StepKeepsIInv, StutterKeepsIInv
<1> QED BY InitKeeps, <1>1, PTL DEF Spec

\* The rows, the log, the transactions, the page and the replica hold what they are for.
THEOREM TypeCorrect == Spec => []TypeOK
<1>1. IInv => TypeOK
  BY DEF IInv
<1> QED BY Inductive, <1>1, PTL

\* No committed change falls behind a cursor of the register without reaching the replica.
THEOREM Complete == Spec => []NothingSkipped
<1>1. IInv => NothingSkipped
  BY DEF IInv
<1> QED BY Inductive, <1>1, PTL

\* What the cloud takes for pulled is in the replica, in whatever order requests arrive.
THEOREM ObservedHeld == Spec => []ObservedIsHeld
<1>1. IInv => ObservedIsHeld
  <2> SUFFICES ASSUME IInv, NEW c \in log, c.seq <= observed, c.entity \notin HeldBack
               PROVE  Holds(c)
    BY DEF ObservedIsHeld
  <2>1. c.seq <= cursor
    BY VersionsTyped DEF IInv, Asked
  <2> QED BY <2>1 DEF IInv, NothingSkipped, Behind
<1> QED BY Inductive, <1>1, PTL

\* A row and what belongs to it reach the replica in one version.
THEOREM OneVersion == Spec => []NotTorn
<1>1. IInv => NotTorn
  BY DEF IInv
<1> QED BY Inductive, <1>1, PTL

\* Rows in use have the new columns once their kind was redelivered.
THEOREM Redelivered == Spec => []RedeliveredIsWhole
<1>1. IInv => RedeliveredIsWhole
  BY DEF IInv
<1> QED BY Inductive, <1>1, PTL

-----------------------------------------------------------------------------
(* What the replica may do: its copies only go forward *)

\* What a transaction deletes was there.
DeletesRows == \A w \in Writers : \A x \in written[w] : x.kept \/ row[x.entity] > 0

\* The log of a row has every version up to its last.
Gapless ==
    \A c \in log : \A v \in 1..c.version : \E d \in log : d.entity = c.entity /\ d.version = v

\* A row the register removed is deleted, and what it has of it is the deletion.
RemovedForGood ==
    \A e \in Entity : replica[e].removed =>
        /\ replica[e].version > 0 /\ row[e] = 0
        /\ \A c \in log : c.entity = e => c.version <= replica[e].version

Forward == DeletesRows /\ Gapless /\ RemovedForGood

\* What a commit adds to the log: of each row that was written, the version after the one it had.
LEMMA CommitLogs ==
    ASSUME Writing, NEW w \in Writers, Commit(w)
    PROVE  /\ log' = log \cup numbered[w] /\ UNCHANGED PullOnly
           /\ \A v \in Writers : written'[v] \subseteq written[v]
           /\ \A x \in written[w] :
                 /\ x.entity \in Entity /\ x.version = row[x.entity] + 1
                 /\ row'[x.entity] = IF x.kept THEN row[x.entity] + 1 ELSE 0
                 /\ row[x.entity] > 0 \/ x.entity \notin EntitiesOf(log)
                 /\ \E c \in numbered[w] : c.entity = x.entity /\ c.version = row[x.entity] + 1
                 /\ \A v \in Writers : v # w => \A y \in written[v] : y.entity # x.entity
           /\ \A c \in numbered[w] :
                 /\ c \in Change /\ c.version = row[c.entity] + 1
                 /\ \E x \in written[w] : x.entity = c.entity
           /\ \A e \in Entity : e \notin EntitiesOf(written[w]) => row'[e] = row[e]
<1>1. /\ log' = log \cup numbered[w] /\ writer[w] = "logging" /\ UNCHANGED PullOnly
      /\ \A v \in Writers : written'[v] \subseteq written[v]
  BY CommitKeepsWriting DEF Commit
<1>2. written[w] \in SUBSET Written /\ numbered[w] \in SUBSET Change
  BY DEF Writing, TypeOK
<1>3. ASSUME NEW x \in written[w]
      PROVE  /\ x.entity \in Entity /\ x.version = row[x.entity] + 1
             /\ row'[x.entity] = IF x.kept THEN row[x.entity] + 1 ELSE 0
             /\ row[x.entity] > 0 \/ x.entity \notin EntitiesOf(log)
             /\ \E c \in numbered[w] : c.entity = x.entity /\ c.version = row[x.entity] + 1
             /\ \A v \in Writers : v # w => \A y \in written[v] : y.entity # x.entity
  <2>1. x.entity \in Entity
    BY <1>2 DEF Written
  <2>2. x.version = row[x.entity] + 1 /\ (row[x.entity] > 0 \/ x.entity \notin EntitiesOf(log))
    BY DEF Writing, Transactions
  <2>3. \E c \in numbered[w] : c.entity = x.entity /\ c.version = x.version
    BY <1>1 DEF Writing, Transactions
  <2>4. row'[x.entity] = IF x.kept THEN x.version ELSE 0
    BY CommitRows
  <2>5. \A v \in Writers : v # w => \A y \in written[v] : y.entity # x.entity
    BY DEF Writing, Transactions
  <2> QED BY <2>1, <2>2, <2>3, <2>4, <2>5
<1>4. ASSUME NEW c \in numbered[w]
      PROVE  /\ c \in Change /\ c.version = row[c.entity] + 1
             /\ \E x \in written[w] : x.entity = c.entity
  <2>1. PICK x \in written[w] : x.entity = c.entity /\ x.version = c.version
    BY DEF Writing, Transactions
  <2> QED BY <1>2, <1>3, <2>1
<1>5. \A e \in Entity : e \notin EntitiesOf(written[w]) => row'[e] = row[e]
  BY CommitRows DEF EntitiesOf
<1> QED BY <1>1, <1>3, <1>4, <1>5

LEMMA CommitKeepsForward == ASSUME IInv, Forward, NEW w \in Writers, Commit(w) PROVE Forward'
<1>1. Writing /\ \A e \in Entity : row[e] \in Nat
  BY VersionsTyped DEF IInv, Writing
<1>2. \A c \in log : c \in Change /\ c.version \in Nat /\ c.entity \in Entity
  BY VersionsTyped DEF IInv
<1>3. DeletesRows'
  <2> SUFFICES ASSUME NEW v \in Writers, NEW y \in written'[v], ~y.kept PROVE row'[y.entity] > 0
    BY DEF DeletesRows
  <2>1. v # w /\ y \in written[v] /\ row[y.entity] > 0
    <3>1. written'[w] = {}
      BY <1>1, TransactionEnds DEF Commit
    <3> QED BY <1>1, <3>1, CommitLogs DEF Forward, DeletesRows
  <2>2. y.entity \in Entity
    BY <2>1 DEF IInv, TypeOK, Written
  <2>3. y.entity \notin EntitiesOf(written[w])
    BY <1>1, <2>1, CommitLogs DEF EntitiesOf
  <2> QED BY <1>1, <2>1, <2>2, <2>3, CommitLogs
<1>4. Gapless'
  <2> SUFFICES ASSUME NEW c \in log', NEW v \in 1..c.version
               PROVE  \E d \in log' : d.entity = c.entity /\ d.version = v
    BY DEF Gapless
  <2>1. log' = log \cup numbered[w]
    BY <1>1, CommitLogs
  <2>2. CASE c \in log
    BY <2>1, <2>2 DEF Forward, Gapless
  <2>3. CASE c \in numbered[w]
    <3>1. c.version = row[c.entity] + 1 /\ c.entity \in Entity
      BY <1>1, <2>3, CommitLogs, SeqsAreNumbers
    <3>2. CASE v = c.version
      BY <2>1, <2>3, <3>2
    <3>3. CASE v # c.version
      <4>1. row[c.entity] > 0 /\ v \in 1..row[c.entity] /\ row[c.entity] \in Nat
        BY <1>1, <3>1, <3>3
      <4>2. PICK b \in log : b.entity = c.entity /\ b.version >= row[c.entity]
        BY <3>1, <4>1 DEF IInv, Versions, Logs
      <4>3. v \in 1..b.version
        BY <1>2, <4>1, <4>2
      <4> QED BY <2>1, <4>2, <4>3 DEF Forward, Gapless
    <3> QED BY <3>2, <3>3
  <2> QED BY <2>1, <2>2, <2>3
<1>5. RemovedForGood'
  <2> SUFFICES ASSUME NEW e \in Entity, replica[e].removed
               PROVE  /\ replica[e].version > 0 /\ row'[e] = 0
                      /\ \A c \in log' : c.entity = e => c.version <= replica[e].version
    <3>1. replica' = replica
      BY <1>1, CommitLogs DEF PullOnly, storedVars
    <3> QED BY <3>1 DEF RemovedForGood
  <2>1. /\ replica[e].version > 0 /\ row[e] = 0
        /\ \A c \in log : c.entity = e => c.version <= replica[e].version
    BY DEF Forward, RemovedForGood
  <2>2. e \in EntitiesOf(log)
    BY <2>1 DEF IInv, Replicated, Logs, EntitiesOf
  <2>3. \A x \in written[w] : x.entity # e
    BY <1>1, <2>1, <2>2, CommitLogs
  <2>4. row'[e] = row[e] /\ \A c \in numbered[w] : c.entity # e
    BY <1>1, <2>3, CommitLogs DEF EntitiesOf
  <2> QED BY <1>1, <2>1, <2>4, CommitLogs
<1> QED BY <1>3, <1>4, <1>5 DEF Forward

LEMMA WriteKeepsForward == ASSUME IInv, Forward, NEW w \in Writers, Write(w) PROVE Forward'
<1>1. UNCHANGED <<log, row, replica>>
  BY DEF Write, cloudVars, storedVars
<1>2. PICK es \in SUBSET {e \in Entity : MayBeWritten(e)}, deleted \in SUBSET Removable :
        /\ deleted \subseteq {e \in es : row[e] > 0}
        /\ written' = [written EXCEPT ![w] =
             {[entity |-> e, version |-> NextVersion(e), kept |-> e \notin deleted] : e \in es}]
  BY DEF Write
<1>3. written'[w] =
        {[entity |-> e, version |-> NextVersion(e), kept |-> e \notin deleted] : e \in es}
  BY <1>2 DEF IInv, TypeOK
<1>4. \A v \in Writers : v # w => written'[v] = written[v]
  BY <1>2 DEF IInv, TypeOK
<1>5. ASSUME NEW x \in written'[w] PROVE x.kept \/ row[x.entity] > 0
  <2>1. PICK e \in es :
          x = [entity |-> e, version |-> NextVersion(e), kept |-> e \notin deleted]
    BY <1>3
  <2>2. x.entity = e /\ x.kept = (e \notin deleted)
    BY <2>1
  <2>3. CASE e \in deleted
    BY <1>2, <2>2, <2>3
  <2>4. CASE e \notin deleted
    BY <2>2, <2>4
  <2> QED BY <2>3, <2>4
<1>6. DeletesRows'
  BY <1>1, <1>4, <1>5 DEF Forward, DeletesRows
<1> QED BY <1>1, <1>6 DEF Forward, Gapless, RemovedForGood

\* A row is removed by the page that brings its deletion.
LEMMA SavedRemoves ==
    ASSUME IInv, pc = "answered", NEW e \in Entity, Saved(e).removed, ~replica[e].removed
    PROVE  /\ replica[e].version > 0 /\ row[e] = 0
           /\ Saved(e).version > 0 /\ Logs(e, Saved(e).version)
           /\ \A c \in log : c.entity = e => c.version <= Saved(e).version
<1> DEFINE copy == replica[e]
           item == CHOOSE i \in answer.items : i.entity = e
<1>1. copy \in Copy
  BY VersionsTyped DEF IInv
<1>2. CASE ~(\E i \in answer.items : i.entity = e)
  <2>1. Saved(e) = copy
    BY <1>2 DEF Saved
  <2> QED BY <2>1
<1>3. CASE \E i \in answer.items : i.entity = e
  <2>1. item \in answer.items /\ item.entity = e
    BY <1>3
  <2>2. Saved(e) = IF item.removed
                   THEN IF copy.version > 0 /\ copy.version < item.version
                        THEN [copy EXCEPT !.version = item.version, !.parts = item.version,
                                          !.removed = TRUE]
                        ELSE copy
                   ELSE IF copy.version = 0 \/ Accepted(item.version, copy.version)
                        THEN [version |-> item.version, parts |-> item.parts, removed |-> FALSE,
                              whole |-> TRUE]
                        ELSE copy
    BY <1>3 DEF Saved
  <2> HIDE DEF item
  <2>3. item.removed /\ copy.version > 0 /\ copy.version < item.version
    BY <2>2
  <2>4. Saved(e) = [copy EXCEPT !.version = item.version, !.parts = item.version,
                                !.removed = TRUE]
    BY <2>2, <2>3
  <2>5. Saved(e).version = item.version
    BY <1>1, <2>4 DEF Copy
  <2>6. ItemTrue(item)
    BY <2>1 DEF IInv, Answered
  <2> QED BY <2>1, <2>3, <2>5, <2>6 DEF ItemTrue, Deleted
<1> QED BY <1>2, <1>3

\* A page takes each copy forward, or leaves it.
LEMMA SavedForward ==
    ASSUME IInv, Forward, pc = "answered", NEW e \in Entity
    PROVE  LET copy == replica[e]
               new == Saved(e)
           IN  \/ new.version = copy.version /\ new.removed = copy.removed
               \/ /\ ~copy.removed /\ ~new.removed /\ new.version >= copy.version
                  /\ \E c \in log : c.entity = e /\ c.version = new.version
                  /\ row[e] > 0 \/ \E c \in log : c.entity = e /\ c.version = new.version + 1
               \/ /\ ~copy.removed /\ new.removed /\ row[e] = 0 /\ copy.version > 0
                  /\ \E c \in log : c.entity = e /\ c.version = new.version
                  /\ \A c \in log : c.entity = e => c.version <= new.version
<1> DEFINE copy == replica[e]
           new == Saved(e)
<1>1. /\ copy \in Copy /\ copy.version \in Nat /\ row[e] \in Nat
      /\ \A c \in log : c.version \in Nat
  BY VersionsTyped DEF IInv
<1>2. /\ new \in Copy /\ new.version \in Nat /\ new.version >= copy.version
      /\ new.version > 0 => Logs(e, new.version)
      /\ new.version > 0 /\ ~new.removed /\ row[e] = 0 => Logs(e, new.version + 1)
  BY SavedSpec DEF Copy, Seq0
<1> HIDE DEF new, copy
<1>3. ASSUME NEW n \in Nat \ {0}, Logs(e, n)
      PROVE  \E c \in log : c.entity = e /\ c.version = n
  <2>1. PICK c \in log : c.entity = e /\ c.version >= n
    BY <1>3 DEF Logs
  <2> QED BY <1>1, <2>1 DEF Forward, Gapless
<1>4. CASE copy.removed
  <2>1. /\ copy.version > 0 /\ row[e] = 0
        /\ \A c \in log : c.entity = e => c.version <= copy.version
    BY <1>4 DEF Forward, RemovedForGood, copy
  <2>2. \A n \in Nat : Logs(e, n) => n <= copy.version
    BY <1>1, <2>1 DEF Logs
  <2>3. new.version = copy.version
    BY <1>1, <1>2, <2>1, <2>2
  <2>4. new.removed
    BY <1>1, <1>2, <2>1, <2>2, <2>3
  <2>5. new.removed = TRUE /\ copy.removed = TRUE
    BY <1>1, <1>2, <1>4, <2>4 DEF Copy
  <2> QED BY <2>3, <2>5 DEF new, copy
<1>5. CASE ~copy.removed /\ new.removed
  <2>1. /\ copy.version > 0 /\ row[e] = 0 /\ new.version > 0 /\ Logs(e, new.version)
        /\ \A c \in log : c.entity = e => c.version <= new.version
    BY <1>5, SavedRemoves DEF new, copy
  <2>2. \E c \in log : c.entity = e /\ c.version = new.version
    BY <1>2, <1>3, <2>1
  <2> QED BY <1>5, <2>1, <2>2 DEF new, copy
<1>6. CASE ~copy.removed /\ ~new.removed
  <2>1. CASE new.version = 0
    <3>1. copy.version = 0
      BY <1>1, <1>2, <2>1
    <3>2. new.removed = FALSE /\ copy.removed = FALSE
      BY <1>1, <1>2, <1>6 DEF Copy
    <3> QED BY <2>1, <3>1, <3>2 DEF new, copy
  <2>2. CASE new.version > 0
    <3>1. \E c \in log : c.entity = e /\ c.version = new.version
      BY <1>2, <1>3, <2>2
    <3>2. row[e] > 0 \/ \E c \in log : c.entity = e /\ c.version = new.version + 1
      BY <1>1, <1>2, <1>3, <1>6, <2>2
    <3> QED BY <1>2, <1>6, <3>1, <3>2 DEF new, copy
  <2> QED BY <1>2, <2>1, <2>2
<1> QED BY <1>4, <1>5, <1>6

\* A page that removes rows removes them for good.
LEMMA SaveKeepsForward ==
    ASSUME IInv, Forward, pc = "answered", replica' = [e \in Entity |-> Saved(e)],
           UNCHANGED <<cloudVars, writerVars>>
    PROVE  Forward'
<1>1. UNCHANGED <<row, log, written>> /\ \A e \in Entity : replica'[e] = Saved(e)
  BY DEF cloudVars, writerVars
<1>2. RemovedForGood'
  <2> SUFFICES ASSUME NEW e \in Entity, Saved(e).removed
               PROVE  /\ Saved(e).version > 0 /\ row[e] = 0
                      /\ \A c \in log : c.entity = e => c.version <= Saved(e).version
    BY <1>1 DEF RemovedForGood
  <2>1. CASE replica[e].removed
    <3>1. /\ replica[e].version > 0 /\ row[e] = 0
          /\ \A c \in log : c.entity = e => c.version <= replica[e].version
      BY <2>1 DEF Forward, RemovedForGood
    <3>2. Saved(e).version = replica[e].version
      BY <2>1, SavedForward
    <3> QED BY <3>1, <3>2
  <2>2. CASE ~replica[e].removed
    BY <2>2, SavedRemoves
  <2> QED BY <2>1, <2>2
<1> QED BY <1>1, <1>2 DEF Forward, DeletesRows, Gapless

\* A step that leaves the rows, what was written, and the copies' versions.
LEMMA SameKeepsForward ==
    ASSUME Forward, UNCHANGED <<row, log>>,
           \A w \in Writers : written'[w] \subseteq written[w],
           \A e \in Entity : replica'[e].version = replica[e].version
                             /\ replica'[e].removed = replica[e].removed
    PROVE  Forward'
BY DEF Forward, DeletesRows, Gapless, RemovedForGood

LEMMA UpgradeKeepsCopies ==
    ASSUME IInv, Upgrade, NEW e \in Entity
    PROVE  /\ replica'[e].version = replica[e].version /\ replica'[e].parts = replica[e].parts
           /\ replica'[e].removed = replica[e].removed
<1>1. replica[e] \in Copy
  BY VersionsTyped DEF IInv
<1>2. replica'[e] = IF e \in Widened /\ replica[e].version > 0 THEN [replica[e] EXCEPT !.whole = FALSE]
                                                               ELSE replica[e]
  BY DEF Upgrade
<1> QED BY <1>1, <1>2 DEF Copy

LEMMA StepKeepsForward == ASSUME IInv, Forward, [Next]_vars PROVE Forward'
<1>1. ASSUME NEW w \in Writers, WriterStep(w) PROVE Forward'
  <2>1. CASE LogChanges(w)
    <3>1. UNCHANGED <<row, log, written, replica>>
      BY <2>1 DEF LogChanges, storedVars
    <3> QED BY <3>1, SameKeepsForward
  <2>2. CASE Rollback(w)
    <3>1. Writing
      BY DEF IInv, Writing
    <3>2. UNCHANGED <<row, log, replica>> /\ \A v \in Writers : written'[v] \subseteq written[v]
      BY <2>2, <3>1, RollbackKeepsWriting DEF PullOnly, storedVars
    <3> QED BY <3>2, SameKeepsForward
  <2> QED BY <1>1, <2>1, <2>2, WriteKeepsForward, CommitKeepsForward DEF WriterStep
<1>2. ASSUME SavePage \/ SaveRedeliveredPage PROVE Forward'
  BY <1>2, SaveKeepsForward DEF SavePage, SaveRedeliveredPage
<1>3. ASSUME Upgrade PROVE Forward'
  <2>1. UNCHANGED <<row, log, written>>
    BY <1>3 DEF Upgrade, ForgetPull, cloudVars, writerVars
  <2> QED BY <1>3, <2>1, SameKeepsForward, UpgradeKeepsCopies
<1>4. ASSUME UNCHANGED <<row, log, written, replica>> PROVE Forward'
  BY <1>4, SameKeepsForward
<1>5. \/ \E w \in Writers : WriterStep(w)
      \/ SavePage \/ SaveRedeliveredPage \/ Upgrade
      \/ UNCHANGED <<row, log, written, replica>>
  BY DEF Next, PageStep, BeginPage, ReadRow, ReadParts, FinishPage, HandleDelayed, RegisterStep,
         StartPull, NextRedelivery, FinishRedelivery, EndPull, Stop, ForgetPull, vars, cloudVars,
         writerVars, storedVars
<1> QED BY <1>1, <1>2, <1>3, <1>4, <1>5

-----------------------------------------------------------------------------
(* The log, the pages and the redeliveries implement FollowedRows *)

Logged == VersionsOf(log)
Copies == [e \in Entity |-> {replica[e].version, replica[e].parts} \ {0}]
Gone == {e \in Entity : replica[e].removed}
PassedOver == VersionsOf(Passed)
ClaimedOver == VersionsOf(Claimed)

\* A commit adds nothing that was passed over or taken for pulled.
LEMMA CommitPassesNothing ==
    ASSUME IInv, NEW w \in Writers, Commit(w)
    PROVE  UNCHANGED <<Copies, Gone, PassedOver, ClaimedOver>>
<1>1. /\ log' = log \cup numbered[w]
      /\ UNCHANGED <<observed, cursor, redelivering, redeliveryCursor, upgraded, replica>>
  BY CommitLogs DEF IInv, Writing, PullOnly, storedVars
<1>2. \A c \in numbered[w] : ~(c.seq <= cursor) /\ ~(c.seq <= observed)
  <2>1. observed <= cursor /\ observed \in Nat /\ cursor \in Nat
    BY VersionsTyped DEF IInv, Asked
  <2>2. \A c \in numbered[w] : c.seq \in Nat /\ ~Reached(c.seq)
    BY SeqsAreNumbers DEF IInv, TypeOK, Horizon
  <2> QED BY <2>1, <2>2 DEF Reached
<1>3. Passed' = Passed
  BY <1>1, <1>2 DEF Passed, Behind
<1>4. Claimed' = Claimed
  BY <1>1, <1>2 DEF Claimed
<1> QED BY <1>1, <1>3, <1>4 DEF Copies, Gone, PassedOver, ClaimedOver

LEMMA CommitCommits ==
    ASSUME IInv, Forward, NEW w \in Writers, Commit(w)
    PROVE  \E es \in SUBSET Entity : \E del \in SUBSET es : Abstract!Commit(es, del)
<1>1. Writing
  BY DEF IInv, Writing
<1>2. PICK es : es = EntitiesOf(written[w])
  OBVIOUS
<1>3. PICK del : del = {x.entity : x \in {y \in written[w] : ~y.kept}}
  OBVIOUS
<1>4. \A e : e \in es <=> \E x \in written[w] : x.entity = e
  BY <1>2 DEF EntitiesOf
<1>5. es \in SUBSET Entity /\ del \in SUBSET es
  BY <1>1, <1>3, <1>4, CommitLogs
<1>6. \A e \in es : row[e] > 0 \/ \A c \in Logged : c[1] # e
  <2> SUFFICES ASSUME NEW e \in es, NEW c \in Logged, c[1] = e PROVE row[e] > 0
    OBVIOUS
  <2>1. PICK d \in log : c = <<d.entity, d.version>>
    BY DEF Logged, VersionsOf
  <2>2. e \in EntitiesOf(log)
    BY <2>1 DEF EntitiesOf
  <2> QED BY <1>1, <1>4, <2>2, CommitLogs
<1>7. \A e \in del : row[e] > 0
  BY <1>3 DEF Forward, DeletesRows
<1>8. row' = [e \in Entity |-> IF e \in del THEN 0 ELSE IF e \in es THEN row[e] + 1 ELSE row[e]]
  <2>1. row' \in [Entity -> Seq0]
    BY <1>1, CommitRows
  <2>2. ASSUME NEW e \in Entity
        PROVE  row'[e] = IF e \in del THEN 0 ELSE IF e \in es THEN row[e] + 1 ELSE row[e]
    <3>1. CASE e \in del
      BY <1>1, <1>3, <3>1, CommitLogs
    <3>2. CASE e \in es /\ e \notin del
      <4>1. PICK x \in written[w] : x.entity = e
        BY <1>4, <3>2
      <4>2. x.kept
        BY <1>3, <3>2, <4>1
      <4> QED BY <1>1, <3>2, <4>1, <4>2, CommitLogs
    <3>3. CASE e \notin es
      BY <1>1, <1>2, <1>5, <3>3, CommitLogs
    <3> QED BY <3>1, <3>2, <3>3
  <2> QED BY <2>1, <2>2
<1>9. Logged' = Logged \cup {<<e, row[e] + 1>> : e \in es}
  <2>1. log' = log \cup numbered[w]
    BY <1>1, CommitLogs
  <2>2. VersionsOf(numbered[w]) = {<<e, row[e] + 1>> : e \in es}
    <3>1. ASSUME NEW c \in numbered[w] PROVE c.entity \in es /\ c.version = row[c.entity] + 1
      BY <1>1, <1>4, CommitLogs
    <3>2. ASSUME NEW e \in es PROVE \E c \in numbered[w] : c.entity = e /\ c.version = row[e] + 1
      BY <1>1, <1>4, CommitLogs
    <3> QED BY <3>1, <3>2 DEF VersionsOf
  <2>3. VersionsOf(log \cup numbered[w]) = VersionsOf(log) \cup VersionsOf(numbered[w])
    BY DEF VersionsOf
  <2> QED BY <2>1, <2>2, <2>3 DEF Logged
<1>10. UNCHANGED <<Copies, Gone, PassedOver, ClaimedOver>>
  BY CommitPassesNothing
<1>11. Abstract!Commit(es, del)
  BY <1>6, <1>7, <1>8, <1>9, <1>10 DEF Abstract!Commit, Logged, Copies, Gone, PassedOver, ClaimedOver
<1> QED BY <1>5, <1>11

\* What is passed over is in the copy.
PassedHad ==
    \A c \in PassedOver :
        \/ \E u \in Copies[c[1]] : u >= c[2]
        \/ Copies[c[1]] = {} /\ row[c[1]] = 0

LEMMA PassedIsHad == IInv => PassedHad
<1> SUFFICES ASSUME IInv, NEW c \in PassedOver
             PROVE  \/ \E u \in Copies[c[1]] : u >= c[2]
                    \/ Copies[c[1]] = {} /\ row[c[1]] = 0
  BY DEF PassedHad
<1>1. PICK d \in log : c = <<d.entity, d.version>> /\ Behind(d)
  BY DEF PassedOver, VersionsOf, Passed
<1>2. Holds(d) /\ d.entity \in Entity /\ d.version \in Nat \ {0}
  BY <1>1, VersionsTyped, SeqsAreNumbers DEF IInv, NothingSkipped
<1>3. replica[d.entity].version \in Nat /\ replica[d.entity].parts = replica[d.entity].version
  BY <1>2, VersionsTyped DEF IInv, NotTorn
<1>4. CASE replica[d.entity].version >= d.version
  <2>1. replica[d.entity].version \in Copies[d.entity]
    BY <1>2, <1>3, <1>4 DEF Copies
  <2> QED BY <1>1, <1>4, <2>1
<1>5. CASE replica[d.entity].version = 0 /\ row[d.entity] = 0
  BY <1>1, <1>2, <1>3, <1>5 DEF Copies
<1> QED BY <1>2, <1>4, <1>5 DEF Holds

\* A page takes the copy of a row to a later version, to its removal, or nowhere.
LEMMA PageFollows ==
    ASSUME IInv, IInv', Forward, pc = "answered", replica' = [e \in Entity |-> Saved(e)],
           UNCHANGED cloudVars, NEW e \in Entity
    PROVE  Abstract!Unchanged(e) \/ Abstract!Renewed(e) \/ Abstract!Removed(e)
<1>1. replica'[e] = Saved(e) /\ UNCHANGED <<row, log>>
  BY DEF cloudVars
<1>2. /\ replica[e].parts = replica[e].version /\ replica'[e].parts = replica'[e].version
      /\ replica[e].version \in Nat /\ replica'[e].version \in Nat
  <2>1. replica[e].parts = replica[e].version /\ replica[e].version \in Nat
    BY VersionsTyped DEF IInv, NotTorn
  <2>2. replica'[e].parts = replica'[e].version /\ replica'[e] \in Copy
    BY SavedReplica DEF NotTorn
  <2> QED BY <2>1, <2>2 DEF Copy, Seq0
<1>3. Copies[e] = {replica[e].version} \ {0} /\ Copies'[e] = {replica'[e].version} \ {0}
  BY <1>2 DEF Copies
<1>4. (e \in Gone <=> replica[e].removed) /\ (e \in Gone' <=> replica'[e].removed)
  BY DEF Gone
<1>5. \A c \in log : <<c.entity, c.version>> \in Logged /\ c.version \in Nat \ {0}
  BY VersionsTyped, SeqsAreNumbers DEF IInv, Logged, VersionsOf
<1>6. CASE replica'[e].version = replica[e].version /\ replica'[e].removed = replica[e].removed
  <2>1. Copies'[e] = Copies[e] /\ (e \in Gone' <=> e \in Gone)
    BY <1>3, <1>4, <1>6
  <2> QED BY <2>1 DEF Abstract!Unchanged, Copies, Gone
<1>7. ASSUME ~replica[e].removed, ~replica'[e].removed, replica'[e].version >= replica[e].version,
             NEW c \in log, c.entity = e, c.version = replica'[e].version,
             row[e] > 0 \/ \E d \in log : d.entity = e /\ d.version = replica'[e].version + 1
      PROVE  Abstract!Renewed(e)
  <2>1. e \notin Gone /\ e \notin Gone'
    BY <1>4, <1>7
  <2>2. PICK f \in Logged : f = <<e, c.version>>
    BY <1>5, <1>7
  <2>3. f[1] = e /\ Copies'[e] = {f[2]} /\ \A u \in Copies[e] : u <= f[2]
    BY <1>2, <1>3, <1>5, <1>7, <2>2
  <2>4. row[e] > 0 \/ <<e, f[2] + 1>> \in Logged
    BY <1>5, <1>7, <2>2
  <2> QED BY <2>1, <2>3, <2>4 DEF Abstract!Renewed, Copies, Gone, Logged
<1>8. ASSUME ~replica[e].removed, replica'[e].removed, row[e] = 0, replica[e].version > 0,
             NEW c \in log, c.entity = e, c.version = replica'[e].version,
             \A d \in log : d.entity = e => d.version <= replica'[e].version
      PROVE  Abstract!Removed(e)
  <2>1. e \notin Gone /\ e \in Gone' /\ Copies[e] # {}
    BY <1>2, <1>3, <1>4, <1>8
  <2>2. PICK f \in Logged : f = <<e, c.version>>
    BY <1>5, <1>8
  <2>3. f[1] = e /\ Copies'[e] = {f[2]}
    BY <1>3, <1>5, <1>8, <2>2
  <2>4. \A d \in Logged : d[1] = e => d[2] <= f[2]
    BY <1>8, <2>2 DEF Logged, VersionsOf
  <2> QED BY <1>8, <2>1, <2>3, <2>4 DEF Abstract!Removed, Copies, Gone, Logged
<1> QED BY <1>1, <1>6, <1>7, <1>8, SavedForward

\* A page that is saved passes over more, and what it passes over the copies have.
LEMMA SaveFollows ==
    ASSUME IInv, IInv', PassedHad', Forward, pc = "answered",
           replica' = [e \in Entity |-> Saved(e)], UNCHANGED <<cloudVars, observed>>, Passed \subseteq Passed'
    PROVE  Abstract!Follow
<1>1. UNCHANGED <<row, log, observed>>
  BY DEF cloudVars
<1>2. Copies' \in [Entity -> SUBSET Nat] /\ Gone' \subseteq Entity
  <2>1. replica' \in [Entity -> Copy] /\ NotTorn'
    BY SavedReplica
  <2>2. \A e \in Entity : replica'[e].version \in Nat /\ replica'[e].parts \in Nat
    BY <2>1 DEF Copy, Seq0
  <2> QED BY <2>2 DEF Copies, Gone
<1>3. \A e \in Entity : Abstract!Unchanged(e) \/ Abstract!Renewed(e) \/ Abstract!Removed(e)
  BY PageFollows
<1>4. PassedOver \subseteq PassedOver' /\ PassedOver' \subseteq Logged
  BY <1>1 DEF PassedOver, Logged, VersionsOf, Passed
<1>5. ASSUME NEW c \in PassedOver' PROVE Abstract!Has(c)'
  <2>1. \/ \E u \in Copies'[c[1]] : u >= c[2]
        \/ Copies'[c[1]] = {} /\ row'[c[1]] = 0
    BY DEF PassedHad
  <2> QED BY <2>1 DEF Abstract!Has, Copies
<1>6. UNCHANGED <<row, Logged, ClaimedOver>>
  BY <1>1 DEF Logged, ClaimedOver, Claimed
<1> QED BY <1>2, <1>3, <1>4, <1>5, <1>6
        DEF Abstract!Follow, Copies, Gone, PassedOver, ClaimedOver, Logged

LEMMA PagesPassMore ==
    ASSUME IInv, SavePage \/ SaveRedeliveredPage
    PROVE  Passed \subseteq Passed'
<1>1. /\ \A c \in log : c.seq \in Nat /\ c.entity \in Entity /\ KindOf[c.entity] \in Kind
      /\ cursor \in Nat /\ answer.cursor \in Nat /\ \A k \in Kind : redeliveryCursor[k] \in Nat
  BY VersionsTyped DEF IInv
<1>2. UNCHANGED <<log, upgraded, redelivering>> /\ pc = "answered"
  BY DEF SavePage, SaveRedeliveredPage, cloudVars
<1>3. since <= answer.cursor /\ since = IF feed = "pull" THEN cursor ELSE redeliveryCursor[feed]
  BY <1>2 DEF IInv, Answered, Asked
<1>4. CASE SavePage
  <2>1. /\ cursor' = answer.cursor /\ cursor <= cursor' /\ cursor' \in Nat
        /\ redeliveryCursor' = redeliveryCursor
    BY <1>1, <1>3, <1>4 DEF SavePage
  <2> QED BY <1>1, <1>2, <2>1 DEF Passed, Behind
<1>5. CASE SaveRedeliveredPage
  <2>1. /\ cursor' = cursor /\ feed # "pull"
        /\ redeliveryCursor' = [redeliveryCursor EXCEPT ![feed] = answer.cursor]
    BY <1>5 DEF SaveRedeliveredPage
  <2>2. \A k \in Kind : redeliveryCursor'[k] \in Nat /\ redeliveryCursor[k] <= redeliveryCursor'[k]
    BY <1>1, <1>3, <2>1 DEF IInv, TypeOK
  <2> QED BY <1>1, <1>2, <2>1, <2>2 DEF Passed, Behind
<1> QED BY <1>4, <1>5

\* The cloud takes for pulled no more than the register passed over.
LEMMA ObservedClaims ==
    ASSUME IInv, UNCHANGED <<row, log, storedVars>>, observed' \in Nat, observed' <= cursor
    PROVE  Abstract!Claim
<1>1. UNCHANGED <<cursor, redelivering, redeliveryCursor, upgraded, replica>>
  BY DEF storedVars
<1>2. ClaimedOver' \subseteq PassedOver
  <2>1. \A c \in log : c.seq \in Nat /\ cursor \in Nat
    BY VersionsTyped DEF IInv
  <2> QED BY <2>1 DEF ClaimedOver, PassedOver, VersionsOf, Claimed, Passed, Behind
<1>3. UNCHANGED <<row, Logged, Copies, Gone, PassedOver>>
  BY <1>1 DEF Logged, Copies, Gone, PassedOver, Passed, Behind
<1> QED BY <1>2, <1>3 DEF Abstract!Claim, Copies, Gone, PassedOver, ClaimedOver, Logged

\* A step that keeps the copies and what was passed over is no step.
LEMMA NothingFollowed ==
    ASSUME UNCHANGED <<row, log, observed>>, Passed' = Passed,
           \A e \in Entity : /\ replica'[e].version = replica[e].version
                             /\ replica'[e].parts = replica[e].parts
                             /\ replica'[e].removed = replica[e].removed
    PROVE  UNCHANGED Abstract!vars
<1>1. UNCHANGED <<Logged, Copies, Gone, PassedOver, ClaimedOver>>
  BY DEF Logged, Copies, Gone, PassedOver, ClaimedOver, Claimed
<1> QED BY <1>1 DEF Abstract!vars, Logged, Copies, Gone, PassedOver, ClaimedOver

\* What was redelivered is all that was pulled of its kind, and a newer version begins with none of
\* what it reads more of.
LEMMA RedeliveryPassesTheSame ==
    ASSUME IInv, FinishRedelivery \/ Upgrade PROVE Passed' = Passed
<1>1. /\ \A c \in log : /\ c.seq \in Nat \ {0} /\ c.entity \in Entity
                        /\ KindOf[c.entity] \in Kind
      /\ cursor \in Nat
  BY VersionsTyped DEF IInv
<1>2. UNCHANGED <<log, cursor>>
  BY DEF FinishRedelivery, Upgrade, ForgetPull, cloudVars
<1>3. CASE FinishRedelivery
  <2>1. /\ pc = "redelivered" /\ redelivering' = redelivering \ {feed}
        /\ UNCHANGED <<redeliveryCursor, upgraded>>
    BY <1>3 DEF FinishRedelivery
  <2>2. \A c \in log : c.seq <= cursor /\ KindOf[c.entity] = feed => c.seq <= redeliveryCursor[feed]
    BY <2>1 DEF IInv, Asked, Reached
  <2> QED BY <1>2, <2>1, <2>2 DEF Passed, Behind
<1>4. CASE Upgrade
  <2>1. /\ ~upgraded /\ upgraded'
        /\ redelivering' = {KindOf[e] : e \in HeldBack \cup Widened}
        /\ redeliveryCursor' = [k \in Kind |-> 0]
    BY <1>4 DEF Upgrade
  <2>2. ASSUME NEW c \in log, c.entity \in HeldBack PROVE ~Behind(c) /\ ~Behind(c)'
    BY <1>1, <2>1, <2>2 DEF Behind
  <2>3. \A c \in log : c.entity \notin HeldBack => (Behind(c)' <=> Behind(c))
    BY <1>2 DEF Behind
  <2> QED BY <1>2, <2>2, <2>3 DEF Passed
<1> QED BY <1>3, <1>4

LEMMA StepImplementsFollowedRows ==
    ASSUME IInv, IInv', PassedHad', Forward, [Next]_vars PROVE [Abstract!Next]_(Abstract!vars)
<1>1. ASSUME NEW w \in Writers, Commit(w) PROVE Abstract!Next
  BY <1>1, CommitCommits DEF Abstract!Next
<1>2. ASSUME SavePage \/ SaveRedeliveredPage PROVE Abstract!Next
  <2>1. Passed \subseteq Passed'
    BY <1>2, PagesPassMore
  <2>2. Abstract!Follow
    BY <1>2, <2>1, SaveFollows DEF SavePage, SaveRedeliveredPage
  <2> QED BY <2>2 DEF Abstract!Next
<1>3. ASSUME FinishPage \/ HandleDelayed PROVE Abstract!Next
  <2>1. UNCHANGED <<row, log, storedVars>>
    BY <1>3 DEF FinishPage, HandleDelayed, cloudVars
  <2>2. observed' \in Nat /\ observed' <= cursor
    <3>1. observed \in Nat /\ since \in Nat /\ observed <= cursor /\ \A n \in delayed : n \in Nat /\ n <= cursor
      BY VersionsTyped DEF IInv, Asked
    <3>2. CASE FinishPage
      <4>1. pc = "reading" /\ observed' = ObservedPull
        BY <3>2 DEF FinishPage
      <4>2. feed = "pull" => since = cursor
        BY <4>1 DEF IInv, Asked
      <4>3. cursor \in Nat
        BY VersionsTyped DEF IInv
      <4> QED BY <3>1, <4>1, <4>2, <4>3 DEF ObservedPull
    <3>3. CASE HandleDelayed
      BY <3>1, <3>3 DEF HandleDelayed
    <3> QED BY <1>3, <3>2, <3>3
  <2>3. Abstract!Claim
    BY <2>1, <2>2, ObservedClaims
  <2> QED BY <2>3 DEF Abstract!Next
<1>4. ASSUME FinishRedelivery \/ Upgrade PROVE UNCHANGED Abstract!vars
  <2>1. UNCHANGED <<row, log, observed>> /\ Passed' = Passed
    BY <1>4, RedeliveryPassesTheSame DEF FinishRedelivery, Upgrade, ForgetPull, cloudVars
  <2>2. CASE FinishRedelivery
    BY <2>1, <2>2, NothingFollowed DEF FinishRedelivery
  <2>3. CASE Upgrade
    BY <2>1, <2>3, NothingFollowed, UpgradeKeepsCopies
  <2> QED BY <1>4, <2>2, <2>3
<1>5. ASSUME UNCHANGED <<row, log, observed, storedVars>> PROVE UNCHANGED Abstract!vars
  <2>1. UNCHANGED <<cursor, redelivering, redeliveryCursor, upgraded, replica>>
    BY <1>5 DEF storedVars
  <2>2. Passed' = Passed
    BY <1>5, <2>1 DEF Passed, Behind
  <2> QED BY <1>5, <2>1, <2>2, NothingFollowed
<1>6. \/ \E w \in Writers : Commit(w)
      \/ SavePage \/ SaveRedeliveredPage \/ FinishPage \/ HandleDelayed
      \/ FinishRedelivery \/ Upgrade
      \/ UNCHANGED <<row, log, observed, storedVars>>
  BY DEF Next, WriterStep, Write, LogChanges, Rollback, EndTransaction, PageStep, BeginPage, ReadRow,
         ReadParts, RegisterStep, StartPull, NextRedelivery, EndPull, Stop, ForgetPull, vars, cloudVars
<1> QED BY <1>1, <1>2, <1>3, <1>4, <1>5, <1>6

\* However writers, pages, late requests, failed pulls and redeliveries interleave, the replica
\* implements FollowedRows: its copy of a row goes forward through the row's versions, each whole,
\* to its removal if it was deleted, and has all that was passed over or taken for pulled.
THEOREM FollowingImplementsFollowedRows == Spec => ImplementsFollowedRows
<1>1. Init => Forward /\ Abstract!Init
  <2> SUFFICES ASSUME Init PROVE Forward /\ Abstract!Init
    OBVIOUS
  <2>1. /\ row = [e \in Entity |-> 0] /\ log = {} /\ \A w \in Writers : written[w] = {}
        /\ \A e \in Entity : replica[e] = NoCopy
    BY DEF Init, Nothing
  <2>2. Forward
    BY <2>1 DEF Forward, DeletesRows, Gapless, RemovedForGood, NoCopy
  <2>3. Logged = {} /\ PassedOver = {} /\ ClaimedOver = {}
    BY <2>1 DEF Logged, PassedOver, ClaimedOver, VersionsOf, Passed, Claimed
  <2>4. Copies = [e \in Entity |-> {}] /\ Gone = {}
    BY <2>1 DEF Copies, Gone, NoCopy
  <2>5. Abstract!Init
    BY <2>1, <2>3, <2>4 DEF Abstract!Init, Logged, PassedOver, ClaimedOver, Copies, Gone
  <2> QED BY <2>2, <2>5
<1>2. IInv /\ Forward /\ [Next]_vars => Forward'
  BY StepKeepsForward
<1>3. IInv /\ IInv' /\ PassedHad' /\ Forward /\ [Next]_vars => [Abstract!Next]_(Abstract!vars)
  BY StepImplementsFollowedRows
<1> QED BY <1>1, <1>2, <1>3, PassedIsHad, Inductive, PTL
        DEF Spec, ImplementsFollowedRows, Abstract!Spec
=============================================================================
