---------------------------- MODULE ChangeLogPull ----------------------------
(***************************************************************************)
(* How a register's replica follows the rows of the cloud.                 *)
(*                                                                         *)
(* Writers change rows in transactions that log each change as their last  *)
(* step.  The register asks for the changes after its cursor, a page at a  *)
(* time, and each comes with the row as it is when the page is read.  Once *)
(* it caught up it asks again, from the first change, for the entities     *)
(* that a newer version of itself reads more of: those held back from the  *)
(* version before, and those whose table has a new column.                 *)
(*                                                                         *)
(* The content of a row is its version.  The cloud reads what is committed *)
(* at each statement (read committed).                                     *)
(***************************************************************************)
EXTENDS Integers, FiniteSets

CONSTANTS
    Entity,      \* rows that this register pulls
    Kind, KindOf,   \* the entity of the code (a table), and of each row
    Compound,    \* rows read in two statements: the row, and what belongs to it
    Removable,   \* rows that may be deleted
    HeldBack,    \* rows that only the newer version of the register reads
    Widened,     \* rows whose table has a new column in the newer version
    Writers,
    PageSize,    \* PULL_PAGE_MAX_CHANGES
    MaxSeq,      \* bound: numbers given to changes
    MaxDelayed   \* bound: abandoned requests that may still arrive

ASSUME EntitiesAssumption ==
    /\ IsFiniteSet(Entity) /\ KindOf \in [Entity -> Kind] /\ "pull" \notin Kind
    /\ Compound \cup Removable \cup HeldBack \cup Widened \subseteq Entity
    /\ \A e, f \in Entity : KindOf[e] = KindOf[f] /\ e \in HeldBack => f \in HeldBack
ASSUME BoundsAssumption ==
    /\ PageSize \in Nat \ {0} /\ MaxSeq \in Nat /\ MaxDelayed \in Nat

VARIABLES
    \* the cloud's database
    row,            \* the version of each row, 0 when there is none
    log,            \* changes
    lastSeq,        \* the sequence of change_seq
    observed,       \* device_state.last_pull_since
    \* the writers' transactions
    writer,         \* "idle", "writing", or "logging" once it holds the log's lock
    written,        \* the changes it made, not numbered yet
    numbered,       \* the changes it logged, not committed yet
    \* the page the cloud is reading for the register
    logged,         \* changes of the page, and one more when there is one
    pending,        \* rows still to be read
    found, parts,   \* the versions read of the row and of what belongs to it
    delayed,        \* cursors of abandoned requests
    \* the register
    pc, feed, since, answer,
    cursor,         \* sync_state.pull_cursor
    redelivering,   \* kinds with a row in pulled_table_redeliveries
    redeliveryCursor,
    upgraded,       \* the newer version runs
    replica

cloudVars == <<row, log, lastSeq>>
writerVars == <<writer, written, numbered>>
pageVars == <<logged, pending, found, parts>>
storedVars == <<cursor, redelivering, redeliveryCursor, upgraded, replica>>
vars == <<cloudVars, observed, writerVars, pageVars, delayed, pc, feed, since, answer, storedVars>>

Seq0 == 0..MaxSeq
Change == [seq : 1..MaxSeq, entity : Entity, version : 1..MaxSeq]
Written == [entity : Entity, version : 1..MaxSeq, kept : BOOLEAN]
Item == [entity : Entity, version : Seq0, parts : Seq0, removed : BOOLEAN]
Answer == [items : SUBSET Item, cursor : Seq0, more : BOOLEAN]
Copy == [version : Seq0, parts : Seq0, removed : BOOLEAN, whole : BOOLEAN]
NoAnswer == [items |-> {}, cursor |-> 0, more |-> FALSE]
NoCopy == [version |-> 0, parts |-> 0, removed |-> FALSE, whole |-> TRUE]
PcLabels == {"idle", "asking", "reading", "answered", "caught_up", "redelivered"}

TypeOK ==
    /\ row \in [Entity -> Seq0] /\ log \in SUBSET Change /\ lastSeq \in Seq0
    /\ observed \in Seq0
    /\ writer \in [Writers -> {"idle", "writing", "logging"}]
    /\ written \in [Writers -> SUBSET Written] /\ numbered \in [Writers -> SUBSET Change]
    /\ logged \in SUBSET Change /\ pending \in SUBSET Entity
    /\ found \in [Entity -> Seq0] /\ parts \in [Entity -> Seq0]
    /\ delayed \in SUBSET Seq0
    /\ pc \in PcLabels /\ feed \in Kind \cup {"pull"} /\ since \in Seq0 /\ answer \in Answer
    /\ cursor \in Seq0 /\ redelivering \in SUBSET Kind /\ redeliveryCursor \in [Kind -> Seq0]
    /\ upgraded \in BOOLEAN /\ replica \in [Entity -> Copy]

Nothing == [e \in Entity |-> 0]

Init ==
    /\ row = Nothing /\ log = {} /\ lastSeq = 0 /\ observed = 0
    /\ writer = [w \in Writers |-> "idle"]
    /\ written = [w \in Writers |-> {}] /\ numbered = [w \in Writers |-> {}]
    /\ logged = {} /\ pending = {} /\ found = Nothing /\ parts = Nothing
    /\ delayed = {}
    /\ pc = "idle" /\ feed = "pull" /\ since = 0 /\ answer = NoAnswer
    /\ cursor = 0 /\ redelivering = {} /\ redeliveryCursor = [k \in Kind |-> 0]
    /\ upgraded = FALSE /\ replica = [e \in Entity |-> NoCopy]

-----------------------------------------------------------------------------
(* The writers *)

EntitiesOf(changes) == {c.entity : c \in changes}

RowLocked(e) == \E w \in Writers : e \in EntitiesOf(written[w])

\* Faulty: reading a product takes no lock.
ShareLockedNever(e) == FALSE

\* The page under way holds the rows that it reads in two statements.
ShareLocked(e) == pc = "reading" /\ e \in Compound /\ found[e] > 0

\* Faulty: an edit of a row and of what belongs to it raises the version for each.
NextVersionTwice(e) == row[e] + 2

\* Every change of a row, its removal too, has the version after the one it found.
NextVersion(e) == row[e] + 1

\* A row is created once.
MayBeWritten(e) ==
    /\ ~RowLocked(e) /\ ~ShareLocked(e)
    /\ row[e] > 0 \/ e \notin EntitiesOf(log)

\* The writer changes its rows and notes the changes.
Write(w) ==
    /\ writer[w] = "idle"
    /\ \E es \in SUBSET {e \in Entity : MayBeWritten(e)}, deleted \in SUBSET Removable :
        /\ es # {} /\ lastSeq + Cardinality(es) <= MaxSeq
        /\ deleted \subseteq {e \in es : row[e] > 0}
        /\ written' = [written EXCEPT ![w] =
                {[entity |-> e, version |-> NextVersion(e), kept |-> e \notin deleted] : e \in es}]
    /\ writer' = [writer EXCEPT ![w] = "writing"]
    /\ UNCHANGED <<cloudVars, observed, numbered, pageVars, delayed, pc, feed, since, answer,
                   storedVars>>

\* Faulty: the log has no lock.
LogLockedNever == FALSE

LogLocked == \E w \in Writers : writer[w] = "logging"

\* logChanges: the numbers are taken under the log's lock, which is kept until the commit.
LogChanges(w) ==
    /\ writer[w] = "writing" /\ ~LogLocked
    /\ LET n == Cardinality(written[w])
       IN  /\ lastSeq + n <= MaxSeq
           /\ \E number \in [written[w] -> lastSeq + 1 .. lastSeq + n] :
                /\ \A c, d \in written[w] : number[c] = number[d] => c = d
                /\ numbered' = [numbered EXCEPT ![w] =
                        {[seq |-> number[c], entity |-> c.entity, version |-> c.version] :
                            c \in written[w]}]
           /\ lastSeq' = lastSeq + n
    /\ writer' = [writer EXCEPT ![w] = "logging"]
    /\ UNCHANGED <<row, log, observed, written, pageVars, delayed, pc, feed, since, answer,
                   storedVars>>

EndTransaction(w) ==
    /\ writer' = [writer EXCEPT ![w] = "idle"]
    /\ written' = [written EXCEPT ![w] = {}] /\ numbered' = [numbered EXCEPT ![w] = {}]
    /\ UNCHANGED <<lastSeq, observed, pageVars, delayed, pc, feed, since, answer, storedVars>>

Commit(w) ==
    /\ writer[w] = "logging"
    /\ row' = [e \in Entity |->
            IF \E c \in written[w] : c.entity = e
            THEN LET c == CHOOSE d \in written[w] : d.entity = e
                 IN  IF c.kept THEN c.version ELSE 0
            ELSE row[e]]
    /\ log' = log \cup numbered[w]
    /\ EndTransaction(w)

\* The numbers taken are not given again.
Rollback(w) ==
    /\ writer[w] # "idle"
    /\ UNCHANGED <<row, log>>
    /\ EndTransaction(w)

-----------------------------------------------------------------------------
(* The cloud reads a page: pullChanges, or resendPulledEntity of one kind *)

\* pullAudienceOf, for the version the register declares.
Served(e) == (feed = "pull" \/ KindOf[e] = feed) /\ (e \in HeldBack => upgraded)

\* As many of the first changes as n.
First(n, changes) == {c \in changes : Cardinality({d \in changes : d.seq < c.seq}) < n}

\* loggedAfter: one more than a page, to tell whether there are more.
BeginPage ==
    /\ pc = "asking"
    /\ logged' = First(PageSize + 1, {c \in log : c.seq > since /\ Served(c.entity)})
    /\ pending' = EntitiesOf(logged')
    /\ pc' = "reading"
    /\ UNCHANGED <<cloudVars, observed, writerVars, found, parts, delayed, feed, since, answer,
                   storedVars>>

\* A row that is read in two statements is locked with the first, which waits for its writer.
ReadRow(e) ==
    /\ pc = "reading" /\ e \in pending
    /\ e \in Compound => ~RowLocked(e)
    /\ found' = [found EXCEPT ![e] = row[e]]
    /\ parts' = [parts EXCEPT ![e] = IF e \in Compound THEN 0 ELSE row[e]]
    /\ pending' = pending \ {e}
    /\ UNCHANGED <<cloudVars, observed, writerVars, logged, delayed, pc, feed, since, answer,
                   storedVars>>

ReadParts(e) ==
    /\ pc = "reading" /\ found[e] > 0 /\ parts[e] = 0
    /\ parts' = [parts EXCEPT ![e] = row[e]]
    /\ UNCHANGED <<cloudVars, observed, writerVars, logged, pending, found, delayed, pc, feed,
                   since, answer, storedVars>>

\* latestLoggedVersions
LatestLogged(e) ==
    CHOOSE n \in Seq0 :
        /\ \E c \in log : c.entity = e /\ c.version = n
        /\ \A c \in log : c.entity = e => c.version <= n

\* The row as it was read, or its removal when there was none.
ItemOf(e) ==
    [entity |-> e, version |-> IF found[e] > 0 THEN found[e] ELSE LatestLogged(e),
     parts |-> parts[e], removed |-> found[e] = 0]

\* Faulty: the cursor of all that was read.
CursorOfLogged(page) == CHOOSE n \in {c.seq : c \in logged} \cup {since} :
                            \A c \in logged : c.seq <= n

\* The number of the page's last change, or where the page began.
CursorOf(page) == CHOOSE n \in {c.seq : c \in page} \cup {since} : \A c \in page : c.seq <= n

\* Faulty: the cursor the register will have when it saved the page.
ObservedPullAhead == IF feed = "pull" THEN CursorOf(First(PageSize, logged)) ELSE observed

\* recordObservedPull, of a pull only: what the register had when it asked.
ObservedPull == IF feed = "pull" THEN since ELSE observed

FinishPage ==
    /\ pc = "reading" /\ pending = {}
    /\ \A e \in Entity : found[e] > 0 => parts[e] > 0
    /\ LET page == First(PageSize, logged)
       IN  answer' = [items |-> {ItemOf(e) : e \in EntitiesOf(page)},
                      cursor |-> CursorOf(page), more |-> page # logged]
    /\ observed' = ObservedPull
    /\ pc' = "answered"
    /\ logged' = {} /\ pending' = {} /\ found' = Nothing /\ parts' = Nothing
    /\ UNCHANGED <<cloudVars, writerVars, delayed, feed, since, storedVars>>

\* An abandoned pull is answered to nobody.
HandleDelayed ==
    /\ \E n \in delayed : observed' = n /\ delayed' = delayed \ {n}
    /\ UNCHANGED <<cloudVars, writerVars, pageVars, pc, feed, since, answer, storedVars>>

-----------------------------------------------------------------------------
(* The register *)

\* Faulty: a redelivery skips the version held too.
AcceptedWhenNewer(version, held) == version > held

\* versionAccepted: a redelivery writes the version held again.
Accepted(version, held) == IF feed = "pull" THEN version > held ELSE version >= held

\* What the register has of a row once it saved the page.
Saved(e) ==
    LET copy == replica[e]
    IN  IF \E i \in answer.items : i.entity = e
        THEN LET item == CHOOSE i \in answer.items : i.entity = e
             IN  IF item.removed
                 THEN IF copy.version > 0 /\ copy.version < item.version
                      THEN [copy EXCEPT !.version = item.version, !.parts = item.version,
                                        !.removed = TRUE]
                      ELSE copy
                 ELSE IF copy.version = 0 \/ Accepted(item.version, copy.version)
                      THEN [version |-> item.version, parts |-> item.parts, removed |-> FALSE,
                            whole |-> TRUE]
                      ELSE copy
        ELSE copy

StartPull ==
    /\ pc = "idle"
    /\ pc' = "asking" /\ feed' = "pull" /\ since' = cursor
    /\ UNCHANGED <<cloudVars, observed, writerVars, pageVars, delayed, answer, storedVars>>

\* The page and its cursor are saved in one transaction.
SavePage ==
    /\ pc = "answered" /\ feed = "pull"
    /\ replica' = [e \in Entity |-> Saved(e)]
    /\ cursor' = answer.cursor /\ since' = answer.cursor
    /\ pc' = IF answer.more THEN "asking" ELSE "caught_up"
    /\ answer' = NoAnswer
    /\ UNCHANGED <<cloudVars, observed, writerVars, pageVars, delayed, feed, redelivering,
                   redeliveryCursor, upgraded>>

\* One kind after another, from where its redelivery was interrupted.
NextRedelivery ==
    /\ pc = "caught_up"
    /\ \E k \in redelivering : feed' = k /\ since' = redeliveryCursor[k]
    /\ pc' = "asking"
    /\ UNCHANGED <<cloudVars, observed, writerVars, pageVars, delayed, answer, storedVars>>

SaveRedeliveredPage ==
    /\ pc = "answered" /\ feed # "pull"
    /\ replica' = [e \in Entity |-> Saved(e)]
    /\ redeliveryCursor' = [redeliveryCursor EXCEPT ![feed] = answer.cursor]
    /\ since' = answer.cursor
    /\ pc' = IF answer.more THEN "asking" ELSE "redelivered"
    /\ answer' = NoAnswer
    /\ UNCHANGED <<cloudVars, observed, writerVars, pageVars, delayed, feed, cursor, redelivering,
                   upgraded>>

FinishRedelivery ==
    /\ pc = "redelivered"
    /\ redelivering' = redelivering \ {feed}
    /\ pc' = "caught_up"
    /\ UNCHANGED <<cloudVars, observed, writerVars, pageVars, delayed, feed, since, answer, cursor,
                   redeliveryCursor, upgraded, replica>>

EndPull ==
    /\ pc = "caught_up" /\ redelivering = {}
    /\ pc' = "idle"
    /\ UNCHANGED <<cloudVars, observed, writerVars, pageVars, delayed, feed, since, answer,
                   storedVars>>

\* While the cloud reads a page, giving up on it is to lose its answer afterwards.
ForgetPull ==
    /\ pc # "reading"
    /\ pc' = "idle" /\ answer' = NoAnswer
    /\ UNCHANGED <<cloudVars, observed, writerVars, pageVars, feed, since>>

\* The request fails or the process ends: what was saved stays, and a pull may still arrive.
Stop ==
    /\ pc # "idle"
    /\ ForgetPull
    /\ \/ delayed' = delayed
       \/ /\ pc = "asking" /\ feed = "pull"
          /\ Cardinality(delayed) < MaxDelayed
          /\ delayed' = delayed \cup {since}
    /\ UNCHANGED storedVars

\* The register starts with its newer version, whose migrations declare what must come again.
Upgrade ==
    /\ ~upgraded
    /\ upgraded' = TRUE
    /\ redelivering' = {KindOf[e] : e \in HeldBack \cup Widened}
    /\ redeliveryCursor' = [k \in Kind |-> 0]
    /\ replica' = [e \in Entity |->
            IF e \in Widened /\ replica[e].version > 0 THEN [replica[e] EXCEPT !.whole = FALSE]
                                                       ELSE replica[e]]
    /\ ForgetPull
    /\ UNCHANGED <<delayed, cursor>>

-----------------------------------------------------------------------------
WriterStep(w) == Write(w) \/ LogChanges(w) \/ Commit(w) \/ Rollback(w)
PageStep == BeginPage \/ (\E e \in Entity : ReadRow(e) \/ ReadParts(e)) \/ FinishPage
RegisterStep ==
    \/ StartPull \/ SavePage \/ NextRedelivery \/ SaveRedeliveredPage \/ FinishRedelivery
    \/ EndPull \/ Stop \/ Upgrade

Next ==
    \/ \E w \in Writers : WriterStep(w)
    \/ PageStep \/ HandleDelayed \/ RegisterStep

Spec == Init /\ [][Next]_vars

\* The sync schedule pulls again and again, and a pull goes on until it ends or fails.
PullStep ==
    \/ StartPull \/ PageStep \/ SavePage
    \/ NextRedelivery \/ SaveRedeliveredPage \/ FinishRedelivery \/ EndPull

Fairness == WF_vars(PullStep)

FairSpec == Spec /\ Fairness

-----------------------------------------------------------------------------
(* Properties *)

\* What a change logged is in the replica, in that version or a later one, unless the register
\* never had the row and it is gone.
Holds(c) ==
    \/ replica[c.entity].version >= c.version
    \/ replica[c.entity].version = 0 /\ row[c.entity] = 0

\* The changes the register has behind it: what it pulled, and, of a kind held back from the
\* version before, what was redelivered.
Behind(c) ==
    LET kind == KindOf[c.entity]
    IN  IF c.entity \notin HeldBack THEN c.seq <= cursor
        ELSE upgraded /\ c.seq <= IF kind \in redelivering THEN redeliveryCursor[kind] ELSE cursor

\* No committed change falls behind a cursor without reaching the replica, though writers take
\* numbers, commit and roll back while pages are read and pulls end midway (change-log.ts).
NothingSkipped == \A c \in log : Behind(c) => Holds(c)

\* When the cloud takes a change for pulled, by the cursor of the last pull it observed, the
\* register has it, in whatever order requests arrive (pull-page.ts, hasPulledChange).
ObservedIsHeld == \A c \in log : c.seq <= observed /\ c.entity \notin HeldBack => Holds(c)

\* A row and what belongs to it are of one version, though they are read in two statements.
NotTorn == \A e \in Entity : replica[e].parts = replica[e].version

\* A row in use has the columns the running version added, once its kind was redelivered, though
\* the version pulled before is the one the cloud still has.
RedeliveredIsWhole ==
    \A e \in Entity :
        KindOf[e] \notin redelivering => replica[e].whole \/ replica[e].removed

\* Once nobody writes any more and pulls no longer fail, the replica ends up the same as the rows
\* it is served, whatever was interrupted before (catch-up-with-cloud.ts).
Quiet == \A w \in Writers : writer[w] = "idle"
InUse(e) == IF replica[e].removed THEN 0 ELSE replica[e].version
Same(e) == InUse(e) = row[e] /\ (replica[e].whole \/ replica[e].removed)
FollowsCloud == \A e \in Entity : (e \in HeldBack => upgraded) => Same(e)
Convergence == <>[]Quiet => <>[]FollowsCloud \/ []<><<Stop /\ ~EndPull>>_vars

-----------------------------------------------------------------------------
\* Refinement: the log, the pages and the redeliveries implement FollowedRows
\* (catch-up-with-cloud.ts, sqlite-local-replica.ts): the copy of a row only goes forward, in whole
\* versions, and no change is passed over or taken for pulled that it lacks.
Passed == {c \in log : Behind(c) /\ c.seq <= cursor}
Claimed == {c \in log : c.seq <= observed /\ c.entity \notin HeldBack}
VersionsOf(changes) == {<<c.entity, c.version>> : c \in changes}

Abstract == INSTANCE FollowedRows WITH
    changes <- VersionsOf(log),
    copy <- [e \in Entity |-> {replica[e].version, replica[e].parts} \ {0}],
    gone <- {e \in Entity : replica[e].removed},
    passed <- VersionsOf(Passed),
    claimed <- VersionsOf(Claimed)

ImplementsFollowedRows == Abstract!Spec
=============================================================================
