---------------------------- MODULE RequestScope ----------------------------
(***************************************************************************)
(* The requests of threads into a ConcurrentIndexedCollection whose object *)
(* store and indexes are tables of one SQLite database, or of several      *)
(* (CompositePersistence): RequestScope, RequestScopeConnectionManager and *)
(* the persistences' getConnection().                                      *)
(*                                                                         *)
(* A request opens a connection to a database when it first needs one of   *)
(* its tables, changes the store and then every index, and ends by         *)
(* committing or rolling back its connections one after the other.  An     *)
(* iterator is a request that stays open between calls and commits after   *)
(* each remove().                                                          *)
(*                                                                         *)
(* SQLite is modelled by what the requests see of it: a connection reads   *)
(* the state committed when it began to read and its own changes; there is *)
(* one writer per database; a connection that wants to write although      *)
(* another one is writing, or has committed since it began to read, gets   *)
(* SQLITE_BUSY, in the first case after busy_timeout.  The program may     *)
(* crash at any time: SQLite then drops what is not committed, and a       *)
(* database in memory is lost and filled again from the object store when  *)
(* the program adds its indexes.  The settings of a connection during a    *)
(* bulk import are left out.                                               *)
(***************************************************************************)
EXTENDS Naturals, Sequences, SequencesExt

CONSTANTS
    Object, NoObject,
    Table, Store,      \* the tables of the object store and of the indexes
    Database,          \* the SQLite databases
    DatabaseOf,        \* [Table -> Database]: getPersistenceForIndex()
    Locking,           \* databases whose connections hold a ReadWriteLock
    Volatile,          \* databases in memory (OffHeapPersistence)
    Thread, NoThread,
    MayFail            \* may an index, a commit or the cursor throw?

ASSUME TableAssumption ==
    /\ Store \in Table
    /\ DatabaseOf \in [Table -> Database]
    /\ Locking \subseteq Database
    /\ Volatile \subseteq Locking \ {DatabaseOf[Store]}
ASSUME ThreadAssumption == NoThread \notin Thread /\ NoObject \notin Object /\ MayFail \in BOOLEAN

VARIABLES
    database,         \* [Table -> set of objects]: what has been committed
    writing,          \* [Database -> Thread \cup {NoThread}]: SQLite's one writer
    pc, flag, op,     \* a thread's position, its request's flag, what it does to tables
    object, todo,     \* the object that is changed, the tables still to be accessed
    openConnections,  \* [Thread -> sequence of databases], in the order of opening
    view,             \* [Thread -> [Table -> set of objects]]: what a request that may
                      \* write sees through its connections
    stale,            \* [Thread -> databases that others have changed since it, an
                      \* iterator, began to read]
    remaining,        \* [Thread -> connections still to be committed or rolled back]
    commitRemaining,  \* [Thread -> BOOLEAN]
    failed,           \* [Thread -> BOOLEAN]: the call will throw
    landed,           \* history: [Thread -> databases that this call has committed]
    confirmed,        \* history: [Thread -> objects whose Iterator.remove() has committed
                      \* everywhere and which nobody has added since]
    partial           \* history: has a commit failed after an earlier one succeeded?

requestVars == <<flag, op, object>>
historyVars == <<landed, confirmed, partial>>
vars == <<database, writing, pc, requestVars, todo, openConnections, view, stale,
          remaining, commitRemaining, failed, historyVars>>

TypeOK ==
    /\ database \in [Table -> SUBSET Object]
    /\ writing \in [Database -> Thread \cup {NoThread}]
    /\ pc \in [Thread -> {"idle", "working", "between", "committing", "closing"}]
    /\ flag \in [Thread -> {"READ_REQUEST", "WRITE_REQUEST", "none"}]
    /\ op \in [Thread -> {"read", "add", "remove"}]
    /\ object \in [Thread -> Object \cup {NoObject}]
    /\ todo \in [Thread -> SUBSET Table]
    /\ openConnections \in [Thread -> Seq(Database)]
    /\ remaining \in [Thread -> Seq(Database)]
    /\ view \in [Thread -> [Table -> SUBSET Object]]
    /\ stale \in [Thread -> SUBSET Database]
    /\ commitRemaining \in [Thread -> BOOLEAN]
    /\ failed \in [Thread -> BOOLEAN]
    /\ landed \in [Thread -> SUBSET Database]
    /\ confirmed \in [Thread -> SUBSET Object]
    /\ partial \in BOOLEAN

\* A collection on databases left by earlier runs of the program, nobody using it.
Init ==
    /\ \E S \in SUBSET Object : database = [p \in Table |-> S]
    /\ writing = [d \in Database |-> NoThread]
    /\ pc = [t \in Thread |-> "idle"]
    /\ flag = [t \in Thread |-> "none"]
    /\ op = [t \in Thread |-> "read"]
    /\ object = [t \in Thread |-> NoObject]
    /\ todo = [t \in Thread |-> {}]
    /\ openConnections = [t \in Thread |-> <<>>]
    /\ view = [t \in Thread |-> [p \in Table |-> {}]]
    /\ stale = [t \in Thread |-> {}]
    /\ remaining = [t \in Thread |-> <<>>]
    /\ commitRemaining = [t \in Thread |-> FALSE]
    /\ failed = [t \in Thread |-> FALSE]
    /\ landed = [t \in Thread |-> {}]
    /\ confirmed = [t \in Thread |-> {}]
    /\ partial = FALSE

-----------------------------------------------------------------------------
(* Calls                                                                   *)

\* A request scope is opened, with no connection.
Begin(t, f, what, o, tables) ==
    /\ pc[t] = "idle"
    /\ pc' = [pc EXCEPT ![t] = "working"]
    /\ flag' = [flag EXCEPT ![t] = f]
    /\ op' = [op EXCEPT ![t] = what]
    /\ object' = [object EXCEPT ![t] = o]
    /\ todo' = [todo EXCEPT ![t] = tables]
    /\ UNCHANGED <<database, writing, openConnections, view, stale, remaining,
                   commitRemaining, failed, historyVars>>

\* size(), contains(), retrieve(), ...: the store, or an index and then the store.
Read(t, tables) ==
    /\ tables = {Store} \/ \E p \in Table \ {Store} : tables = {p, Store}
    /\ Begin(t, "READ_REQUEST", "read", NoObject, tables)

\* add(), remove(), and Iterator.remove() of the last object, when the iterator has
\* closed itself.
Write(t, what, o) ==
    /\ what \in {"add", "remove"}
    /\ Begin(t, "WRITE_REQUEST", what, o, Table)

\* iterator(): a request without a flag, which begins by reading the store.
OpenIterator(t) == Begin(t, "none", "read", NoObject, {Store})

\* Mutant: remove() does not check that next() has returned an object.
IteratorRemoveUnchecked(t, o) ==
    /\ pc[t] = "between"
    /\ pc' = [pc EXCEPT ![t] = "working"]
    /\ op' = [op EXCEPT ![t] = "remove"]
    /\ object' = [object EXCEPT ![t] = NoObject]
    /\ todo' = [todo EXCEPT ![t] = Table]
    /\ UNCHANGED <<database, writing, flag, openConnections, view, stale, remaining,
                   commitRemaining, failed, historyVars>>

\* Iterator.remove() of an object that the cursor has returned.
IteratorRemove(t, o) ==
    /\ pc[t] = "between"
    /\ o \in view[t][Store]
    /\ pc' = [pc EXCEPT ![t] = "working"]
    /\ op' = [op EXCEPT ![t] = "remove"]
    /\ object' = [object EXCEPT ![t] = o]
    /\ todo' = [todo EXCEPT ![t] = Table]
    /\ UNCHANGED <<database, writing, flag, openConnections, view, stale, remaining,
                   commitRemaining, failed, historyVars>>

-----------------------------------------------------------------------------
(* Connections                                                             *)

Connections(t) == ToSet(openConnections[t])

\* t has a connection to d that it has not closed yet.
Holds(t, d) == d \in IF pc[t] = "closing" THEN ToSet(remaining[t]) ELSE Connections(t)

\* The read lock for a request flagged READ_REQUEST, else the write lock.
LockAvailable(t, d) ==
    \A u \in Thread \ {t} :
        Holds(u, d) => flag[t] = "READ_REQUEST" /\ flag[u] = "READ_REQUEST"

\* Changes begin with the store; a query ends with the objects it gets from there.
MayAccess(t, p) ==
    /\ p \in todo[t]
    /\ IF op[t] = "read" THEN p = Store => todo[t] = {Store}
       ELSE Store \in todo[t] => p = Store

\* RequestScope.close(): the connections are going to be committed or rolled back.
CloseScope(t, commit, throw) ==
    /\ pc' = [pc EXCEPT ![t] = "closing"]
    /\ remaining' = [remaining EXCEPT ![t] = openConnections[t]]
    /\ commitRemaining' = [commitRemaining EXCEPT ![t] = commit]
    /\ failed' = [failed EXCEPT ![t] = throw]
    /\ todo' = [todo EXCEPT ![t] = {}]
    /\ UNCHANGED <<database, writing, requestVars, openConnections, view, stale, historyVars>>

\* Mutant: the outcome of a request scope is COMMIT to begin with.
ThrowAndCommit(t) == CloseScope(t, TRUE, TRUE)

\* An exception leaves the request, which has not been marked successful.
Throw(t) == CloseScope(t, FALSE, TRUE)

\* What t sees of the tables of d when it begins to read them now.
Refreshed(t, d) ==
    [q \in Table |-> IF DatabaseOf[q] = d THEN database[q] ELSE view[t][q]]

\* Mutant: a write request begins with a deferred transaction too.
OpenDeferredConnection(t, p) ==
    LET d == DatabaseOf[p]
    IN  /\ pc[t] = "working" /\ MayAccess(t, p)
        /\ d \notin Connections(t)
        /\ d \in Locking => LockAvailable(t, d)
        /\ openConnections' = [openConnections EXCEPT ![t] = Append(@, d)]
        /\ view' = IF flag[t] = "READ_REQUEST" THEN view
                   ELSE [view EXCEPT ![t] = Refreshed(t, d)]
        /\ UNCHANGED <<database, writing, pc, requestVars, todo, stale, remaining,
                       commitRemaining, failed, historyVars>>

\* getConnection() for table p opens a connection to its database: the lock if there
\* is one, then BEGIN IMMEDIATE for a write request, else a deferred BEGIN.
OpenConnection(t, p) ==
    LET d == DatabaseOf[p]
        immediate == flag[t] = "WRITE_REQUEST"
    IN  /\ pc[t] = "working" /\ MayAccess(t, p)
        /\ d \notin Connections(t)
        /\ d \in Locking => LockAvailable(t, d)
        /\ immediate => writing[d] = NoThread
        /\ writing' = IF immediate THEN [writing EXCEPT ![d] = t] ELSE writing
        /\ openConnections' = [openConnections EXCEPT ![t] = Append(@, d)]
        /\ view' = IF flag[t] = "READ_REQUEST" THEN view
                   ELSE [view EXCEPT ![t] = Refreshed(t, d)]
        /\ UNCHANGED <<database, pc, requestVars, todo, stale, remaining, commitRemaining,
                       failed, historyVars>>

\* SQLITE_BUSY at BEGIN IMMEDIATE, after busy_timeout: this connection is closed, and
\* its lock released, before it becomes one of the open connections.
OpenConnectionFails(t, p) ==
    LET d == DatabaseOf[p] IN
    /\ pc[t] = "working" /\ MayAccess(t, p)
    /\ d \notin Connections(t)
    /\ d \in Locking => LockAvailable(t, d)
    /\ flag[t] = "WRITE_REQUEST" /\ writing[d] # NoThread
    /\ Throw(t)

\* A table is read through an open connection.
ReadTable(t, p) ==
    /\ pc[t] = "working" /\ MayAccess(t, p)
    /\ op[t] = "read"
    /\ DatabaseOf[p] \in Connections(t)
    /\ todo' = [todo EXCEPT ![t] = @ \ {p}]
    /\ UNCHANGED <<database, writing, pc, requestVars, openConnections, view, stale,
                   remaining, commitRemaining, failed, historyVars>>

\* The transaction of an iterator's connection begins to read with the cursor, or, in
\* a database without a cursor, with each remove().
ReadsAnew(t, d) == writing[d] # t /\ d # DatabaseOf[Store]

MayWrite(t, d) == writing[d] = t \/ (writing[d] = NoThread /\ (d \notin stale[t] \/ ReadsAnew(t, d)))

\* What t's request makes of the objects of a table.
Changed(t, objects) ==
    IF op[t] = "add" THEN objects \cup {object[t]} ELSE objects \ {object[t]}

ChangeView(t, p) ==
    LET d == DatabaseOf[p]
        seen == IF ReadsAnew(t, d) THEN Refreshed(t, d) ELSE view[t]
    IN  /\ pc[t] = "working" /\ MayAccess(t, p)
        /\ op[t] # "read"
        /\ d \in Connections(t)
        /\ writing' = [writing EXCEPT ![d] = t]
        /\ view' = [view EXCEPT ![t] = [seen EXCEPT ![p] = Changed(t, @)]]
        /\ stale' = [stale EXCEPT ![t] = @ \ {d}]
        /\ todo' = [todo EXCEPT ![t] = @ \ {p}]
        /\ UNCHANGED <<database, pc, requestVars, openConnections, remaining, commitRemaining,
                       failed, historyVars>>

\* Mutant: an iterator writes on top of what others have committed since it began.
ChangeStaleTable(t, p) ==
    /\ writing[DatabaseOf[p]] \in {t, NoThread}
    /\ ChangeView(t, p)

\* objectStore.add() or remove(), then addAll() or removeAll() of each index.
ChangeTable(t, p) ==
    /\ MayWrite(t, DatabaseOf[p])
    /\ ChangeView(t, p)

\* SQLITE_BUSY when a deferred transaction wants to write.
ChangeTableFails(t, p) ==
    /\ pc[t] = "working" /\ MayAccess(t, p)
    /\ op[t] # "read"
    /\ DatabaseOf[p] \in Connections(t)
    /\ ~MayWrite(t, DatabaseOf[p])
    /\ Throw(t)

\* The thread waits in getConnection() for the lock of the database it needs next.
Blocked(t) ==
    \E p \in Table : /\ pc[t] = "working" /\ MayAccess(t, p)
                     /\ DatabaseOf[p] \in Locking \ Connections(t)
                     /\ ~LockAvailable(t, DatabaseOf[p])

\* The store, an index, the cursor or getConnection() throws.
RequestFails(t) ==
    /\ MayFail
    /\ pc[t] \in {"working", "between"}
    /\ ~Blocked(t)
    /\ Throw(t)

-----------------------------------------------------------------------------
(* The end of a request, and of Iterator.remove()                          *)

\* Mutant: Iterator.remove() does not commit.
RequestSucceedsWithoutCommit(t) ==
    /\ pc[t] = "working"
    /\ todo[t] = {}
    /\ IF flag[t] = "none"
       THEN /\ pc' = [pc EXCEPT ![t] = "between"]
            /\ confirmed' = [confirmed EXCEPT ![t] = @ \cup ({object[t]} \ {NoObject})]
            /\ UNCHANGED <<database, writing, requestVars, todo, openConnections, view,
                           stale, remaining, commitRemaining, failed, landed, partial>>
       ELSE CloseScope(t, TRUE, FALSE)

\* The work is done: markSuccessful() and close(); or iterator() returns; or
\* Iterator.remove() goes on to commitOpenTransactions().
RequestSucceeds(t) ==
    /\ pc[t] = "working"
    /\ todo[t] = {}
    /\ \/ flag[t] # "none" /\ CloseScope(t, TRUE, FALSE)
       \/ /\ flag[t] = "none"
          /\ pc' = [pc EXCEPT ![t] = IF op[t] = "read" THEN "between" ELSE "committing"]
          /\ remaining' = [remaining EXCEPT ![t] = IF op[t] = "read" THEN <<>> ELSE openConnections[t]]
          /\ commitRemaining' = [commitRemaining EXCEPT ![t] = op[t] # "read"]
          /\ UNCHANGED <<database, writing, requestVars, todo, openConnections, view, stale,
                         failed, historyVars>>

\* close() of the iterator, by the application or at the end of the iteration.
CloseIterator(t) ==
    /\ pc[t] = "between"
    /\ CloseScope(t, TRUE, FALSE)

\* SQLite commits what t has written to d, if anything.
CommitData(t, d) ==
    LET added == IF op[t] = "add" THEN {object[t]} ELSE {}
        removed == IF pc[t] = "committing" /\ Tail(remaining[t]) = <<>> THEN {object[t]} ELSE {}
    IN
    IF writing[d] = t
    THEN /\ database' = [q \in Table |-> IF DatabaseOf[q] = d THEN view[t][q] ELSE database[q]]
         /\ writing' = [writing EXCEPT ![d] = NoThread]
         /\ stale' = [u \in Thread |-> IF flag[u] = "none" /\ u # t /\ Holds(u, d)
                                       THEN stale[u] \cup {d} ELSE stale[u]]
         /\ confirmed' = [u \in Thread |-> IF u = t THEN (confirmed[u] \ added) \cup removed
                                           ELSE confirmed[u] \ added]
         /\ UNCHANGED view
    ELSE UNCHANGED <<database, writing, view, stale, confirmed>>

\* SQLite drops what t has written to d.
RollbackData(t, d) ==
    /\ view' = IF flag[t] = "READ_REQUEST" THEN view
               ELSE [view EXCEPT ![t] = Refreshed(t, d)]
    /\ writing' = IF writing[d] = t THEN [writing EXCEPT ![d] = NoThread] ELSE writing
    /\ UNCHANGED <<database, stale, confirmed>>

\* One round of the loop of close() or commitOpenTransactions(): the next connection
\* is committed and, by close(), closed; closing it may throw.
CommitNext(t) ==
    LET d == Head(remaining[t]) IN
    /\ pc[t] \in {"committing", "closing"}
    /\ remaining[t] # <<>>
    /\ commitRemaining[t]
    /\ CommitData(t, d)
    /\ landed' = [landed EXCEPT ![t] = @ \cup {d}]
    /\ remaining' = [remaining EXCEPT ![t] = Tail(@)]
    /\ \E closeFails \in {FALSE, MayFail /\ pc[t] = "closing"} :
          failed' = [failed EXCEPT ![t] = @ \/ closeFails]
    /\ UNCHANGED <<pc, requestVars, todo, openConnections, commitRemaining, partial>>

\* Mutant: the connections after one that could not be committed are committed.
CommitFailureIgnored(t) ==
    LET d == Head(remaining[t]) IN
    /\ MayFail
    /\ pc[t] \in {"committing", "closing"}
    /\ remaining[t] # <<>>
    /\ commitRemaining[t]
    /\ RollbackData(t, d)
    /\ remaining' = [remaining EXCEPT ![t] = Tail(@)]
    /\ failed' = [failed EXCEPT ![t] = TRUE]
    /\ partial' = (partial \/ landed[t] # {})
    /\ UNCHANGED <<pc, requestVars, todo, openConnections, commitRemaining, landed>>

\* The commit throws: this connection and the remaining ones are rolled back.
CommitFails(t) ==
    LET d == Head(remaining[t]) IN
    /\ MayFail
    /\ pc[t] \in {"committing", "closing"}
    /\ remaining[t] # <<>>
    /\ commitRemaining[t]
    /\ RollbackData(t, d)
    /\ remaining' = [remaining EXCEPT ![t] = Tail(@)]
    /\ commitRemaining' = [commitRemaining EXCEPT ![t] = FALSE]
    /\ failed' = [failed EXCEPT ![t] = TRUE]
    /\ partial' = (partial \/ landed[t] # {})
    /\ UNCHANGED <<pc, requestVars, todo, openConnections, landed>>

\* Mutant: a connection that is not committed is closed and returned as it is.
CloseWithoutRollback(t) ==
    /\ pc[t] \in {"committing", "closing"}
    /\ remaining[t] # <<>>
    /\ ~commitRemaining[t]
    /\ remaining' = [remaining EXCEPT ![t] = Tail(@)]
    /\ UNCHANGED <<database, writing, pc, requestVars, todo, openConnections, view, stale,
                   commitRemaining, failed, historyVars>>

\* After a failure; should the rollback throw, closing the connection rolls it back.
RollBackNext(t) ==
    LET d == Head(remaining[t]) IN
    /\ pc[t] \in {"committing", "closing"}
    /\ remaining[t] # <<>>
    /\ ~commitRemaining[t]
    /\ RollbackData(t, d)
    /\ remaining' = [remaining EXCEPT ![t] = Tail(@)]
    /\ UNCHANGED <<pc, requestVars, todo, openConnections, commitRemaining, failed, landed,
                   partial>>

\* Iterator.remove() returns, or fails and closes the cursor and the scope.
RemoveReturns(t) ==
    /\ pc[t] = "committing"
    /\ remaining[t] = <<>>
    /\ IF failed[t]
       THEN /\ CloseScope(t, FALSE, TRUE)
       ELSE /\ pc' = [pc EXCEPT ![t] = "between"]
            /\ op' = [op EXCEPT ![t] = "read"]
            /\ object' = [object EXCEPT ![t] = NoObject]
            /\ landed' = [landed EXCEPT ![t] = {}]
            /\ UNCHANGED <<database, writing, flag, todo, openConnections, view, stale,
                           remaining, commitRemaining, failed, confirmed, partial>>

Return(t) ==
    /\ pc[t] = "closing"
    /\ remaining[t] = <<>>
    /\ pc' = [pc EXCEPT ![t] = "idle"]
    /\ flag' = [flag EXCEPT ![t] = "none"]
    /\ op' = [op EXCEPT ![t] = "read"]
    /\ object' = [object EXCEPT ![t] = NoObject]
    /\ openConnections' = [openConnections EXCEPT ![t] = <<>>]
    /\ view' = [view EXCEPT ![t] = [p \in Table |-> {}]]
    /\ stale' = [stale EXCEPT ![t] = {}]
    /\ commitRemaining' = [commitRemaining EXCEPT ![t] = FALSE]
    /\ failed' = [failed EXCEPT ![t] = FALSE]
    /\ landed' = [landed EXCEPT ![t] = {}]
    /\ confirmed' = [confirmed EXCEPT ![t] = {}]
    /\ UNCHANGED <<database, writing, todo, remaining, partial>>

-----------------------------------------------------------------------------
(* Crashes                                                                 *)

\* Is the store's the only database on disk?
IndexesInMemory == Database \ Volatile = {DatabaseOf[Store]}

\* The program crashes during a request and is started again (which does not count
\* as a way out for threads that wait for one another).  addIndex() calls
\* init(), which skips a table that exists and fills a new one from the store.
Restart ==
    /\ MayFail
    /\ \E t \in Thread : pc[t] # "idle" /\ ~Blocked(t)
    /\ database' = [p \in Table |-> IF DatabaseOf[p] \in Volatile THEN database[Store]
                                    ELSE database[p]]
    /\ writing' = [d \in Database |-> NoThread]
    /\ pc' = [t \in Thread |-> "idle"]
    /\ flag' = [t \in Thread |-> "none"]
    /\ op' = [t \in Thread |-> "read"]
    /\ object' = [t \in Thread |-> NoObject]
    /\ todo' = [t \in Thread |-> {}]
    /\ openConnections' = [t \in Thread |-> <<>>]
    /\ view' = [t \in Thread |-> [p \in Table |-> {}]]
    /\ stale' = [t \in Thread |-> {}]
    /\ remaining' = [t \in Thread |-> <<>>]
    /\ commitRemaining' = [t \in Thread |-> FALSE]
    /\ failed' = [t \in Thread |-> FALSE]
    /\ landed' = [t \in Thread |-> {}]
    /\ partial' = (~IndexesInMemory /\ (partial \/ \E t \in Thread : landed[t] # {}))
    /\ UNCHANGED confirmed

-----------------------------------------------------------------------------
Call(t) ==
    \/ \E tables \in SUBSET Table : Read(t, tables)
    \/ \E what \in {"add", "remove"}, o \in Object : Write(t, what, o)
    \/ OpenIterator(t)
    \/ \E o \in Object : IteratorRemove(t, o)

Step(t) ==
    \/ \E p \in Table :
          \/ OpenConnection(t, p) \/ OpenConnectionFails(t, p)
          \/ ReadTable(t, p) \/ ChangeTable(t, p) \/ ChangeTableFails(t, p)
    \/ RequestSucceeds(t) \/ CloseIterator(t)
    \/ CommitNext(t) \/ CommitFails(t) \/ RollBackNext(t)
    \/ RemoveReturns(t) \/ Return(t)

Next ==
    \/ \E t \in Thread : Call(t) \/ Step(t) \/ RequestFails(t)
    \/ Restart

Spec == Init /\ [][Next]_vars

-----------------------------------------------------------------------------
(* What a request scope promises                                           *)

\* "Commit only after the object store and every index complete normally": whatever
\* fails, whenever the program crashes, and however many removals an iterator has
\* committed, the store and the indexes of one database never differ in what is
\* committed.
TablesOfADatabaseAgree ==
    \A p, q \in Table : DatabaseOf[p] = DatabaseOf[q] => database[p] = database[q]

\* A composite of several databases is only inconsistent between the commits of one
\* request, or once a commit has failed after another had succeeded: concurrent
\* requests and iterators never overwrite each other's changes in one database and
\* not in the other, and a restart brings indexes in memory in line with the store.
DatabasesAgreeBetweenCommits ==
    (~partial /\ \A t \in Thread : landed[t] = {}) =>
        \A p \in Table : database[p] = database[Store]

\* "Connections commit sequentially.  If a later commit fails, an earlier successful
\* commit cannot be undone; CQEngine rolls back the failing and not-yet-committed
\* connections": a call that returns has committed every connection, and one that
\* throws has committed those up to some point in the order of opening.
CommittedInOrder ==
    \A t \in Thread :
        (pc[t] \in {"closing", "committing"} /\ remaining[t] = <<>>) =>
            \E n \in 0 .. Len(openConnections[t]) :
                /\ landed[t] = ToSet(SubSeq(openConnections[t], 1, n))
                /\ ~failed[t] => n = Len(openConnections[t])

\* Whatever fails, a thread that is outside of a request holds no transaction open
\* that would block the others.
NothingLeftOpen ==
    \A t \in Thread, d \in Database : writing[d] = t => Holds(t, d)

\* "A successful Iterator.remove() commits that removal while leaving the cursor open.
\* If later iterator work fails, CQEngine rolls back work performed since the last
\* successful removal": the removals before that one stay, even after a crash, until
\* somebody adds the object again.
RemovalsLast ==
    \A t \in Thread, o \in Object :
        o \in confirmed[t] => \A p \in Table : o \notin database[p]

-----------------------------------------------------------------------------
(* The inductive invariant behind them                                     *)

\* t commits a change: its commit loop has begun and nothing has failed.
Commits(t) ==
    pc[t] \in {"committing", "closing"} /\ commitRemaining[t] /\ op[t] # "read"

\* What a thread's position says about its request.
PhaseInv ==
    \A t \in Thread :
        /\ op[t] # "read" => object[t] \in Object
        /\ pc[t] = "idle" => openConnections[t] = <<>>
        /\ pc[t] \in {"idle", "between"} => op[t] = "read" /\ flag[t] = "none"
        /\ pc[t] = "committing" => op[t] = "remove" /\ flag[t] = "none"
        /\ pc[t] \in {"committing", "closing"} => todo[t] = {}
        /\ pc[t] \in {"idle", "working", "between"} => landed[t] = {} /\ ~failed[t]
        /\ flag[t] = "READ_REQUEST" => op[t] = "read"
        /\ flag[t] = "WRITE_REQUEST" => op[t] # "read"
        /\ op[t] = "add" => flag[t] = "WRITE_REQUEST"

\* The connections of a request are to different databases, the ones of tables; those
\* that it still has to end are among them, and commits go through them in order.
ConnectionInv ==
    \A t \in Thread :
        /\ \A i, j \in 1 .. Len(openConnections[t]) :
              openConnections[t][i] = openConnections[t][j] => i = j
        /\ \A d \in Connections(t) : \E p \in Table : d = DatabaseOf[p]
        /\ pc[t] \in {"committing", "closing"} =>
              \E m, n \in 0 .. Len(openConnections[t]) :
                  /\ remaining[t] = SubSeq(openConnections[t], m + 1, Len(openConnections[t]))
                  /\ landed[t] = ToSet(SubSeq(openConnections[t], 1, n))
                  /\ commitRemaining[t] => m = n
                  /\ ~failed[t] => commitRemaining[t]

\* SQLite's writer of a database is a thread whose request changes something, and has
\* a connection that it has not ended yet; a write request is the writer of all it has
\* opened; what a thread has changed, it is the writer of.
WriterInv ==
    \A t \in Thread, d \in Database :
        /\ writing[d] = t =>
              /\ op[t] # "read"
              /\ pc[t] \in {"working", "committing", "closing"}
              /\ d \in IF pc[t] = "working" THEN Connections(t) ELSE ToSet(remaining[t])
        /\ (pc[t] = "working" /\ flag[t] = "WRITE_REQUEST" /\ d \in Connections(t)) =>
              writing[d] = t
        /\ (pc[t] = "working" /\ op[t] # "read" /\ writing[d] # t) =>
              \A p \in Table : DatabaseOf[p] = d => p \in todo[t]

\* A thread that commits a change has written to every database, and remains the
\* writer of each until that one is committed; so only one thread can be between its
\* first and its last commit, and nobody undoes in the meantime what it has committed.
CommitInv ==
    /\ \A t \in Thread : Commits(t) =>
          /\ \A p \in Table : DatabaseOf[p] \in landed[t] \cup ToSet(remaining[t])
          /\ \A d \in ToSet(remaining[t]) : writing[d] = t
          /\ (op[t] = "remove" /\ remaining[t] # <<>>) =>
                \A p \in Table : DatabaseOf[p] \in landed[t] => object[t] \notin database[p]
    /\ \A t, u \in Thread : (Commits(t) /\ Commits(u) /\ t # u) =>
          remaining[t] = <<>> \/ remaining[u] = <<>>

\* An iterator sees what is committed, unless SQLite knows that it does not.
SnapshotInv ==
    \A t \in Thread, p \in Table :
        LET d == DatabaseOf[p] IN
        /\ flag[t] = "none" /\ pc[t] \in {"working", "between", "committing"}
        /\ d \in Connections(t) \ stale[t]
        /\ writing[d] # t
        => view[t][p] = database[p]

\* The writer of a database sees what is committed and its own changes.
WriteViewInv ==
    \A t \in Thread, p \in Table :
        /\ writing[DatabaseOf[p]] = t
        /\ pc[t] = "working" \/ Commits(t)
        => view[t][p] = IF p \in todo[t] THEN database[p] ELSE Changed(t, database[p])

\* Unless a commit has failed half-way, tables that differ do so by the change of a
\* thread that has committed the one and not yet the other.
AgreementInv ==
    ~partial =>
        /\ \A t \in Thread, p, q \in Table :
              (Commits(t) /\ DatabaseOf[p] \in landed[t] /\ DatabaseOf[q] \in ToSet(remaining[t]))
              => database[p] = Changed(t, database[q])
        /\ \A p, q \in Table : database[p] # database[q] =>
              \E t \in Thread :
                  /\ Commits(t)
                  /\ \/ DatabaseOf[p] \in landed[t] /\ DatabaseOf[q] \in ToSet(remaining[t])
                     \/ DatabaseOf[q] \in landed[t] /\ DatabaseOf[p] \in ToSet(remaining[t])

\* Requests leave the databases as they promise because of who may write when: all of
\* this together is preserved by every step of every thread, by failures and crashes.
IndInv ==
    /\ TypeOK
    /\ PhaseInv
    /\ ConnectionInv
    /\ WriterInv
    /\ CommitInv
    /\ SnapshotInv
    /\ WriteViewInv
    /\ AgreementInv
    /\ TablesOfADatabaseAgree
    /\ RemovalsLast
=============================================================================
