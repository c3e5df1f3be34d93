----------------- MODULE PersistentTransactionalCollection -----------------
(***************************************************************************)
(* A TransactionalIndexedCollection whose object store, and perhaps some   *)
(* of its indexes, are tables of one SQLite database: the versions of      *)
(* TransactionalIndexedCollection on top of the transactions of a request  *)
(* scope.                                                                  *)
(*                                                                         *)
(* update() opens a request scope inside writeMutex.  Its connection is    *)
(* opened by the first access to the database and kept until the scope is  *)
(* closed: by a commit after the last version has been published, or by a  *)
(* rollback before restoreEmptyVersionAfterFailure.  A reader opens its    *)
(* connection when it already holds the read lock of its version.          *)
(*                                                                         *)
(* With DiskPersistence a connection reads the last committed state as of  *)
(* its first read (write-ahead log).  With OffHeapPersistence, and with a  *)
(* shared cache on disk, a ReadWriteLock is held as long as the connection *)
(* is open.                                                                *)
(*                                                                         *)
(* For a place in the database, contents is what the open write            *)
(* transaction sees; between transactions, what was last committed.        *)
(***************************************************************************)
EXTENDS TransactionalIndexedCollection

CONSTANTS
    Persisted,  \* the places that are tables of the database
    Locking,    \* does a connection hold the persistence's ReadWriteLock?
    Replacing   \* may one update() both remove and add?

ASSUME PersistedAssumption ==
    Persisted \subseteq Place /\ Store \in Persisted
ASSUME PersistenceAssumption ==
    Locking \in BOOLEAN /\ Replacing \in BOOLEAN /\ Ops = {"update"}

VARIABLES
    database,    \* [Persisted -> set of objects]: the last committed state
    connected,   \* [Writer -> BOOLEAN]: has its request opened its connection?
    connection,  \* [Reader -> state of its request's connection]
    snapshot,    \* [Reader -> set of objects]: what its read transaction sees
    before,      \* history: [Writer -> the collection when update() was called]
    past         \* history: the collections there have been between transactions

persistenceVars == <<database, connected, connection, snapshot, before, past>>
pvars == <<vars, persistenceVars>>

ConnectionState == {"none", "opening", "open"}

PTypeOK ==
    /\ TypeOK
    /\ database \in [Persisted -> SUBSET Object]
    /\ connected \in [Writer -> BOOLEAN]
    /\ connection \in [Reader -> ConnectionState]
    /\ snapshot \in [Reader -> SUBSET Object]
    /\ before \in [Writer -> SUBSET Object]
    /\ past \subseteq SUBSET Object

PInit ==
    /\ Init
    /\ database = [p \in Persisted |-> contents[p]]
    /\ connected = [w \in Writer |-> FALSE]
    /\ connection = [r \in Reader |-> "none"]
    /\ snapshot = [r \in Reader |-> {}]
    /\ before = [w \in Writer |-> {}]
    /\ past = {contents[Store]}

-----------------------------------------------------------------------------
(* Writers                                                                 *)

\* update() enters writeMutex and opens a request scope, but no connection yet.
PUpdate(w, rem, add, iterables) ==
    /\ Replacing \/ rem = {} \/ add = {}
    /\ Update(w, rem, add, iterables)
    /\ before' = [before EXCEPT ![w] = database[Store]]
    /\ UNCHANGED <<database, connected, connection, snapshot, past>>

\* The first statement of the request: STRICT_REPLACEMENT's look at the store, or
\* the first change.  BEGIN IMMEDIATE, after the write lock if there is one.
OpenWriteConnection(w) ==
    /\ \/ wpc[w] \in {"adding", "removing"}
       \/ wpc[w] = "entered" /\ objectsToRemove[w] # {}
    /\ ~connected[w]
    /\ Locking => \A r \in Reader : connection[r] # "open"
    /\ connected' = [connected EXCEPT ![w] = TRUE]
    /\ UNCHANGED <<vars, database, connection, snapshot, before, past>>

\* The connection cannot be opened (SQLITE_BUSY) for STRICT_REPLACEMENT's check,
\* when there is no version to be restored yet.
StrictReplacementFails(w) ==
    /\ MayFail
    /\ wpc[w] = "entered"
    /\ objectsToRemove[w] # {}
    /\ wpc' = [wpc EXCEPT ![w] = "throwing"]
    /\ connected' = [connected EXCEPT ![w] = FALSE]
    /\ UNCHANGED <<collectionVars, versionVars, writeLocked, writeMutex, objectsToAdd,
                   objectsToRemove, previousVersion, todo, byObject, modified,
                   changed, readerVars, database, connection, snapshot, before, past>>

\* Nothing to do, or an object to be replaced is not in the store.
PUpdateReturnsEarly(w) ==
    /\ connected[w] \/ objectsToAdd[w] \cup objectsToRemove[w] = {}
    /\ UpdateReturnsEarly(w)
    /\ UNCHANGED persistenceVars

\* Publishing a version, and waiting for the readers of the previous one, touch no
\* connection; the writer keeps the one it has.  A connection that is open on entry is
\* STRICT_REPLACEMENT's, which has then found the objects to be removed.
PVersionStep(w) ==
    /\ wpc[w] = "entered" /\ connected[w] => objectsToRemove[w] \subseteq contents[Store]
    /\ BeginAdd(w) \/ BeginRemove(w) \/ BeginEmpty(w) \/ Drain(w)
    /\ UNCHANGED persistenceVars

PChangeOne(w, p, o) ==
    /\ p \in Persisted => connected[w]
    /\ ChangeOne(w, p, o)
    /\ UNCHANGED persistenceVars

\* An index or the store throws, SQLITE_BUSY when the connection is opened included.
PFail(w) ==
    /\ Fail(w)
    /\ UNCHANGED persistenceVars

\* What the places hold when the transaction has been rolled back.
RolledBack == [p \in Place |-> IF p \in Persisted THEN database[p] ELSE contents[p]]

\* Indexes on the heap keep what the failed request has done to them.
TornOnHeap(v) == torn' = IF Persisted = Place THEN torn ELSE torn \cup {v}

\* RequestScope.close() with outcome ROLLBACK, which try-with-resources does before
\* the catch clause of update() is entered.
RollBack(w) ==
    /\ wpc[w] = "failed"
    /\ connected[w]
    /\ contents' = RolledBack
    /\ connected' = [connected EXCEPT ![w] = FALSE]
    /\ UNCHANGED <<versionVars, writeLocked, writeMutex, writerVars, readerVars,
                   database, connection, snapshot, before, past>>

\* Mutant: a failed mutation leaves its exclusion version in place.
PRestoreNothing(w) ==
    /\ wpc[w] = "failed"
    /\ ~connected[w]
    /\ wpc' = [wpc EXCEPT ![w] = "throwing"]
    /\ UNCHANGED <<collectionVars, versionVars, writeLocked, writeMutex, objectsToAdd,
                   objectsToRemove, previousVersion, todo, byObject, modified,
                   changed, readerVars, persistenceVars>>

\* restoreEmptyVersionAfterFailure, for what the rollback has left.
PRestoreEmptyVersionAfterFailure(w) ==
    /\ wpc[w] = "failed"
    /\ ~connected[w]
    /\ IncrementVersion(w, {}, FALSE, before[w])
    /\ TornOnHeap(currentVersion + 1)
    /\ wpc' = [wpc EXCEPT ![w] = "drainRestore"]
    /\ UNCHANGED <<collectionVars, writeLocked, writeMutex, objectsToAdd,
                   objectsToRemove, todo, byObject, modified, changed, readerVars,
                   persistenceVars>>

\* Mutant: the scope is closed without markSuccessful().
CommitForgotten(w) ==
    /\ wpc[w] = "returning"
    /\ connected[w]
    /\ contents' = RolledBack
    /\ connected' = [connected EXCEPT ![w] = FALSE]
    /\ UNCHANGED <<versionVars, writeLocked, writeMutex, writerVars, readerVars,
                   database, connection, snapshot, before, past>>

\* RequestScope.close() with outcome COMMIT, when the last version has been published
\* and the readers of the one before are gone.  Closing the connection may still throw.
Commit(w) ==
    /\ wpc[w] = "returning"
    /\ connected[w]
    /\ database' = [p \in Persisted |-> contents[p]]
    /\ past' = past \cup {contents[Store]}
    /\ connected' = [connected EXCEPT ![w] = FALSE]
    /\ \E closeFails \in {FALSE, MayFail} :
          wpc' = [wpc EXCEPT ![w] = IF closeFails THEN "throwing" ELSE @]
    /\ UNCHANGED <<collectionVars, versionVars, writeLocked, writeMutex, objectsToAdd,
                   objectsToRemove, previousVersion, todo, byObject, modified,
                   changed, readerVars, connection, snapshot, before>>

\* The commit throws: the scope rolls back instead, and update() throws without
\* publishing another version.
CommitFails(w) ==
    /\ MayFail
    /\ wpc[w] = "returning"
    /\ connected[w]
    /\ contents' = RolledBack
    /\ connected' = [connected EXCEPT ![w] = FALSE]
    /\ committed' = [committed EXCEPT ![currentVersion] = before[w]]
    /\ TornOnHeap(currentVersion)
    /\ wpc' = [wpc EXCEPT ![w] = "throwing"]
    /\ UNCHANGED <<currentVersion, objectsToExclude, lazyExclude, writeLocked, writeMutex,
                   objectsToAdd, objectsToRemove, previousVersion, todo, byObject,
                   modified, changed, readerVars, database, connection, snapshot, before, past>>

PReturn(w) ==
    /\ ~connected[w]
    /\ Return(w)
    /\ before' = [before EXCEPT ![w] = {}]
    /\ UNCHANGED <<database, connected, connection, snapshot, past>>

-----------------------------------------------------------------------------
(* Readers                                                                 *)

\* The steps of retrieve() that precede the first access to the database, and the
\* exclusion of what was fetched.
PReaderStep(r) ==
    /\ \/ TryReadLock(r) \/ Filter(r)
       \/ \E p \in Place : Retrieve(r, p)
    /\ UNCHANGED persistenceVars

PReadCurrentVersion(r) ==
    /\ ReadCurrentVersion(r)
    /\ UNCHANGED persistenceVars

\* The first access to the database asks the persistence for a connection, ...
GetConnection(r) ==
    /\ rpc[r] = "iterating"
    /\ place[r] \in Persisted
    /\ connection[r] = "none"
    /\ connection' = [connection EXCEPT ![r] = "opening"]
    /\ UNCHANGED <<vars, database, connected, snapshot, before, past>>

\* ... which waits for the ReadWriteLock if there is one, and begins to read what is
\* committed by then.
OpenReadConnection(r) ==
    /\ connection[r] = "opening"
    /\ Locking => \A w \in Writer : ~connected[w]
    /\ connection' = [connection EXCEPT ![r] = "open"]
    /\ snapshot' = [snapshot EXCEPT ![r] = database[place[r]]]
    /\ UNCHANGED <<vars, database, connected, before, past>>

\* The cursor comes by the row of o, if there is one in the snapshot.
FetchRow(r, o) ==
    /\ connection[r] = "open"
    /\ rpc[r] = "iterating"
    /\ o \in unvisited[r]
    /\ unvisited' = [unvisited EXCEPT ![r] = @ \ {o}]
    /\ IF o \in snapshot[r]
       THEN /\ fetched' = [fetched EXCEPT ![r] = o]
            /\ rpc' = [rpc EXCEPT ![r] = "filtering"]
       ELSE UNCHANGED <<fetched, rpc>>
    /\ UNCHANGED <<collectionVars, versionVars, writeLocked, writeMutex, writerVars,
                   thisVersion, place, filtering, result, persistenceVars>>

\* An index on the heap is iterated as ever.
FetchOnHeap(r, o) ==
    /\ place[r] \notin Persisted
    /\ Fetch(r, o)
    /\ UNCHANGED persistenceVars

\* Mutant: the version is unlocked only at the end of the iteration.
PCloseWhenExhausted(r) ==
    /\ connection[r] # "opening"
    /\ CloseWhenExhausted(r)
    /\ connection' = [connection EXCEPT ![r] = "none"]
    /\ snapshot' = [snapshot EXCEPT ![r] = {}]
    /\ UNCHANGED <<database, connected, before, past>>

\* ResultSet.close() closes the connection and unlocks the version; a thread that is
\* waiting for its connection cannot call it.
PClose(r) ==
    /\ connection[r] # "opening"
    /\ Close(r)
    /\ connection' = [connection EXCEPT ![r] = "none"]
    /\ snapshot' = [snapshot EXCEPT ![r] = {}]
    /\ UNCHANGED <<database, connected, before, past>>

-----------------------------------------------------------------------------
PCall(w) ==
    \E rem, add \in SUBSET Object : \E iterables \in SUBSET Ordered(rem, add) :
        PUpdate(w, rem, add, iterables)

PWriterStep(w) ==
    \/ PUpdateReturnsEarly(w) \/ PVersionStep(w)
    \/ \E p \in Place, o \in Object : PChangeOne(w, p, o)
    \/ RollBack(w) \/ PRestoreEmptyVersionAfterFailure(w)
    \/ Commit(w) \/ PReturn(w)

PNext ==
    \/ \E w \in Writer :
          \/ PCall(w) \/ OpenWriteConnection(w) \/ PWriterStep(w)
          \/ StrictReplacementFails(w) \/ PFail(w) \/ CommitFails(w)
    \/ \E r \in Reader :
          \/ PReadCurrentVersion(r) \/ PReaderStep(r) \/ GetConnection(r)
          \/ OpenReadConnection(r) \/ PClose(r)
          \/ \E o \in Object : FetchRow(r, o) \/ FetchOnHeap(r, o)

PSpec == PInit /\ [][PNext]_pvars

\* As in FairSpec.  The ReadWriteLock is fair, so that a thread that keeps waiting
\* for it gets it if it keeps being released.
PFairSpec ==
    /\ PSpec
    /\ \A w \in Writer : WF_pvars(PWriterStep(w)) /\ SF_pvars(OpenWriteConnection(w))
    /\ \A r \in Reader : SF_pvars(OpenReadConnection(r)) /\ WF_pvars(PClose(r))

-----------------------------------------------------------------------------
(* What persistence adds to the promises                                   *)

\* What the tables are to hold when w's transaction is committed.
After(w) == (before[w] \ objectsToRemove[w]) \cup objectsToAdd[w]

\* STRICT_REPLACEMENT finds an object to be removed missing.
TurnedDown(w) == ~(objectsToRemove[w] \subseteq before[w])

\* "Each collection operation ... is committed only after its object-store and index
\* work completes normally.  An exception rolls the persistence request back":
\* wherever update() fails, once its request scope is closed the tables hold the
\* collection from before or the whole transaction, all of them the same; and if it
\* returns, the whole transaction (unless it was turned down or had nothing to do).
AllOrNothing ==
    \A w \in Writer :
        (wpc[w] \in {"returning", "throwing"} /\ ~connected[w]) =>
            /\ \A p \in Persisted : contents[p] = database[p]
            /\ \/ \A p \in Persisted : database[p] = After(w)
               \/ /\ \A p \in Persisted : database[p] = before[w]
                  /\ wpc[w] = "throwing" \/ TurnedDown(w)

\* The last version is published, but the database is not committed yet.
AwaitingCommit(w) ==
    wpc[w] = "drainEmpty" \/ (wpc[w] = "returning" /\ connected[w])

\* The collection between two transactions, or after the one under way, from when its
\* removals are hidden or its additions no longer are.
Whole(S) ==
    \/ S \in past
    \/ \E w \in Writer :
          \/ wpc[w] \in {"drainRemove", "removing"} /\ S = After(w)
          \/ AwaitingCommit(w) /\ S = contents[Store]

\* Version v hides the removals of an update() that has failed, and S is without them.
Undone(v, S) ==
    \E w \in Writer :
        /\ \/ wpc[w] = "failed" /\ v = currentVersion
           \/ wpc[w] = "drainRestore" /\ v = previousVersion[w]
        /\ objectsToExclude[v] = objectsToRemove[w]
        /\ S = After(w)

Accounted(v, S) == Whole(S) \/ Undone(v, S)

\* An iteration that has come to its end; only an index on the heap is not restored by
\* the rollback of a failed update().
ReadToTheEnd(r) ==
    /\ rpc[r] = "iterating" /\ unvisited[r] = {}
    /\ place[r] \in Persisted \/ thisVersion[r] \notin torn

\* "Reading threads are guaranteed to see a consistent version of the collection
\* where transactions have been applied in their entirety": a complete iteration
\* returns the collection as it was between two transactions, or as the transaction
\* under way leaves it.  It makes no difference that the version and the state of the
\* database are chosen at different times, or that the last version is published
\* before the commit.
PReadsWholeTransactions == \A r \in Reader : ReadToTheEnd(r) => Whole(result[r])

\* What is left of this where update() may fail: a complete iteration returns no part
\* of a failed update() but its removals, all of them, and only under the version that
\* hides them; restoreEmptyVersionAfterFailure waits for such readers.  Additions that
\* are rolled back, and removals that cannot be committed, are never seen.
PReadsWholeOrUndone ==
    \A r \in Reader : ReadToTheEnd(r) => Accounted(thisVersion[r], result[r])

\* incrementVersion blocks "until all threads reading the previous version have
\* finished": no writer waits for a reader that waits for this writer's connection
\* to be closed.
NoCircularWait ==
    \A w \in Writer, r \in Reader :
        ~ /\ wpc[w] \in Draining /\ HoldsReadLock(r, previousVersion[w])
          /\ connection[r] = "opening" /\ Locking /\ connected[w]

-----------------------------------------------------------------------------
(* Why a transaction is all or nothing: the first inductive invariant.      *)

\* The request of w has not ended yet.
Uncommitted(w) ==
    \/ wpc[w] \in {"entered", "drainAdd", "adding", "drainRemove", "removing",
                   "drainEmpty", "failed", "drainRestore"}
    \/ wpc[w] = "returning" /\ connected[w]

\* A request has its connection from its first access to the database, before
\* anything is changed there, until it ends.
RequestInv ==
    \A w \in Writer :
        /\ objectsToAdd[w] \cap objectsToRemove[w] = {}
        /\ connected[w] => Uncommitted(w) /\ wpc[w] # "drainRestore"
        /\ wpc[w] = "drainAdd" => objectsToAdd[w] # {}
        /\ wpc[w] = "adding" =>
              objectsToAdd[w] # {} /\ (connected[w] \/ todo[w][Store] = objectsToAdd[w])
        /\ wpc[w] = "drainRemove" =>
              objectsToRemove[w] # {} /\ (connected[w] \/ objectsToAdd[w] = {})
        /\ wpc[w] = "removing" =>
              /\ objectsToRemove[w] # {}
              /\ \/ connected[w]
                 \/ todo[w][Store] = objectsToRemove[w] /\ objectsToAdd[w] = {}
        /\ wpc[w] = "drainEmpty" => connected[w]

\* What is committed, when and by whom.
DatabaseInv ==
    /\ \A p \in Persisted : database[p] = database[Store]
    /\ (\A w \in Writer : ~connected[w]) => \A p \in Persisted : contents[p] = database[p]
    /\ \A w \in Writer :
          /\ Uncommitted(w) => database[Store] = before[w]
          /\ wpc[w] = "returning" /\ ~connected[w] =>
                \/ database[Store] = After(w)
                \/ database[Store] = before[w] /\ TurnedDown(w)
          /\ wpc[w] = "throwing" => database[Store] \in {before[w], After(w)}

\* How far the open transaction has come in each table.
TableInv ==
    \A w \in Writer, p \in Persisted :
        /\ wpc[w] \in {"entered", "drainAdd"} => contents[p] = before[w]
        /\ wpc[w] = "adding" =>
              /\ todo[w][p] \subseteq objectsToAdd[w]
              /\ contents[p] = before[w] \cup (objectsToAdd[w] \ todo[w][p])
        /\ wpc[w] = "drainRemove" => contents[p] = before[w] \cup objectsToAdd[w]
        /\ wpc[w] = "removing" =>
              /\ todo[w][p] \subseteq objectsToRemove[w]
              /\ contents[p] = (before[w] \cup objectsToAdd[w])
                                 \ (objectsToRemove[w] \ todo[w][p])
        /\ wpc[w] = "drainEmpty" => contents[p] = After(w)
        /\ wpc[w] = "returning" /\ connected[w] =>
              /\ contents[p] = contents[Store]
              /\ \/ contents[p] = After(w)
                 \/ contents[p] = before[w] /\ TurnedDown(w)

\* Only an iteration over a table has a connection.
ConnectionInv ==
    \A r \in Reader :
        connection[r] # "none" => rpc[r] \in {"iterating", "filtering"} /\ place[r] \in Persisted

TransactionInv ==
    /\ PTypeOK /\ ConnectionInv /\ MutexInv /\ LockInv /\ ExclusionInv
    /\ RequestInv /\ DatabaseInv /\ TableInv

-----------------------------------------------------------------------------
(* Why readers see whole transactions: the second, for transactions that   *)
(* do not both remove and add, nor add what is there already.              *)

\* What a transaction adds is not there before it; then each place on the heap is
\* where the algorithm wants it.
HeapInv ==
    \A w \in Writer :
        /\ objectsToAdd[w] = {} \/ objectsToRemove[w] = {}
        /\ Uncommitted(w) => objectsToAdd[w] \cap before[w] = {}
        /\ currentVersion \notin torn =>
              \A p \in Place \ Persisted :
                  /\ wpc[w] \in {"entered", "drainAdd"} =>
                        objectsToAdd[w] \cap contents[p] = {}
                  /\ wpc[w] = "adding" =>
                        /\ todo[w][p] \subseteq objectsToAdd[w]
                        /\ objectsToAdd[w] \subseteq todo[w][p] \cup contents[p]
                  /\ wpc[w] = "removing" =>
                        /\ todo[w][p] \subseteq objectsToRemove[w]
                        /\ objectsToRemove[w] \cap contents[p] \subseteq todo[w][p]

\* A version that can be read stands for what it leaves of the committed tables; only
\* the last one is ahead of the database until the commit.
SnapshotInv ==
    /\ \A v \in 1 .. currentVersion :
          v \notin writeLocked =>
              /\ \/ database[Store] \ objectsToExclude[v] = committed[v]
                 \/ v = currentVersion /\ \E w \in Writer : AwaitingCommit(w)
              /\ v \notin torn =>
                    \A p \in Place \ Persisted : contents[p] \ objectsToExclude[v] = committed[v]
    /\ \A w \in Writer : AwaitingCommit(w) => committed[currentVersion] = contents[Store]

\* A reader's locals and its connection.
PReaderInv ==
    \A r \in Reader :
        /\ thisVersion[r] <= currentVersion
        /\ rpc[r] \in Reading => thisVersion[r] \notin writeLocked
        /\ rpc[r] \notin {"iterating", "filtering"} => result[r] = {}
        /\ rpc[r] = "filtering" <=> fetched[r] # NoObject
        /\ fetched[r] \notin unvisited[r] \cup result[r]
        /\ result[r] \cap unvisited[r] = {}
        /\ rpc[r] \in {"iterating", "filtering"} =>
              (filtering[r] <=> objectsToExclude[thisVersion[r]] # {})
        /\ rpc[r] \in {"iterating", "filtering"} /\ place[r] \in Persisted
              /\ connection[r] # "open" =>
                  rpc[r] = "iterating" /\ unvisited[r] = Object /\ result[r] = {}

\* The iteration has begun, and is not spoilt by a failed mutation.
Sound(r) ==
    /\ rpc[r] \in {"iterating", "filtering"}
    /\ connection[r] = "open" \/ (place[r] \notin Persisted /\ thisVersion[r] \notin torn)

\* What the iteration is to return.
Seen(r) ==
    IF place[r] \in Persisted
    THEN snapshot[r] \ objectsToExclude[thisVersion[r]]
    ELSE committed[thisVersion[r]]

\* A sound iteration returns what it is to return.  A reader of the last version of a
\* transaction that is not committed yet sees the collection before it.
ViewInv ==
    \A r \in Reader :
        Sound(r) =>
            /\ rpc[r] = "filtering" =>
                  fetched[r] \in Seen(r) \cup objectsToExclude[thisVersion[r]]
            /\ \A o \in Object \ (unvisited[r] \cup {fetched[r]}) :
                  o \in result[r] <=> o \in Seen(r)
            /\ \A w \in Writer :
                  (/\ AwaitingCommit(w) /\ committed[currentVersion] # before[w]
                   /\ connection[r] = "open" /\ thisVersion[r] = currentVersion)
                  => snapshot[r] = before[w]

ReadingInv == TransactionInv /\ HeapInv /\ SnapshotInv /\ PReaderInv /\ ViewInv

\* What is committed, what a version that can be read leaves of it, and what sound
\* iterations return have been collections, or are those of failed removals.
HistoryInv ==
    /\ database[Store] \in past
    /\ \A v \in 1 .. currentVersion :
          v \notin writeLocked => Accounted(v, database[Store] \ objectsToExclude[v])
    /\ \A r \in Reader : Sound(r) => Accounted(thisVersion[r], Seen(r))

PIndInv == ReadingInv /\ HistoryInv
=============================================================================
