# A TLA+ verification of CQEngine

CQEngine is a Java library for indexed in-memory (and off-heap, and on-disk)
collections that are queried with query objects. All paths below are relative to
`src/src/main/java/com/googlecode/cqengine/` of the repository unless they begin
with `documentation/`.

## 1. The system

| Component | State | Operations | Talks to |
|---|---|---|---|
| `ConcurrentIndexedCollection` | object store | `add`, `remove`, `addAll`, `removeAll`, `update`, `retainAll`, `clear`, `retrieve`, `iterator`, `addIndex` | store first, then the query engine; no locks of its own |
| `ObjectLockingIndexedCollection` | striped locks | the same, `add`/`remove` under the object's stripe | superclass |
| `TransactionalIndexedCollection` | current `Version` (read-write lock, `objectsToExclude`), `writeMutex` | `update` and what calls it, `retainAll`, `clear`, `retrieve` | superclass for the changes; readers through the version lock and a filter |
| `engine/CollectionQueryEngine` | registries of attribute, compound, standing query and unique indexes, fallback index, immutable flags | `addIndex`, `removeIndex`, `addAll`, `removeAll`, `clear`, `retrieve` | all indexes, one after the other, the fallback index last |
| map-based indexes (`HashIndex`, `NavigableIndex`) | concurrent map of concurrent sets | `addAll`, `removeAll`, `clear`, `retrieve` | - |
| unique, compound, standing query, partial, radix and suffix tree indexes | maps, sets, concurrent trees | the same | - |
| SQLite indexes, `SQLiteObjectStore` | tables | the same, in the SQLite transaction of the request | request scope's connections |
| `RequestScopeConnectionManager`, `CloseableRequestResources` | one connection per persistence for a request, restoration of pragmas, resources to close | `getConnection`, `commit`, `rollback`, `close` | persistences |
| `persistence/*` | read-write lock (off-heap), connection pool, SQLite database | `getConnection`, `openRequestScopeResources`, `close…` | SQLite |
| `resultset/*` | lazy iterators over the above | union, intersection, difference, filtering, ordering, closing | indexes, request scope |
| `query/*`, `attribute/*` | none | `matches`, `getValues` | - |
| parsers, code generation, serialization, metadata | none | - | - |

What is hard about it:

* **Concurrency without locks.** A mutator changes the store and then each index,
  and an index is a map of sets that are created and dropped on demand. Readers
  and other writers run in between every two of these operations.
* **Isolation.** `TransactionalIndexedCollection` turns that into READ_COMMITTED
  by publishing a version that tells readers what to filter out, before each
  batch of changes, and by waiting for the readers of the version before.
* **Failure.** An index may throw (an out-of-memory condition, a violated unique
  constraint, an I/O error of SQLite) when the store and other indexes have been
  changed already.
* **Laziness.** A `ResultSet` is evaluated when it is iterated: `retainAll()`
  even publishes one as the exclusion of a version.
* **Waiting.** Writers wait for readers, off-heap readers wait for writers; every
  wait has to end.
* **Query planning.** The answer must not depend on the indexes, the merge
  strategy, deduplication or how the ordering is done.

What makes the parts correct: a collection at rest whose store and indexes agree;
readers that see transactions in their entirety; mutators that return and tell
truthfully whether they changed anything; nothing hidden or locked for ever; and
query answers that are those of the query's meaning. The `hazards` of
`PROJECT.json` list, line by line, where these are at stake and which property
watches each of them.

## 2. The plan

| Order | Module | Models | Status |
|---|---|---|---|
| 1 | `TransactionalIndexedCollection` | versions, writers and readers of an on-heap transactional collection | done |
| 2 | `ReadCommittedCollection` | abstract specification of 1 | done; the refinement is model-checked and proved |
| 3 | `TransactionalIndexedCollectionProofs`, `TransactionalIndexedCollectionMutatorProofs`, `TransactionalIndexedCollectionRefinement` | inductive invariants and the safety properties of 1, for `update()` and for every mutator; that 1 implements 2 | done |
| 4 | `ConcurrentIndexedCollection` | the mutators of the two non-transactional collections over a map-based index, at the granularity of `java.util.concurrent` | done |
| 5 | `SimpleQueries`, `AttributeOrders`, `Quantizers`, `Queries`, `ResultSets`, `Indexes`, `QueryEngine` | `retrieveRecursive`, choice of indexes, merging, deduplication, index ordering, as operators against the meaning of a query | done |
| 6 | `PersistentTransactionalCollection` | 1 over a SQLite database: connections, off-heap read-write lock, disk snapshots, commit after publication | done; `retainAll()` over SQLite is left |
| 7 | `RequestScope` | requests and iterators over several databases: opening, commit, rollback, failures, `SQLITE_BUSY`, crashes | done; the pragmas of bulk imports are left |
| 8 | index registry | `addIndex` racing with `add` (in 4), SQLite indexes (in 5) | partly; `removeIndex`, immutable indexes and failing `init` are left |
| 9 | `ConcurrentIndexedCollectionProofs`, `PersistentTransactionalCollectionProofs`, `RequestScopeProofs` | inductive invariants and the safety properties of 4, 6 and 7 | done |
| 10 | `QuantizersProofs`, `AttributeOrdersProofs` | ranges of quantized keys, the comparator of results and index ordering, for all values of the constants | done |
| 11 | what is left | `removeIndex`, failing `init` and immutable indexes; `retainAll()` and bulk imports over SQLite | open |

Module 4 refines what module 1 takes as a step: in 1, adding one object to one
place is atomic, because `writeMutex` leaves one writer and readers of one
index see an object's entry appear or disappear at one moment; 4 looks inside.

Module 6 extends 1 and composes it with a database: off-heap, the lock of a
persistence is held by a request that then waits for the write lock of a version; on
disk, a version is published before SQLite commits what it stands for. Module 7 takes
the request apart that 6 has as one connection to one database.

## 3. The modules and the code

### `TransactionalIndexedCollection`

Models `TransactionalIndexedCollection.java` over the on-heap superclass.

* `contents` maps each *place*, the store and every index, to the objects it
  holds. `currentVersion`, `objectsToExclude` and `lazyExclude` are the current
  `Version` and the exclusions of all versions there have been; `lazyExclude`
  holds the versions whose exclusion is `retainAll()`'s lazy `ResultSet`.
  `writeLocked` holds the versions whose write lock has been taken, which is
  never released; read locks follow from the readers' positions
  (`HoldsReadLock`). `writeMutex` is the monitor of that name.
* The other variables are locals of the threads, and three pieces of history:
  `committed` (what each version stands for), `torn` (versions published after a
  mutation failed half-way, of which nothing is promised but that nothing stays
  hidden), `changed`.

| Action | Code |
|---|---|
| `Update`, `UpdateReturnsEarly` | entering `update()`, rejecting a request that is empty or, under `STRICT_REPLACEMENT`, whose objects to remove are not all there |
| `BeginAdd`, `BeginRemove`, `BeginEmpty` | the calls of `incrementVersion()` around `doAddAll` and `doRemoveAll`: up to the publication |
| `Drain` | the rest of `incrementVersion()`: the write lock of the previous version is taken when its readers have gone |
| `ChangeOne` | one object is added to or removed from one place by `doAddAll`/`doRemoveAll`; the store comes first, then the indexes, in either of the orders the code uses for collections and for other iterables |
| `RetainAll` | `retainAll()` and `clear()` |
| `Fail`, `RestoreEmptyVersionAfterFailure` | an exception out of a change, and the handler of it |
| `Return` | leaving `writeMutex`, by a value or by the exception |
| `ReadCurrentVersion`, `TryReadLock` | the retry loop of `acquireReadLockForCurrentVersion()`: the version is read, `tryLock` may fail |
| `Retrieve` | the query is answered from one place, chosen by the engine; filtering is decided on here |
| `Fetch`, `Filter` | the weakly consistent iterator takes the next object; `isValid()` is evaluated later, when the writer may have moved on |
| `Close` | closing the `ResultSet`, at any point, releases the read lock |

Adding one object to one place is atomic here: `writeMutex` leaves one writer, and
for a reader of one index an entry appears or disappears at one moment.

`ReadCommitted` and `ReadsWholeTransactions` say that an iteration returns one version
of the collection; `retainAll()`, `clear()` and updates that add what is there already do
not keep that (section 7). `ReadsBounded` is what they do keep: an iteration under version
v misses nothing of the collection that v stands for but what v excludes, and returns
nothing that is neither in that collection nor being removed by the running `retainAll()`
(`Possible`). `ViewsStable` is why readers may iterate without a lock on the data: as long
as a reader has the read lock of a version, no step changes what that version shows of
any place, also if the version was published by a failure. What a version shows is what
its exclusion, evaluated at that moment, leaves (`Shown`). The one exception is an index
under a `retainAll()`: its lazy exclusion asks the store, so that an object that has left
the store is shown again until it has left the index (`MVCC_retainAll`).

### `ReadCommittedCollection`

What the documentation promises, without versions or places. A transaction is
requested, takes effect in one step (`Commit`) or is turned down (`Reject`), and
returns; a query takes a `Snapshot`, is opened, delivers exactly what is in it and
is closed. `RC` in `TransactionalIndexedCollection` is the refinement mapping, made of
`Visible`, `Phase`, `Opening`, `View` and `Pending`. The collection is what is
`Visible`, the store less what the current version excludes, so that a transaction
commits at the publication that stops hiding its additions and starts hiding its
removals. A query takes its snapshot when it reads `currentVersion`, and another one
when `tryLock` fails; from then on (`Opening`) its `View` is what its version stands for,
and it is still to deliver (`Pending`) the part of it that its iterator has not come by.

### `ConcurrentIndexedCollection`

Models the mutators of `ConcurrentIndexedCollection.java` and
`ObjectLockingIndexedCollection.java` and, inside them,
`index/support/AbstractMapBasedAttributeIndex.java`, one operation on a concurrent
data structure at a time. `indexMap` refers to sets by identity (`ValueSet`), so
that a set may be held by a thread after the map has dropped it.

| Action | Code |
|---|---|
| `LockingCall`, `Lock` | `add()` and `remove()` of the locking collection; `lock()` of the object's stripe |
| `PlainCall`, `RetainAllRound`, `ClearCall` | calls that take no lock: all of the plain collection, and `update()`, `retainAll()` (object by object) and `clear()` of both |
| `StoreStep` | the object store |
| `Lookup`, `PutIfAbsent`, `ApplyAdd` | `addAll()` of the index: `get`, `putIfAbsent` when there is none, `add` to the set |
| `Lookup`, `ApplyRemove`, `IsEmpty`, `Drop` | `removeAll()` of the index: `get`, `remove` from the set, `isEmpty`, `remove` of the key |
| `AddIndex`, `InitVisit`, `InitNext` | `addIndex()`: the index is registered, then filled by `init()` from a weakly consistent iterator over the store |
| `ForEachIndexDo` | a mutator looks up the indexes after it has changed the store; it may or may not find the new one |
| `ClearKey`, `ClearFallback` | `clear()` of the map, key by key, and then the fallback index, which clears the store once more |
| `Return` | end of the call, `unlock()` |

The constant `Overlap` says which calls the application runs concurrently; it
stands for what the class documentation asks of applications and is what the two
runs differ in. `addIndex()` may overlap with `add()` only: an object removed while
the index is being filled may stay in it (the iterator has passed it on, the removal
does not find it in the index yet).

### The query engine

* `SimpleQueries`: the attributes and their values, queries on one attribute as records,
  `SimpleQueryMatches` (their `matches()` methods).
* `AttributeOrders`: the comparator of `orderBy` (`compareByOrders`, and with ties broken
  `Precedes`), and what index ordering relies on: by which orders buckets are still to be
  sorted, and on which side the objects without a value are put.
* `Quantizers`: `getQuantizedValue`, the range of keys that a range query reads
  (`InRange`), which of these buckets are filtered (`BucketsToFilter`).
* `Queries`: logical and comparative queries, `Matches`, `GetMatches` (`max`, `min`).
  `Meaning` is the reference: what a query denotes, without any of the engine.
* `ResultSets`: a lazy result set is a record of what its methods give: `items`
  (the iteration, a sequence), `contains`, what `matches()` asks (`query`, or the
  contents when `byContents`), `size`, and the retrieval and merge costs that the
  engine chooses by. One operator for each class of `resultset/`.
* `Indexes`: what `HashIndex`, `NavigableIndex`, `UniqueIndex`, `CompoundIndex`,
  `StandingQueryIndex`, their partial and quantized variants, `SQLiteIndex` (whose
  table has a row for every value of an object) and `FallbackIndex` support and
  answer.
* `QueryEngine`: `engine/CollectionQueryEngine.java`. The variables are the
  collection, the registry of indexes in the order of registration, the request and
  its result. `AddAll`, `RemoveAll`, `AddIndex`, `RemoveIndex`, `Retrieve` and
  `Close` are the actions; `retrieveRecursive`, `retrieveAnd`, `retrieveOr`,
  `retrieveNot`, `retrieveWithIndexOrdering` and their helpers keep their names. A
  retrieval is one step: what runs concurrently is the subject of the other modules.

### `PersistentTransactionalCollection`

Extends `TransactionalIndexedCollection` with one SQLite database that holds the store
and some of the indexes (`Persisted`). `database` is what has been committed;
`contents` of a place in the database is what the open write transaction sees.
`connected` and `connection` tell who has a connection, `snapshot` is what a reader's
transaction sees, `before` remembers the collection when `update()` was called, and
`past` the collections that there have been between transactions. The constant `Locking` is the read-write lock of off-heap persistence (and of disk
persistence with a shared cache), `Replacing` allows an `update()` both to add and to
remove.

| Action | Code |
|---|---|
| `PUpdate`, `PUpdateReturnsEarly`, `PVersionStep`, `PFail` | the steps of `update()` that leave connections alone |
| `OpenWriteConnection` | the first access of a writer to the database: the write lock if there is one, `BEGIN IMMEDIATE` |
| `StrictReplacementFails` | that access fails before a version has been published |
| `PChangeOne` | a change of one object in one place, through the connection if it is a table |
| `RollBack`, `PRestoreEmptyVersionAfterFailure` | try-with-resources closes the scope, with a rollback, before the handler publishes the empty version |
| `Commit`, `CommitFails` | closing the scope after `markSuccessful()`; the commit, or closing the connection after it, may throw |
| `GetConnection`, `OpenReadConnection` | the first access of a reader, which already holds the read lock of its version |
| `FetchRow`, `FetchOnHeap` | a cursor over the snapshot, or an index on the heap |
| `PClose` | closing the `ResultSet` closes the connection and unlocks the version |

### `RequestScope`

Models the requests into a `ConcurrentIndexedCollection` over one or more SQLite
databases: `RequestScope` in `ConcurrentIndexedCollection.java`,
`index/sqlite/RequestScopeConnectionManager.java`, the connections of the persistences,
`iterator()`. SQLite itself is external and modelled by what requests can tell:
snapshots, one writer per database, `SQLITE_BUSY` for a second writer and for a
connection that wants to write on a stale snapshot.

| Action | Code |
|---|---|
| `Read`, `Write`, `OpenIterator`, `IteratorRemove` | the calls; an iterator has neither the read nor the write flag, takes the write lock and begins a deferred transaction |
| `OpenConnection`, `OpenConnectionFails` | `openConnection()`: lock, `BEGIN`; when that fails the connection is closed there |
| `ReadTable`, `ChangeTable`, `ChangeTableFails` | access to the store or an index; the store is changed first and read last |
| `RequestFails` | any exception out of these |
| `RequestSucceeds`, `CloseIterator` | `markSuccessful()` and `close()`, or, after `Iterator.remove()`, `commitOpenTransactions()` |
| `CommitNext`, `CommitFails`, `RollBackNext` | one round of the loops of `close()` and `commitOpenTransactions()` |
| `RemoveReturns`, `Return` | the call returns or throws |
| `Restart` | crash and restart: what is not committed is gone, databases in memory are filled from the store by `init()`, existing tables are left as they are |

`landed`, `confirmed` and `partial` are history: what the call has committed, which
removals of an iterator have been committed everywhere and not been undone by an addition
since, whether a commit has ever failed after an earlier one.

Operators whose comment begins with "Mutant:" are plausible mistakes, named by the
`mutants` of `PROJECT.json`; no specification uses them.

## 4. The runs

| Run | Instance | States | Shows |
|---|---|---|---|
| `MVCC_safety` | 2 objects, 2 indexes, 1 reader, 2 writers, 7 versions, `update()` without re-adding, failures | 419,000 | `update()` gives READ_COMMITTED isolation (`ReadCommitted`); the inductive invariant of its proof and of the refinement holds (`IndInv`) |
| `MVCC_mutators` | 2 objects, 1 index, 1 reader, 1 writer, 6 versions, all mutators, re-adding, failures | 729,000 | what every mutator guarantees to readers (`ReadsBounded`, and `ViewsStable` with its exception for `retainAll()`), that readers find the current version unlocked (`CurrentVersionUncontended`), that at rest the places agree (`QuiescentCollection`) and nothing is hidden (`NothingHiddenWhenIdle`), that return values are truthful (`ReturnValueTruthful`), and that every mutator returns (`WriterReturns`); the inductive invariant of the proofs holds (`MutatorInv`) |
| `MVCC_refinement` | 2 objects, 1 index, 2 readers, 1 writer, 7 versions | 836,000 | `update()` implements `ReadCommittedCollection` |
| `MVCC_retainAll` | 2 objects, 1 index, 1 reader, 1 writer, 4 versions | violation | see section 7 |
| `CIC_indexes` | 3 objects (two share a value, and a stripe), 2 threads, 4 value sets, all mutators and `addIndex`, locking, `Overlap = "values"` | 440,000 | the index, once registered and filled, agrees with the store about every object at rest (`SettledObjectsIndexed`), and no empty set stays in the map (`NoEmptyValueSets`); `IndInv` holds |
| `CIC_differentObjects` | the same, `add`/`remove`, no locking, `Overlap = "objects"` | violation | see section 7 |
| `QE_retrieve` | 4 objects; a simple, a nullable and a multi-valued attribute; any two of 14 indexes in either order; simple, logical and comparative queries under 6 sets of options | 138,000 | the answer is the query's meaning (`Answers`), `contains()` agrees (`ContainsAgrees`), no duplicates when asked (`NoDuplicates`), the order asked for (`Ordered`) |
| `QE_quantizedRange` | one index, a few requests | violation | see section 7 |
| `PT_disk` | 2 objects, the store on disk, 1 index on the heap, 1 reader, 1 writer, 6 versions, failures, `update()` adds or removes | 378,000 | the tables hold all of a transaction or nothing of it (`AllOrNothing`), readers see whole transactions and of failed ones at most the removals (`PReadsWholeOrUndone`), nothing stays hidden (`NothingHiddenWhenIdle`), writers return (`WriterReturns`); `PIndInv` holds |
| `PT_diskReplace` | the same with the index on disk, no failures, `update()` adds and removes | violation | see section 7 |
| `PT_offHeap` | the same, off-heap, `update()` adds or removes | violation | see section 7 |
| `RS_requests` | 2 objects, 2 threads, 3 tables in 2 databases (disk; in memory with a lock), failures, crashes | 572,000 | store and indexes of one database agree in what is committed (`TablesOfADatabaseAgree`), both databases between commits (`DatabasesAgreeBetweenCommits`), commits are a prefix of the order of opening (`CommittedInOrder`), removals of an iterator last (`RemovalsLast`), no transaction outlives its request (`NothingLeftOpen`); `IndInv` holds; no deadlock |

**Why the bounds are enough to be interesting.** An `update()` that adds and removes
takes three versions, so 7 versions (one to start from) leave room for two of them
in a row, by the same or by different writers: the second meets readers of the
first, a version left by a failure, or an early return. A call is only taken when
the versions it may need are left: `MaxVersion` cuts off further calls and never
stops one half-way. `retainAll()` takes two versions, so that in `MVCC_mutators` 6 versions
let it follow an `update()` that adds and removes, or precede one. Two objects are the fewest of which a transaction can be seen
in part; two indexes let a third place be behind the second. Three objects with
values v1, v1, v2 give threads that share an object, a value only, a stripe, or
nothing; four value sets are as many as two threads and two values can hold at
once. In `QE_retrieve` the values lie on both sides of zero and of the quantum's
multiples, and two of the indexes suffice for any choice the engine makes between
candidates of different cost. In `PT_disk` the 6 versions allow two calls in a row
that add or remove, so that a reader can meet the snapshot of one and the version of
the other; the index on the heap next to the store on disk is the mixed case of what a
rollback restores. The same properties were also checked with a second table
(`Index = {i1, i2}`, `Persisted = {store, i1}`, 814,000 states), which takes too long
for regular use. In `RS_requests` the store shares a database with one index and not
with the other, and two threads are enough for a writer to commit under an open
iterator; nothing bounds the number of calls.

The inductive invariants were also checked on instances that are too slow, or too close
to the ones above, to be kept as runs: `MVCC_mutators` with a second writer (1,410,000
states); `ConcurrentIndexedCollection` with three threads
and an object of two attribute values (87,000 states); `TransactionInv` with replacing
and re-adding updates and the index on disk (`MaxVersion = 7`, 251,000 states), `PIndInv`
with two readers and two writers; `RequestScope` with neither locks nor databases in
memory (1,484,000 states). Symmetry is used in runs that check
invariants only.

**Fairness.** `FairSpec` assumes weak fairness of a writer's steps once it has
called (the scheduler runs runnable threads) and of `Close` (applications close
their `ResultSet`s, as the documentation demands). Nobody is obliged to call
anything, readers may come for ever, and there is no fairness of `tryLock`: a
writer's progress rests on new readers no longer choosing the version it waits
for. That fairness of `Close` is weak suffices since it stays enabled as long as
the result set is open. `PFairSpec` is the same with connections; it assumes strong
fairness of getting one, since the read-write lock of a persistence is created fair
(`new ReentrantReadWriteLock(true)`) and `busy_timeout` retries.

All runs check for deadlock; `RS_requests` could run into one, since its threads wait
for the lock of the second database.

## 5. What is proved

Eight modules hold proofs. Their theorems are about any sets of objects, indexes or
tables, threads and any bound on versions, any attributes, values and compression factor; the assumptions on constants are the named
`ASSUME`s of the modules (no constant stands for two things, functions and options have
their types, the store is no index), and TLC evaluates them in the runs. Where a theorem
needs more than that, it says so in its own `ASSUME`, and section 7 shows on a run, or on
a changed configuration, that the result fails without it.

The theorems of invariance have one shape: a lemma per action that its step preserves
the inductive invariant, one that puts them together over `Next`, and the theorem. Steps
that leave most of the state alone rest on frame lemmas.

### `TransactionalIndexedCollectionProofs`

* `TypeCorrect`: type correctness, with all mutators and failures.
* For `UpdateOnly`, that is `Ops = {"update"}` and `ReAdd = FALSE`, failures included:
  `Inductive` (`[]IndInv`) and from it `UpdateIsReadCommitted`.

`ReadCommitted` is far from inductive: whether a reader comes to return an object
depends on what its place will hold when it gets there. The heart of the
strengthening is `VersionInv`: as long as a version can be read-locked, every place
holds the collection it stands for and besides only what it excludes. Changes
preserve it because only two versions are ever unlocked (`LockInv`), because while
places change only the current one is (the previous has been drained), and because
what changes is excluded by it (`ExclusionInv`). To step to the next version one
has to know that all places are done (`ProgressInv`). `ReaderInv` ties a reader's
locals to its version: it filters if and only if the version excludes something,
and what it has fetched and not yet judged is committed or excluded.

Lemmas that several actions rest on: `Publish` (publishing a version that the places
satisfy), `VersionsUnaffected` and `ReadersUnaffected` (frames).

### `TransactionalIndexedCollectionMutatorProofs`

For every mutator, re-adding and failures at any point, with no condition on the
constants: `MutatorsInductive` (`[]MutatorInv`), and from it `EveryReadBounded`
(`ReadsBounded`), `ReadsLockFree` (`CurrentVersionUncontended`), `QuiescentAgreement`
(`QuiescentCollection`), `ExclusionsEnd` (`NothingHiddenWhenIdle`), `ReturnValue`
(`ReturnValueTruthful`) and the action property `LockedViewsStable` (`ViewsStable`).

`VersionInv` of `IndInv` is false here: a lazy exclusion forgets objects that an index
still returns, and one that hides re-added objects hides committed ones. In its place
`ContentsInv` says exactly what each place holds in each phase of the mutator at work
(what the version stands for, and the part of the change that `todo` says is done), and
`HidingInv` what the current version excludes in that phase, so that whatever is still
going to be changed is excluded or, under a lazy exclusion, being removed. `ReadableInv`
draws the conclusion for readers, for every version whose write lock is free: a place
holds at least what the version stands for and does not exclude, and at most that, what
the version excludes, and what `retainAll()` is removing. `IterationInv` carries this
over to the objects a reader has fetched. Versions published after a failure are exempt,
and the invariant has to say that a mutator whose change has failed is always in such a
version when it throws; the attempt to prove the step `Return` showed that this was missing.

`OutcomeInv` is an accounting of `modified`: in each phase, what the store has been
changed by so far and what it is still to be changed by make up what the whole
transaction changes.

`LockedViewsStable` rests on `OnlyChangeOneChanges` (no other step changes a place) and on
what makes the write lock of a version unavailable: while places change, a read lock can
only be held on the current version, whose exclusion names the object that is changed.
A lazy exclusion does not hide it once the store has lost it; for the indexes the
theorem then speaks of all other objects.

### `TransactionalIndexedCollectionRefinement`

* `Refinement`: for `UpdateOnly` and `MayFail = FALSE`,
  `Spec => ImplementsReadCommittedCollection`. A failure is outside what the abstract
  collection promises: it leaves part of a transaction behind.

Initial states map to initial states, and each action maps to one abstract action or to
a stutter: `Update` to `Request`, `UpdateReturnsEarly` to `Reject` (or to the `Commit` of
a request that changes nothing), `BeginRemove` to `Commit` or, if nothing is to be removed,
`BeginEmpty`; a `BeginEmpty` that follows removals, `BeginAdd`, `Drain` and `ChangeOne` are
invisible, since what changes is excluded. Reading the version maps to `Snapshot`, a
successful `TryReadLock` to `Open`, `Filter` to `Deliver` or, if the object is excluded, to
nothing. `IndInv` is what makes each of these a step of the abstract collection.

### `ConcurrentIndexedCollectionProofs`

For `ValuesApart`, that is `Overlap = "values"` and, with object locking, objects of a
common attribute value on one stripe: `Inductive` (`[]IndInv`), and from it
`IndexFollowsStore` (`SettledObjectsIndexed`) and `KeysHaveObjects`
(`NoEmptyValueSets`), for all mutators and `addIndex()`. `CIC_differentObjects` is the
counterexample without that condition.

Store and index disagree while a call is under way. The invariant says that each such
disagreement is accounted for: an entry of the index whose object is not in the store is
one that a removing call has still to take out (`UnindexInv`), an object of the store
that lacks its entry one that an adding call, or the filling of a new index, has still
to put in (`IndexInv`), an empty set of the map one that a call is about to drop
(`EmptyInv`). To apply its change, a call needs the set it has looked up to be still the
map's (`MapInv`), which holds because a call that may drop sets has its attribute values
to itself. That in turn is `OverlapInv` for the calls that take no lock, `LockInv` for
those that share a stripe; the lemmas `Exclusion` and `Alone` combine the two.

### `PersistentTransactionalCollectionProofs`

* For any options, replacing and re-adding updates, locks and failures at any point:
  `TransactionInductive` (`[]TransactionInv`), `TransactionsAreAtomic`
  (`AllOrNothing`), `PExclusionsEnd` (`NothingHiddenWhenIdle`).
* For `OneWay`, that is without re-adding and without updates that both add and remove:
  `PInductive` (`[]PIndInv`) and `ReadersSeeWholeOrUndone` (`PReadsWholeOrUndone`).
  `PT_diskReplace` is the counterexample without it.
* For `OneWay` and `MayFail = FALSE`: `ReadersSeeWholeTransactions`
  (`PReadsWholeTransactions`). With failures it is false (section 7).

`TransactionInv` is about the writer: when it has its connection (`RequestInv`), what
the open transaction has come to in each table (`TableInv`), and who has committed what
(`DatabaseInv`). Atomicity follows, as a commit is only reached when all tables are done
and a rollback goes back to `before`.

`PIndInv` adds the readers. A version that can be read-locked stands for the committed
tables less its exclusion, with the exception of the last version of a transaction,
published before the commit (`SnapshotInv`). A reader of that one takes its snapshot
before or after the commit; `ViewInv` says that what it comes to see is nevertheless the
collection of some version: before the commit, the one before the transaction. This is
where `OneWay` is needed: only then does the empty exclusion leave the old snapshot
whole. `HeapInv` does the same for the indexes on the heap that share the collection
with the tables, `PReaderInv` is about readers' locals. Together they are `ReadingInv`.

`committed[v]` is what version v stands for, and that is decided when v is published,
before the commit: it does not say that there ever was such a collection. The history
variable `past` does; it holds the collections that the commits have left. `HistoryInv`
relates what readers see to it (`Accounted`): the committed tables less the exclusion of a
version that can be read are a collection of `past`, or the one that the transaction under
way leaves (`Whole`), or the one of a failed transaction whose removals the version hides
(`Undone`), and so is what an iteration is to return. The proof has to show that none of
these is lost by a step: a commit puts what the transaction leaves into `past`, a
failure turns it into `Undone` for the readers of the version that hides the removals,
and `restoreEmptyVersionAfterFailure` ends only when these have finished.

### `QuantizersProofs`

* `QuantizationMonotone`: `getQuantizedValue()` keeps the order of integers, although it
  rounds negative values up and others down.
* `RangeAnswered`: for any index, quantized or not, any range query and any set of objects:
  the buckets at the keys in the range, in ascending order, the first and the last filtered
  as `BucketsToFilter` says and the others taken as they are, return the objects that match.

Monotony gives both directions. The key of a matching value is between the keys of the
bounds, and as both ends are read inclusively it is among those read
(`MatchingKeyInRange`). A bucket that is not at the end has another one between itself and
the bound, so that all of its values are strictly inside (`BucketsApart`, `InnerBucket`),
and an object of such a bucket matches by the value that brought it there. What
`QE_quantizedRange` loses is not lost here but in the union of these buckets.

### `AttributeOrdersProofs`

* `ComparatorContract`: for any list of orders, `compareByOrders` is antisymmetric and
  transitive, and objects that compare as equal compare alike with every other object. The
  sort of the Java library throws, or sorts wrongly, if a comparator breaks this.
* `PrecedesIsTotalOrder`: with ties broken it is a strict total order.
* `IndexOrderIsComparatorOrder`: on an attribute with at most one value, x comes before y
  or compares as equal if and only if the index comes by x first (`ReadBefore`: an earlier
  key in the direction of the order, or a missing value on its side), or has both in one
  bucket and the orders left by `determineAdditionalSortOrdersForIndexOrdering` say so.

Lists of values, and lists of orders, are compared by the first difference. That there is
a first one (`FirstOfSet`) comes from the well-foundedness of the naturals; transitivity is
an argument about which of two first differences comes earlier.

### `RequestScopeProofs`

For any tables and databases, with or without locks, failures and crashes: `Inductive`
(`[]IndInv`), `TypeCorrect`, `TablesAgree`, `CompositesAgree`, `CommitsFollowOpening`,
`TransactionsEnd`, `RemovalsAreDurable`: every safety property of `RS_requests`.

The invariant follows who may write: the writer of a database is a request that
has not ended its connection to it (`WriterInv`), it has built on what is committed
(`WriteViewInv`, and `SnapshotInv` for iterators, which begin to write on an older
snapshot), and by the time it commits it is the writer of every database that it has not
committed yet. Therefore at most one thread is between its first and its last commit
(`CommitInv`), and tables of different databases differ by that thread's change and
nothing else (`AgreementInv`). `ConnectionInv` says that commits go through the
connections in order; it is about prefixes and suffixes, hence the lemmas on sequences
at the beginning of the module.

## 6. What is only model-checked

* `WriterReturns`: liveness under fairness is outside what the prover does, and so is
  the freedom from deadlock, a matter of `ENABLED`.
* The query engine as a whole: it is recursive over queries and result sets, its operators
  are declared `RECURSIVE`, which takes the prover its SMT backend, and what they compute
  would need induction over data. `TypeOK`, `Answers`, `ContainsAgrees`, `NoDuplicates` and
  `Ordered` are evaluated on instances. The parts that are not recursive, keys of indexes
  and order of results, are in modules of their own and proved. That the lists of keys and
  of objects which the engine builds with folds and sorts are the ones the theorems speak of
  (`KeysRead`: ascending, all keys in the range) is left to the runs, too.
* The violations of section 7.

## 7. Disagreements between the code and what is said about it

| Run | What happens |
|---|---|
| `MVCC_retainAll` | `retainAll()` and `clear()` are not isolated. The exclusion they publish is a lazy `ResultSet` that forgets an object as soon as the store has lost it, while an index still returns it: a reader sees part of the removal. |
| `CIC_differentObjects` | Adding and removing *different* objects with a common attribute value concurrently can lose the added one from the index for good: its set is dropped from the map between `get` and `add`. The class documentation allows this use. |
| `QE_quantizedRange` | With a quantized `NavigableIndex` on a multi-valued attribute, range queries lose results under logical elimination: the union takes `matches()` of the first bucket for membership, and that bucket evaluates the whole range. |
| `PT_diskReplace` | On disk, an `update()` that replaces objects publishes the version that shows the new ones and hides the old ones before SQLite commits: a reader of that version whose snapshot is older sees neither. With additions or removals alone this cannot happen (`PT_disk`). |
| `PT_offHeap` | Off-heap, a reader takes its version first and its connection second, a writer its connection first and then waits for the readers of the version: they can wait for each other for ever. |

`PROJECT.json` quotes the lines that each of them contradicts. Further disagreements
were found with the same modules; they have no run of their own, to keep the project
small, and come back with the constants given here:

* Re-adding. `update()` hides all it adds while it adds it, also what is in the
  collection already: readers miss a committed object that no transaction removes
  (`TransactionalIndexedCollection.java:258`; `MVCC_retainAll.cfg` with
  `Ops = {"update"}`, `ReAdd = TRUE`).
* Dirty reads of removals. `update()` publishes the version that hides what it removes
  (`TransactionalIndexedCollection.java:267`) before the removals are done or committed. If
  it then fails, the request is rolled back, but a reader of that version has seen the
  collection without them: one that never existed between two transactions, contrary to
  `documentation/TransactionIsolation.md:7` and 9-11 (`PT_disk.cfg` with
  `PReadsWholeTransactions` for `PReadsWholeOrUndone`). Nothing else of a
  failed `update()` is seen, which is what `PReadsWholeOrUndone` says.
* `ObjectLockingIndexedCollection.retainAll()` removes objects without their stripe's
  lock, contrary to its comment on line 306 (`CIC_indexes.cfg` with
  `Calls = {"add", "retainAll"}`, `Overlap = "any"`).
* Index ordering takes a partial index without asking `supportsQuery()`, and loses the
  objects outside its filter (`CollectionQueryEngine.java:556`; `QE_retrieve.cfg` with
  a partial navigable index in the catalogue).
* Two locking databases in a composite: a reader holds the lock of the index's database
  and waits for the store's, a writer the other way round (`RS_requests.cfg` with
  `Locking = {d1, d2}`: TLC reports a deadlock).
* A filter query on a SQLite index of a multi-valued attribute returns an object once
  per matching row under logical elimination too (`SQLiteIndex.java:228`).

`QE_retrieve` leaves the combinations of these findings out, `CIC_indexes` the overlaps
and `PT_disk` replacements; `PReadsWholeOrUndone` makes room for the dirty reads.

## 8. What is not modelled

* SQL text and JDBC; the pragmas that a bulk import suspends and restores; compaction and
  the closing of a persistence. `retainAll()` and `clear()` over SQLite.
* `removeIndex()` and removals while an index is being added, failures of `init()`,
  immutable indexes. `UniqueIndex` rejecting a duplicate is one of the failures of
  `Fail` and `RequestFails`.
* READ_UNCOMMITTED, and `size()`, `contains()` and `iterator()` of a transactional
  collection, which bypass the versions.
* Hazards that were met while reading and that no module reaches: two `addIndex()` calls
  for the same attribute that lose one index (`CollectionQueryEngine.java:182`);
  `ensureMutable()` called after the store has been changed (`:1426`); an index on the
  heap that is removed and added again with its old contents, as its `destroy()` is a
  no-op; journal settings read by `SQLiteIndex.init()` while a bulk import has them
  suspended (`:664`).
* Radix and suffix trees: the trees are a library's; how value sets are kept in them
  is what `ConcurrentIndexedCollection` models for maps.
* Requests that the engine answers by an exception: ranges with reversed bounds,
  `matches()` of comparative queries.
* Parsers, code generation, serialization and metadata: no state, or the work of
  libraries.
