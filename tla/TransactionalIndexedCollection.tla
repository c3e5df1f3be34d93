------------------- MODULE TransactionalIndexedCollection -------------------
(***************************************************************************)
(* The MVCC algorithm of TransactionalIndexedCollection on top of an       *)
(* on-heap ConcurrentIndexedCollection.                                    *)
(*                                                                         *)
(* Writers are serialised by writeMutex.  A writer publishes a new Version *)
(* before each batch of changes; the Version names the objects that the    *)
(* threads reading it must filter out.  The writer then takes the write    *)
(* lock of the previous Version (and never releases it), which makes it    *)
(* wait for that Version's readers.  Readers take the read lock of the     *)
(* current Version with tryLock, retrying when it fails, and keep it until *)
(* their ResultSet is closed.                                              *)
(*                                                                         *)
(* The collection is held in several places: the object store and each     *)
(* index.  doAddAll and doRemoveAll change one object in one place at a    *)
(* time, and a query reads one of the places while that is going on.       *)
(***************************************************************************)
EXTENDS Naturals

CONSTANTS
    Object,      \* objects that may be in the collection
    Index,       \* the indexes of the query engine
    Store,       \* the object store, read by the fallback index
    Reader,      \* threads that call retrieve()
    Writer,      \* threads that call update(), retainAll() or clear()
    NoWriter,    \* writeMutex is free
    NoObject,    \* a reader's iterator holds no object
    MaxVersion,  \* bound on versionNumberGenerator
    Ops,         \* the mutators in use: a subset of {"update", "retainAll"}
    ReAdd,       \* may update() be asked to add objects that are already there?
    MayFail      \* may an index or the store throw while it is being changed?

ASSUME PlaceAssumption == Store \notin Index
ASSUME NullAssumption == NoWriter \notin Writer /\ NoObject \notin Object
ASSUME BoundAssumption == MaxVersion \in Nat \ {0}
ASSUME OptionAssumption ==
    Ops \subseteq {"update", "retainAll"} /\ ReAdd \in BOOLEAN /\ MayFail \in BOOLEAN

Place == Index \cup {Store}
VersionNumber == 1 .. MaxVersion

VARIABLES
    contents,          \* [Place -> set of objects]: the store and the indexes
    currentVersion,    \* number of the current Version
    objectsToExclude,  \* [VersionNumber -> set of objects]
    lazyExclude,       \* versions whose objectsToExclude is retainAll's ResultSet
    writeLocked,       \* versions whose write lock has been taken
    writeMutex,
    wpc, objectsToAdd, objectsToRemove, previousVersion, \* a writer's locals
    todo,              \* [Writer -> [Place -> objects not yet added/removed]]
    byObject,          \* the phases whose argument is no java.util.Collection
    modified,
    rpc, thisVersion, place, filtering, unvisited, fetched, result, \* a reader's
    committed,         \* history: the transactions committed as of each version
    torn,              \* history: versions published after a failed mutation
    changed            \* history: did this writer's transaction change anything?

collectionVars == <<contents>>
versionVars == <<currentVersion, objectsToExclude, lazyExclude, committed, torn>>
writerVars == <<wpc, objectsToAdd, objectsToRemove, previousVersion, todo,
                byObject, modified, changed>>
readerVars == <<rpc, thisVersion, place, filtering, unvisited, fetched, result>>
vars == <<collectionVars, versionVars, writeLocked, writeMutex, writerVars, readerVars>>

WriterPC == {"idle", "entered", "drainAdd", "adding", "drainRemove", "removing",
             "drainEmpty", "returning", "failed", "drainRestore", "throwing"}
ReaderPC == {"idle", "tryLock", "locked", "iterating", "filtering"}

TypeOK ==
    /\ contents \in [Place -> SUBSET Object]
    /\ currentVersion \in VersionNumber
    /\ objectsToExclude \in [VersionNumber -> SUBSET Object]
    /\ lazyExclude \subseteq VersionNumber
    /\ writeLocked \subseteq VersionNumber
    /\ writeMutex \in Writer \cup {NoWriter}
    /\ wpc \in [Writer -> WriterPC]
    /\ objectsToAdd \in [Writer -> SUBSET Object]
    /\ objectsToRemove \in [Writer -> SUBSET Object]
    /\ previousVersion \in [Writer -> VersionNumber]
    /\ todo \in [Writer -> [Place -> SUBSET Object]]
    /\ byObject \in [Writer -> SUBSET {"adding", "removing"}]
    /\ modified \in [Writer -> BOOLEAN]
    /\ rpc \in [Reader -> ReaderPC]
    /\ thisVersion \in [Reader -> VersionNumber]
    /\ place \in [Reader -> Place]
    /\ filtering \in [Reader -> BOOLEAN]
    /\ unvisited \in [Reader -> SUBSET Object]
    /\ fetched \in [Reader -> Object \cup {NoObject}]
    /\ \A r \in Reader : rpc[r] = "filtering" => fetched[r] \in Object
    /\ result \in [Reader -> SUBSET Object]
    /\ committed \in [VersionNumber -> SUBSET Object]
    /\ torn \subseteq VersionNumber
    /\ changed \in [Writer -> BOOLEAN]

NoTodo == [p \in Place |-> {}]

\* An idle on-heap collection holding whatever earlier updates have left in it.
Init ==
    /\ \E S \in SUBSET Object :
          /\ contents = [p \in Place |-> S]
          /\ committed = [v \in VersionNumber |-> IF v = 1 THEN S ELSE {}]
    /\ currentVersion = 1
    /\ objectsToExclude = [v \in VersionNumber |-> {}]
    /\ lazyExclude = {}
    /\ writeLocked = {}
    /\ writeMutex = NoWriter
    /\ wpc = [w \in Writer |-> "idle"]
    /\ objectsToAdd = [w \in Writer |-> {}]
    /\ objectsToRemove = [w \in Writer |-> {}]
    /\ previousVersion = [w \in Writer |-> 1]
    /\ todo = [w \in Writer |-> NoTodo]
    /\ byObject = [w \in Writer |-> {}]
    /\ modified = [w \in Writer |-> FALSE]
    /\ rpc = [r \in Reader |-> "idle"]
    /\ thisVersion = [r \in Reader |-> 1]
    /\ place = [r \in Reader |-> Store]
    /\ filtering = [r \in Reader |-> FALSE]
    /\ unvisited = [r \in Reader |-> {}]
    /\ fetched = [r \in Reader |-> NoObject]
    /\ result = [r \in Reader |-> {}]
    /\ torn = {}
    /\ changed = [w \in Writer |-> FALSE]

-----------------------------------------------------------------------------
(* Writers                                                                 *)

\* A reader holds the read lock of version v.
HoldsReadLock(r, v) ==
    /\ rpc[r] \in {"locked", "iterating", "filtering"}
    /\ thisVersion[r] = v

\* incrementVersion up to the wait: publish a Version that excludes excl.
\* "after" is the committed collection that readers of this Version must see.
IncrementVersion(w, excl, isLazy, after) ==
    LET v == currentVersion + 1 IN
    /\ v \in VersionNumber
    /\ previousVersion' = [previousVersion EXCEPT ![w] = currentVersion]
    /\ currentVersion' = v
    /\ objectsToExclude' = [objectsToExclude EXCEPT ![v] = excl]
    /\ lazyExclude' = IF isLazy THEN lazyExclude \cup {v} ELSE lazyExclude
    /\ committed' = [committed EXCEPT ![v] = after]

\* A version published on top of torn contents is torn as well.
InheritTorn ==
    torn' = IF currentVersion \in torn THEN torn \cup {currentVersion + 1} ELSE torn

\* update(): arguments that pass ensureUpdateSetsAreDisjoint, then writeMutex.
Update(w, rem, add, iterables) ==
    /\ "update" \in Ops
    /\ wpc[w] = "idle"
    /\ writeMutex = NoWriter
    /\ currentVersion + 3 \in VersionNumber \* room for this update's versions
    /\ rem \cap add = {}
    /\ ReAdd \/ add \cap contents[Store] = {}
    /\ writeMutex' = w
    /\ wpc' = [wpc EXCEPT ![w] = "entered"]
    /\ objectsToAdd' = [objectsToAdd EXCEPT ![w] = add]
    /\ objectsToRemove' = [objectsToRemove EXCEPT ![w] = rem]
    /\ byObject' = [byObject EXCEPT ![w] = iterables]
    /\ modified' = [modified EXCEPT ![w] = FALSE]
    /\ changed' = [changed EXCEPT ![w] = FALSE]
    /\ UNCHANGED <<collectionVars, versionVars, writeLocked, previousVersion, todo,
                   readerVars>>

\* update() finds nothing to do, or STRICT_REPLACEMENT finds an object missing.
UpdateReturnsEarly(w) ==
    /\ wpc[w] = "entered"
    /\ \/ objectsToAdd[w] = {} /\ objectsToRemove[w] = {}
       \/ ~(objectsToRemove[w] \subseteq contents[Store])
    /\ wpc' = [wpc EXCEPT ![w] = "returning"]
    /\ UNCHANGED <<collectionVars, versionVars, writeLocked, writeMutex, objectsToAdd,
                   objectsToRemove, previousVersion, todo, byObject, modified,
                   changed, readerVars>>

\* The collection once w's transaction is applied to the current version.
Applied(w) == (committed[currentVersion] \ objectsToRemove[w]) \cup objectsToAdd[w]

\* Mutant: the additions are not hidden while they are being made.
BeginAddUnhidden(w) ==
    /\ wpc[w] = "entered"
    /\ objectsToAdd[w] # {}
    /\ IncrementVersion(w, {}, FALSE, committed[currentVersion])
    /\ InheritTorn
    /\ wpc' = [wpc EXCEPT ![w] = "drainAdd"]
    /\ UNCHANGED <<collectionVars, writeLocked, writeMutex, objectsToAdd,
                   objectsToRemove, todo, byObject, modified, changed, readerVars>>

\* update(): hide the objects that will be added.
BeginAdd(w) ==
    /\ wpc[w] = "entered"
    /\ objectsToAdd[w] # {}
    /\ IncrementVersion(w, objectsToAdd[w], FALSE, committed[currentVersion])
    /\ InheritTorn
    /\ wpc' = [wpc EXCEPT ![w] = "drainAdd"]
    /\ UNCHANGED <<collectionVars, writeLocked, writeMutex, objectsToAdd,
                   objectsToRemove, todo, byObject, modified, changed, readerVars>>

\* Mutant: the version is published when the store is done, before the indexes.
NothingTodoInStore(w) == todo[w][Store] = {}

NothingTodo(w) == \A p \in Place : todo[w][p] = {}

\* The commit point of a transaction that removes objects: the added ones become
\* visible and the ones still to be removed are hidden, in one write.
BeginRemove(w) ==
    /\ \/ wpc[w] = "entered" /\ objectsToAdd[w] = {}
       \/ wpc[w] = "adding" /\ NothingTodo(w)
    /\ objectsToRemove[w] # {}
    /\ IncrementVersion(w, objectsToRemove[w], FALSE, Applied(w))
    /\ InheritTorn
    /\ wpc' = [wpc EXCEPT ![w] = "drainRemove"]
    /\ changed' = [changed EXCEPT ![w] = committed'[currentVersion'] # committed[currentVersion]]
    /\ UNCHANGED <<collectionVars, writeLocked, writeMutex, objectsToAdd,
                   objectsToRemove, todo, byObject, modified, readerVars>>

\* The final empty version: the commit point of a transaction that only adds.
BeginEmpty(w) ==
    /\ \/ wpc[w] = "removing"
       \/ wpc[w] = "adding" /\ objectsToRemove[w] = {}
    /\ NothingTodo(w)
    /\ IncrementVersion(w, {}, FALSE, Applied(w))
    /\ InheritTorn
    /\ wpc' = [wpc EXCEPT ![w] = "drainEmpty"]
    /\ changed' = [changed EXCEPT
                     ![w] = @ \/ committed'[currentVersion'] # committed[currentVersion]]
    /\ UNCHANGED <<collectionVars, writeLocked, writeMutex, objectsToAdd,
                   objectsToRemove, todo, byObject, modified, readerVars>>

\* retainAll() and clear(): the objects to remove are a lazy ResultSet over the
\* collection, which is also what the published version excludes.
RetainAll(w, retain) ==
    LET rem == contents[Store] \ retain IN
    /\ "retainAll" \in Ops
    /\ wpc[w] = "idle"
    /\ writeMutex = NoWriter
    /\ currentVersion + 3 \in VersionNumber
    /\ writeMutex' = w
    /\ objectsToAdd' = [objectsToAdd EXCEPT ![w] = {}]
    /\ objectsToRemove' = [objectsToRemove EXCEPT ![w] = rem]
    /\ byObject' = [byObject EXCEPT ![w] = {"removing"}]
    /\ modified' = [modified EXCEPT ![w] = FALSE]
    /\ changed' = [changed EXCEPT ![w] = rem # {}]
    /\ \/ /\ rem = {}
          /\ wpc' = [wpc EXCEPT ![w] = "returning"]
          /\ UNCHANGED <<versionVars, previousVersion>>
       \/ /\ rem # {}
          /\ IncrementVersion(w, Object \ retain, TRUE, committed[currentVersion] \cap retain)
          /\ InheritTorn
          /\ wpc' = [wpc EXCEPT ![w] = "drainRemove"]
    /\ UNCHANGED <<collectionVars, writeLocked, todo, readerVars>>

\* What a writer does once it has the lock that it has waited for.
Proceed(w) ==
    /\ wpc' = [wpc EXCEPT ![w] = CASE @ = "drainAdd" -> "adding"
                                   [] @ = "drainRemove" -> "removing"
                                   [] @ = "drainEmpty" -> "returning"
                                   [] OTHER -> "throwing"]
    /\ todo' = [todo EXCEPT ![w] = [p \in Place |->
                   CASE wpc[w] = "drainAdd" -> objectsToAdd[w]
                     [] wpc[w] = "drainRemove" -> objectsToRemove[w]
                     [] OTHER -> {}]]
    /\ UNCHANGED <<collectionVars, versionVars, writeMutex, objectsToAdd,
                   objectsToRemove, previousVersion, byObject, changed, readerVars>>

\* Mutant: the writer does not wait for the readers of the previous version.
DrainWithoutWaiting(w) ==
    /\ wpc[w] \in {"drainAdd", "drainRemove", "drainEmpty", "drainRestore"}
    /\ writeLocked' = writeLocked \cup {previousVersion[w]}
    /\ Proceed(w)
    /\ UNCHANGED modified

\* Mutant: the version just published is locked instead of the previous one.
DrainCurrent(w) ==
    /\ wpc[w] \in {"drainAdd", "drainRemove", "drainEmpty", "drainRestore"}
    /\ \A r \in Reader : ~HoldsReadLock(r, currentVersion)
    /\ writeLocked' = writeLocked \cup {currentVersion}
    /\ Proceed(w)
    /\ UNCHANGED modified

\* Mutant: "modified = doRemoveAll(...)" without "|| modified".
DrainForgetsModified(w) ==
    /\ wpc[w] \in {"drainAdd", "drainRemove", "drainEmpty", "drainRestore"}
    /\ \A r \in Reader : ~HoldsReadLock(r, previousVersion[w])
    /\ writeLocked' = writeLocked \cup {previousVersion[w]}
    /\ Proceed(w)
    /\ modified' = [modified EXCEPT ![w] = wpc[w] # "drainRemove" /\ @]

\* The end of incrementVersion: the previous version's write lock is granted when
\* no reader holds its read lock.
Drain(w) ==
    /\ wpc[w] \in {"drainAdd", "drainRemove", "drainEmpty", "drainRestore"}
    /\ \A r \in Reader : ~HoldsReadLock(r, previousVersion[w])
    /\ writeLocked' = writeLocked \cup {previousVersion[w]}
    /\ Proceed(w)
    /\ UNCHANGED modified

\* Which object may be changed where next.  A Collection goes to the store as a
\* whole and then to one index after the other; any other Iterable goes to the
\* store and to every index object by object.
MayChange(w, p, o) ==
    LET batch == IF wpc[w] = "adding" THEN objectsToAdd[w] ELSE objectsToRemove[w]
        places(x) == {q \in Place : x \in todo[w][q]}
    IN  /\ o \in todo[w][p]
        /\ IF wpc[w] \in byObject[w]
           THEN /\ p = Store \/ o \notin todo[w][Store]
                /\ \A x \in batch \ {o} : places(x) \in {{}, Place}
           ELSE /\ p = Store \/ todo[w][Store] = {}
                /\ \A q \in Index \ {p} : todo[w][q] \in {{}, batch}

\* One step of doAddAll or doRemoveAll.
ChangeOne(w, p, o) ==
    /\ wpc[w] \in {"adding", "removing"}
    /\ MayChange(w, p, o)
    /\ contents' = [contents EXCEPT ![p] = IF wpc[w] = "adding" THEN @ \cup {o} ELSE @ \ {o}]
    /\ modified' = [modified EXCEPT ![w] = @ \/ (p = Store /\ contents'[p] # contents[p])]
    /\ todo' = [todo EXCEPT ![w][p] = @ \ {o}]
    /\ UNCHANGED <<versionVars, writeLocked, writeMutex, wpc, objectsToAdd,
                   objectsToRemove, previousVersion, byObject, changed, readerVars>>

\* The store or an index throws; what has been changed so far stays changed.
Fail(w) ==
    /\ MayFail
    /\ wpc[w] \in {"adding", "removing"}
    /\ wpc' = [wpc EXCEPT ![w] = "failed"]
    /\ UNCHANGED <<collectionVars, versionVars, writeLocked, writeMutex, objectsToAdd,
                   objectsToRemove, previousVersion, todo, byObject, modified,
                   changed, readerVars>>

\* Mutant: a failed mutation leaves its exclusion version in place.
RestoreNothing(w) ==
    /\ wpc[w] = "failed"
    /\ wpc' = [wpc EXCEPT ![w] = "throwing"]
    /\ UNCHANGED <<collectionVars, versionVars, writeLocked, writeMutex, objectsToAdd,
                   objectsToRemove, previousVersion, todo, byObject, modified,
                   changed, readerVars>>

\* restoreEmptyVersionAfterFailure.
RestoreEmptyVersionAfterFailure(w) ==
    /\ wpc[w] = "failed"
    /\ IncrementVersion(w, {}, FALSE, committed[currentVersion])
    /\ torn' = torn \cup {currentVersion + 1}
    /\ wpc' = [wpc EXCEPT ![w] = "drainRestore"]
    /\ UNCHANGED <<collectionVars, writeLocked, writeMutex, objectsToAdd,
                   objectsToRemove, todo, byObject, modified, changed, readerVars>>

\* The mutator returns, or rethrows the failure, and leaves writeMutex.
Return(w) ==
    /\ wpc[w] \in {"returning", "throwing"}
    /\ writeMutex' = NoWriter
    /\ wpc' = [wpc EXCEPT ![w] = "idle"]
    /\ objectsToAdd' = [objectsToAdd EXCEPT ![w] = {}]
    /\ objectsToRemove' = [objectsToRemove EXCEPT ![w] = {}]
    /\ previousVersion' = [previousVersion EXCEPT ![w] = 1]
    /\ byObject' = [byObject EXCEPT ![w] = {}]
    /\ modified' = [modified EXCEPT ![w] = FALSE]
    /\ changed' = [changed EXCEPT ![w] = FALSE]
    /\ UNCHANGED <<collectionVars, versionVars, writeLocked, todo, readerVars>>

-----------------------------------------------------------------------------
(* Readers                                                                 *)

\* acquireReadLockForCurrentVersion: read the volatile field ...
ReadCurrentVersion(r) ==
    /\ rpc[r] = "idle"
    /\ thisVersion' = [thisVersion EXCEPT ![r] = currentVersion]
    /\ rpc' = [rpc EXCEPT ![r] = "tryLock"]
    /\ UNCHANGED <<collectionVars, versionVars, writeLocked, writeMutex, writerVars,
                   place, filtering, unvisited, fetched, result>>

\* Mutant: the result of tryLock is ignored.
IgnoreTryLock(r) ==
    /\ rpc[r] = "tryLock"
    /\ rpc' = [rpc EXCEPT ![r] = "locked"]
    /\ UNCHANGED <<collectionVars, versionVars, writeLocked, writeMutex, writerVars,
                   thisVersion, place, filtering, unvisited, fetched, result>>

\* ... then tryLock, which fails only when a writer holds the write lock, so that
\* it may overtake a waiting writer; a failure reads the field again.
TryReadLock(r) ==
    /\ rpc[r] = "tryLock"
    /\ IF thisVersion[r] \in writeLocked
       THEN /\ thisVersion' = [thisVersion EXCEPT ![r] = currentVersion]
            /\ UNCHANGED rpc
       ELSE /\ rpc' = [rpc EXCEPT ![r] = "locked"]
            /\ UNCHANGED thisVersion
    /\ UNCHANGED <<collectionVars, versionVars, writeLocked, writeMutex, writerVars,
                   place, filtering, unvisited, fetched, result>>

\* Is o excluded from version v now?  retainAll's ResultSet is evaluated against
\* the store at the moment it is asked.
Excluded(v, o) ==
    /\ o \in objectsToExclude[v]
    /\ v \in lazyExclude => o \in contents[Store]

\* retrieve() with the lock held: the query is answered from place p, filtered
\* only if the version has something to exclude.
Retrieve(r, p) ==
    /\ rpc[r] = "locked"
    /\ rpc' = [rpc EXCEPT ![r] = "iterating"]
    /\ place' = [place EXCEPT ![r] = p]
    /\ filtering' = [filtering EXCEPT ![r] = \E o \in Object : Excluded(thisVersion[r], o)]
    /\ unvisited' = [unvisited EXCEPT ![r] = Object]
    /\ UNCHANGED <<collectionVars, versionVars, writeLocked, writeMutex, writerVars,
                   thisVersion, fetched, result>>

\* The iterator of a concurrent set comes by the slot of o, occupied or not.
Fetch(r, o) ==
    /\ rpc[r] = "iterating"
    /\ o \in unvisited[r]
    /\ unvisited' = [unvisited EXCEPT ![r] = @ \ {o}]
    /\ IF o \in contents[place[r]]
       THEN /\ fetched' = [fetched EXCEPT ![r] = o]
            /\ rpc' = [rpc EXCEPT ![r] = "filtering"]
       ELSE UNCHANGED <<fetched, rpc>>
    /\ UNCHANGED <<collectionVars, versionVars, writeLocked, writeMutex, writerVars,
                   thisVersion, place, filtering, result>>

\* isValid() decides about the object fetched.
Filter(r) ==
    /\ rpc[r] = "filtering"
    /\ result' = [result EXCEPT ![r] =
                    IF filtering[r] /\ Excluded(thisVersion[r], fetched[r])
                    THEN @ ELSE @ \cup {fetched[r]}]
    /\ fetched' = [fetched EXCEPT ![r] = NoObject]
    /\ rpc' = [rpc EXCEPT ![r] = "iterating"]
    /\ UNCHANGED <<collectionVars, versionVars, writeLocked, writeMutex, writerVars,
                   thisVersion, place, filtering, unvisited>>

\* A reader forgets the ResultSet it has closed.
Forget(r) ==
    /\ rpc' = [rpc EXCEPT ![r] = "idle"]
    /\ thisVersion' = [thisVersion EXCEPT ![r] = 1]
    /\ place' = [place EXCEPT ![r] = Store]
    /\ filtering' = [filtering EXCEPT ![r] = FALSE]
    /\ unvisited' = [unvisited EXCEPT ![r] = {}]
    /\ fetched' = [fetched EXCEPT ![r] = NoObject]
    /\ result' = [result EXCEPT ![r] = {}]
    /\ UNCHANGED <<collectionVars, versionVars, writeLocked, writeMutex, writerVars>>

\* Mutant: the lock is released only at the end of the iteration.
CloseWhenExhausted(r) ==
    /\ rpc[r] = "iterating"
    /\ unvisited[r] = {}
    /\ Forget(r)

\* ResultSet.close(), or retrieve() or the iteration throwing: the read lock is
\* released whether or not the iteration is complete.
Close(r) ==
    /\ rpc[r] \in {"locked", "iterating", "filtering"}
    /\ Forget(r)

-----------------------------------------------------------------------------
WriterStep(w) ==
    \/ UpdateReturnsEarly(w) \/ BeginAdd(w) \/ BeginRemove(w) \/ BeginEmpty(w)
    \/ Drain(w)
    \/ \E p \in Place, o \in Object : ChangeOne(w, p, o)
    \/ RestoreEmptyVersionAfterFailure(w)
    \/ Return(w)

\* The phases of an update() in which there are several objects to put in order.
Ordered(rem, add) ==
    {ph \in {"adding", "removing"} :
        \E x, y \in (IF ph = "adding" THEN add ELSE rem) : x # y}

Call(w) ==
    \/ \E rem, add \in SUBSET Object : \E iterables \in SUBSET Ordered(rem, add) :
          Update(w, rem, add, iterables)
    \/ \E retain \in SUBSET Object : RetainAll(w, retain)

ReaderStep(r) ==
    \/ TryReadLock(r)
    \/ \E p \in Place : Retrieve(r, p)
    \/ \E o \in Object : Fetch(r, o)
    \/ Filter(r)
    \/ Close(r)

Next ==
    \/ \E w \in Writer : Call(w) \/ WriterStep(w) \/ Fail(w)
    \/ \E r \in Reader : ReadCurrentVersion(r) \/ ReaderStep(r)

Spec == Init /\ [][Next]_vars

\* The scheduler runs a thread that can take a step, and applications close the
\* ResultSets they open; nothing obliges a thread to call anything.
FairSpec ==
    /\ Spec
    /\ \A w \in Writer : WF_vars(WriterStep(w))
    /\ \A r \in Reader : WF_vars(Close(r))

-----------------------------------------------------------------------------
(* What the algorithm promises                                             *)

\* retrieve() with READ_COMMITTED: wherever a query is answered from and whatever
\* writers do meanwhile, each object the iteration has come by is returned exactly
\* if it belongs to the collection that the reader's version stands for.
ReadCommitted ==
    \A r \in Reader :
        (rpc[r] \in {"iterating", "filtering"} /\ thisVersion[r] \notin torn) =>
            \A o \in Object \ (unvisited[r] \cup {fetched[r]}) :
                o \in result[r] <=> o \in committed[thisVersion[r]]

\* "Reading threads are guaranteed to see a consistent version of the collection
\* where transactions have been applied in their entirety": a complete iteration
\* returns the collection as it was between two transactions.
ReadsWholeTransactions ==
    \A r \in Reader :
        (rpc[r] = "iterating" /\ unvisited[r] = {}) =>
            \E v \in 1 .. currentVersion : result[r] = committed[v]

\* What may be returned under version v: retainAll()'s exclusion is a lazy ResultSet,
\* so that objects it is about to remove may still be seen.
Possible(v) == IF v \in lazyExclude THEN committed[v - 1] ELSE committed[v]

\* What every mutator guarantees to readers: nothing is missing from an iteration but
\* what the running transaction is about, and nothing is returned that is neither in
\* the collection nor being removed from it by retainAll().
ReadsBounded ==
    \A r \in Reader :
        LET v == thisVersion[r] IN
        (rpc[r] \in {"iterating", "filtering"} /\ v \notin torn) =>
            \A o \in Object \ (unvisited[r] \cup {fetched[r]}) :
                /\ o \in committed[v] \ objectsToExclude[v] => o \in result[r]
                /\ o \in result[r] => o \in Possible(v)

\* What a reader of version v is shown of place p.
Shown(v, p) == {o \in contents[p] : ~Excluded(v, o)}

\* While a reader holds the read lock of a version, even one published after a failure,
\* no step of any writer changes what that version shows of any place.  The exception
\* is an index under retainAll(), whose exclusion is evaluated against the store: what
\* has left the store is shown again until it leaves the index.
ViewsStable ==
    [][\A r \in Reader, v \in VersionNumber, p \in Place :
          HoldsReadLock(r, v) =>
              LET gone == IF v \in lazyExclude /\ p # Store
                          THEN objectsToExclude[v] \ contents'[Store] ELSE {}
              IN Shown(v, p)' \ gone = Shown(v, p) \ gone]_vars

\* incrementVersion publishes before it locks, so the version that readers pick is
\* one that no writer has locked: tryLock fails only after a writer has moved on.
CurrentVersionUncontended == currentVersion \notin writeLocked

\* When no mutator runs, and none has failed, the store and every index hold what the
\* transactions so far have left: update() and retainAll() skip or lose nothing.
QuiescentCollection ==
    (writeMutex = NoWriter /\ currentVersion \notin torn) =>
        \A p \in Place : contents[p] = committed[currentVersion]

\* restoreEmptyVersionAfterFailure: a failed mutation leaves no exclusion behind.
NothingHiddenWhenIdle == writeMutex = NoWriter => objectsToExclude[currentVersion] = {}

\* update() and retainAll() return whether the transaction changed the collection.
ReturnValueTruthful ==
    \A w \in Writer :
        (wpc[w] = "returning" /\ currentVersion \notin torn) => modified[w] = changed[w]

\* A mutator that has entered writeMutex returns, however many readers come and go.
WriterReturns == \A w \in Writer : (wpc[w] # "idle") ~> (wpc[w] = "idle")

-----------------------------------------------------------------------------
(* Why ReadCommitted holds for update(): the inductive invariant.           *)

Draining == {"drainAdd", "drainRemove", "drainEmpty", "drainRestore"}
Reading == {"locked", "iterating", "filtering"}

\* writeMutex excludes all writers but one.
MutexInv == \A w \in Writer : wpc[w] # "idle" <=> writeMutex = w

\* The versions that can still be read-locked are the current one and, while its
\* readers are being waited for, the one before.
LockInv ==
    /\ \A v \in writeLocked : v < currentVersion
    /\ \A w \in Writer : wpc[w] \in Draining => previousVersion[w] + 1 = currentVersion
    /\ \A v \in 1 .. currentVersion :
          v \notin writeLocked =>
              \/ v = currentVersion
              \/ \E w \in Writer : wpc[w] \in Draining /\ v = previousVersion[w]

\* What the current version excludes, in each phase of update().
ExclusionInv ==
    /\ lazyExclude = {}
    /\ writeMutex = NoWriter => objectsToExclude[currentVersion] = {}
    /\ \A w \in Writer :
          /\ wpc[w] \in {"entered", "drainEmpty", "returning", "drainRestore", "throwing"} =>
                objectsToExclude[currentVersion] = {}
          /\ wpc[w] \in {"drainAdd", "adding"} =>
                objectsToExclude[currentVersion] = objectsToAdd[w]
          /\ wpc[w] \in {"drainRemove", "removing"} =>
                objectsToExclude[currentVersion] = objectsToRemove[w]

\* How far update() has come in each place.
ProgressInv ==
    \A w \in Writer :
        /\ objectsToAdd[w] \cap objectsToRemove[w] = {}
        /\ currentVersion \notin torn =>
              /\ wpc[w] \in {"drainRemove", "removing"} =>
                    objectsToAdd[w] \subseteq committed[currentVersion]
              /\ \A p \in Place :
                    /\ wpc[w] \in {"entered", "drainAdd"} =>
                          objectsToAdd[w] \cap contents[p] = {}
                    /\ wpc[w] = "adding" =>
                          /\ todo[w][p] \subseteq objectsToAdd[w]
                          /\ objectsToAdd[w] \subseteq todo[w][p] \cup contents[p]
                    /\ wpc[w] = "removing" =>
                          /\ todo[w][p] \subseteq objectsToRemove[w]
                          /\ objectsToRemove[w] \cap contents[p] \subseteq todo[w][p]

\* The heart of the algorithm: as long as a version can be read, every place holds
\* the collection it stands for and, besides that, only objects that it excludes.
VersionInv ==
    \A v \in 1 .. currentVersion :
        (v \notin writeLocked /\ v \notin torn) =>
            \A p \in Place : contents[p] \ objectsToExclude[v] = committed[v]

\* What a reader's locals say about the version it has locked.
ReaderInv ==
    \A r \in Reader :
        /\ thisVersion[r] <= currentVersion
        /\ rpc[r] \in Reading => thisVersion[r] \notin writeLocked
        /\ rpc[r] \notin {"iterating", "filtering"} => result[r] = {}
        /\ rpc[r] = "filtering" <=> fetched[r] # NoObject
        /\ fetched[r] \notin unvisited[r] \cup result[r]
        /\ result[r] \cap unvisited[r] = {}
        /\ rpc[r] \in {"iterating", "filtering"} =>
              (filtering[r] <=> objectsToExclude[thisVersion[r]] # {})
        /\ (rpc[r] = "filtering" /\ thisVersion[r] \notin torn) =>
              fetched[r] \in committed[thisVersion[r]] \cup objectsToExclude[thisVersion[r]]

IndInv ==
    /\ TypeOK /\ MutexInv /\ LockInv /\ ExclusionInv /\ ProgressInv /\ VersionInv
    /\ ReaderInv /\ ReadCommitted

-----------------------------------------------------------------------------
(* The same for every mutator: the inductive invariant behind ReadsBounded, *)
(* QuiescentCollection, NothingHiddenWhenIdle and ReturnValueTruthful, with *)
(* retainAll(), updates that add what is there already, and failures.       *)

\* What the current version excludes in each phase, and that nothing else is changed.
HidingInv ==
    /\ \A v \in lazyExclude : 1 < v /\ v <= currentVersion
    /\ writeMutex = NoWriter => objectsToExclude[currentVersion] = {}
    /\ \A w \in Writer :
          /\ objectsToAdd[w] \cap objectsToRemove[w] = {}
          /\ wpc[w] \in {"entered", "drainEmpty", "returning", "drainRestore", "throwing"} =>
                objectsToExclude[currentVersion] = {}
          /\ wpc[w] \in {"drainAdd", "adding"} =>
                /\ objectsToExclude[currentVersion] = objectsToAdd[w]
                /\ currentVersion \notin lazyExclude
          /\ wpc[w] \in {"drainRemove", "removing"} =>
                objectsToRemove[w] \subseteq objectsToExclude[currentVersion]
          /\ wpc[w] = "adding" => \A p \in Place : todo[w][p] \subseteq objectsToAdd[w]
          /\ wpc[w] = "removing" => \A p \in Place : todo[w][p] \subseteq objectsToRemove[w]

\* What each place holds in each phase, unless a mutation has failed.
ContentsInv ==
    currentVersion \notin torn =>
        /\ writeMutex = NoWriter => \A p \in Place : contents[p] = committed[currentVersion]
        /\ \A w \in Writer :
              /\ wpc[w] \notin {"drainRestore", "throwing"}
              /\ wpc[w] \in {"entered", "drainAdd", "drainEmpty", "returning"} =>
                    \A p \in Place : contents[p] = committed[currentVersion]
              /\ wpc[w] = "adding" =>
                    \A p \in Place : contents[p] = committed[currentVersion]
                                                      \cup (objectsToAdd[w] \ todo[w][p])
              /\ wpc[w] = "drainRemove" =>
                    \A p \in Place : contents[p] \ objectsToRemove[w] = committed[currentVersion]
              /\ wpc[w] = "removing" =>
                    \A p \in Place : contents[p] \ todo[w][p] = committed[currentVersion]
              /\ wpc[w] \in {"drainRemove", "removing"} =>
                    /\ objectsToAdd[w] \subseteq committed[currentVersion]
                    /\ objectsToRemove[w] \cap committed[currentVersion] = {}

\* A version that can be read: outside of its exclusion, every place holds what it
\* stands for, and under retainAll() nothing that was not there before.
ReadableInv ==
    \A v \in 1 .. currentVersion :
        (v \notin writeLocked /\ v \notin torn) =>
            \A p \in Place :
                /\ contents[p] \ objectsToExclude[v] = committed[v] \ objectsToExclude[v]
                /\ v \in lazyExclude => contents[p] \subseteq committed[v - 1]

\* What a reader's locals say about the version it has locked.
IterationInv ==
    \A r \in Reader :
        /\ thisVersion[r] <= currentVersion
        /\ rpc[r] \in Reading => thisVersion[r] \notin writeLocked
        /\ rpc[r] \notin {"iterating", "filtering"} => result[r] = {}
        /\ rpc[r] = "filtering" <=> fetched[r] # NoObject
        /\ fetched[r] \notin unvisited[r] \cup result[r]
        /\ result[r] \cap unvisited[r] = {}
        /\ (rpc[r] \in {"iterating", "filtering"} /\ thisVersion[r] \notin lazyExclude) =>
              (filtering[r] <=> objectsToExclude[thisVersion[r]] # {})
        /\ (rpc[r] = "filtering" /\ thisVersion[r] \notin torn) =>
              fetched[r] \in Possible(thisVersion[r]) \cup
                  (IF thisVersion[r] \in lazyExclude THEN {} ELSE objectsToExclude[thisVersion[r]])

\* What "modified" has collected from the store so far and what the store is still to
\* be changed by make up what the transaction changes.
OutcomeInv ==
    currentVersion \notin torn =>
        \A w \in Writer :
            /\ wpc[w] \in {"entered", "drainAdd"} => ~modified[w] /\ ~changed[w]
            /\ wpc[w] = "adding" =>
                  /\ ~changed[w]
                  /\ modified[w] <=> ~(objectsToAdd[w] \ todo[w][Store] \subseteq committed[currentVersion])
            /\ wpc[w] \in {"drainRemove", "removing"} =>
                  (changed[w] <=> modified[w] \/ objectsToRemove[w] \cap contents[Store] # {})
            /\ wpc[w] \in {"drainEmpty", "returning"} => (changed[w] <=> modified[w])

MutatorInv ==
    /\ TypeOK /\ MutexInv /\ LockInv /\ HidingInv /\ ContentsInv /\ ReadableInv
    /\ IterationInv /\ ReadsBounded /\ OutcomeInv

-----------------------------------------------------------------------------
(* The on-heap algorithm implements the abstract collection.               *)

\* The collection is what the current version leaves of the store: a transaction
\* commits when the version that stops hiding its additions and starts hiding its
\* removals is published.
Visible == contents[Store] \ objectsToExclude[currentVersion]

\* How far a transaction has come, for those who do not see versions.
Phase ==
    [w \in Writer |-> CASE wpc[w] = "idle" -> "idle"
                         [] wpc[w] \in {"entered", "drainAdd", "adding"} -> "requested"
                         [] OTHER -> "done"]

\* How far retrieve() has come, for those who do not see locks.
Opening ==
    [r \in Reader |-> CASE rpc[r] = "idle" -> "no"
                         [] rpc[r] = "tryLock" -> "opening"
                         [] OTHER -> "open"]

\* A reader's view is the collection its version stands for, ...
View == [r \in Reader |-> IF rpc[r] = "idle" THEN {} ELSE committed[thisVersion[r]]]

\* ... of which it still has to return what its iterator has not come by.
Pending ==
    [r \in Reader |->
        CASE rpc[r] \in {"idle", "tryLock"} -> {}
          [] rpc[r] = "locked" -> committed[thisVersion[r]]
          [] OTHER -> committed[thisVersion[r]] \cap (unvisited[r] \cup {fetched[r]})]

RC == INSTANCE ReadCommittedCollection WITH
    collection <- Visible,
    phase <- Phase, toRemove <- objectsToRemove, toAdd <- objectsToAdd,
    reading <- Opening, view <- View, pending <- Pending, delivered <- result

\* update() takes effect in one step for every reader of every index, between its
\* call and its return, and each query is answered from one state of the
\* collection (no failures, no retainAll(), no adding what is already there).
ImplementsReadCommittedCollection == RC!Spec
=============================================================================
