-------------- MODULE PersistentTransactionalCollectionProofs --------------
(***************************************************************************)
(* Proofs about PersistentTransactionalCollection for any number of        *)
(* objects, places, readers, writers and versions, and however update()    *)
(* fails.                                                                  *)
(***************************************************************************)
EXTENDS PersistentTransactionalCollection, TransactionalIndexedCollectionProofs

USE DEF collectionVars, versionVars, writerVars, readerVars, persistenceVars

-----------------------------------------------------------------------------
(* Types                                                                   *)

\* The initial state has the right types.
LEMMA PTypeInit == PInit => PTypeOK
BY TypeInit, PersistedAssumption DEF PInit, PTypeOK, TypeOK, ConnectionState

\* What the places hold after a rollback are sets of objects.
LEMMA RolledBackType ==
    ASSUME PTypeOK
    PROVE  RolledBack \in [Place -> SUBSET Object]
BY PersistedAssumption DEF PTypeOK, TypeOK, RolledBack

\* A call is one of update(), on sets of objects.
LEMMA PCallCases ==
    ASSUME NEW w \in Writer, PCall(w)
    PROVE  \E rem, add \in SUBSET Object, iterables \in SUBSET {"adding", "removing"} :
               PUpdate(w, rem, add, iterables)
<1>1. ASSUME NEW rem \in SUBSET Object, NEW add \in SUBSET Object,
             NEW iterables \in SUBSET Ordered(rem, add)
      PROVE  iterables \in SUBSET {"adding", "removing"}
  BY <1>1 DEF Ordered
<1> QED BY <1>1, Zenon DEF PCall

\* Opening, committing and rolling back preserve the types.
LEMMA PTypeWriter ==
    ASSUME PTypeOK, NEW w \in Writer,
           \/ PCall(w) \/ OpenWriteConnection(w) \/ PWriterStep(w)
           \/ StrictReplacementFails(w) \/ PFail(w) \/ CommitFails(w)
    PROVE  PTypeOK'
<1>1. /\ TypeOK /\ Store \in Persisted /\ Persisted \subseteq Place
      /\ database \in [Persisted -> SUBSET Object]
      /\ connected \in [Writer -> BOOLEAN]
      /\ before \in [Writer -> SUBSET Object]
      /\ database[Store] \in SUBSET Object
      /\ wpc \in [Writer -> WriterPC]
      /\ contents \in [Place -> SUBSET Object]
      /\ currentVersion \in VersionNumber /\ torn \subseteq VersionNumber
      /\ committed \in [VersionNumber -> SUBSET Object]
  BY PersistedAssumption DEF PTypeOK, TypeOK
<1>2. CASE PCall(w)
  <2>1. PICK rem \in SUBSET Object, add \in SUBSET Object,
             iterables \in SUBSET {"adding", "removing"} : PUpdate(w, rem, add, iterables)
    BY <1>2, PCallCases
  <2>2. Call(w)
    BY <1>2, Zenon DEF PCall, PUpdate, Call
  <2>3. TypeOK'
    BY <1>1, <2>2, TypeCall
  <2>4. before' \in [Writer -> SUBSET Object]
    BY <1>1, <2>1 DEF PUpdate
  <2> QED BY <2>1, <2>3, <2>4 DEF PUpdate, PTypeOK
<1>3. CASE OpenWriteConnection(w)
  <2>1. TypeOK'
    BY <1>1, <1>3 DEF OpenWriteConnection, vars, TypeOK
  <2> QED BY <1>1, <1>3, <2>1 DEF OpenWriteConnection, PTypeOK
<1>4. CASE \/ PUpdateReturnsEarly(w) \/ PVersionStep(w)
           \/ \E p \in Place, o \in Object : PChangeOne(w, p, o)
           \/ PFail(w)
  <2>1. WriterStep(w) \/ Fail(w)
    BY <1>4 DEF PUpdateReturnsEarly, PVersionStep, PChangeOne, PFail, WriterStep
  <2>2. TypeOK'
    BY <1>1, <2>1, TypeWriter
  <2>3. UNCHANGED persistenceVars
    BY <1>4 DEF PUpdateReturnsEarly, PVersionStep, PChangeOne, PFail
  <2> QED BY <2>2, <2>3 DEF PTypeOK
<1>5. CASE RollBack(w)
  <2>1. contents' \in [Place -> SUBSET Object]
    BY <1>5, RolledBackType DEF RollBack
  <2>2. TypeOK'
    BY <1>5, <2>1 DEF RollBack, PTypeOK, TypeOK
  <2> QED BY <1>1, <1>5, <2>2 DEF RollBack, PTypeOK
<1>6. CASE PRestoreEmptyVersionAfterFailure(w)
  <2>1. /\ IncrementVersion(w, {}, FALSE, before[w]) /\ TornOnHeap(currentVersion + 1)
        /\ before[w] \in SUBSET Object
    BY <1>1, <1>6 DEF PRestoreEmptyVersionAfterFailure
  <2>2. /\ currentVersion' \in VersionNumber
        /\ objectsToExclude' \in [VersionNumber -> SUBSET Object]
        /\ lazyExclude' \subseteq VersionNumber
        /\ previousVersion' \in [Writer -> VersionNumber]
        /\ committed' \in [VersionNumber -> SUBSET Object]
        /\ torn' \subseteq VersionNumber
    BY <1>1, <2>1 DEF IncrementVersion, TornOnHeap, TypeOK
  <2>3. TypeOK'
    BY <1>1, <1>6, <2>2 DEF PRestoreEmptyVersionAfterFailure, TypeOK, WriterPC
  <2> QED BY <1>6, <2>3 DEF PRestoreEmptyVersionAfterFailure, PTypeOK
<1>7. CASE Commit(w)
  <2>1. wpc' \in [Writer -> WriterPC]
    BY <1>1, <1>7 DEF Commit, WriterPC
  <2>2. TypeOK'
    BY <1>1, <1>7, <2>1 DEF Commit, TypeOK
  <2>3. database' \in [Persisted -> SUBSET Object]
    BY <1>1, <1>7 DEF Commit
  <2> QED BY <1>1, <1>7, <2>2, <2>3 DEF Commit, PTypeOK
<1>8. CASE CommitFails(w)
  <2>1. contents' \in [Place -> SUBSET Object]
    BY <1>8, RolledBackType DEF CommitFails
  <2>2. /\ wpc' \in [Writer -> WriterPC]
        /\ committed' \in [VersionNumber -> SUBSET Object]
        /\ torn' \subseteq VersionNumber
    BY <1>1, <1>8 DEF CommitFails, TornOnHeap, WriterPC
  <2>3. TypeOK'
    BY <1>1, <1>8, <2>1, <2>2 DEF CommitFails, TypeOK
  <2> QED BY <1>1, <1>8, <2>3 DEF CommitFails, PTypeOK
<1>9. CASE PReturn(w)
  <2>1. TypeOK'
    BY <1>1, <1>9, TypeWriter DEF PReturn, WriterStep
  <2> QED BY <1>1, <1>9, <2>1 DEF PReturn, PTypeOK
<1>10. CASE StrictReplacementFails(w)
  <2>1. TypeOK'
    BY <1>1, <1>10 DEF StrictReplacementFails, TypeOK, WriterPC
  <2> QED BY <1>1, <1>10, <2>1 DEF StrictReplacementFails, PTypeOK
<1> QED BY <1>2, <1>3, <1>4, <1>5, <1>6, <1>7, <1>8, <1>9, <1>10 DEF PWriterStep

\* So do the steps of readers and of their connections.
LEMMA PTypeReader ==
    ASSUME PTypeOK, ConnectionInv, NEW r \in Reader,
           \/ PReadCurrentVersion(r) \/ PReaderStep(r) \/ GetConnection(r)
           \/ OpenReadConnection(r) \/ PClose(r)
           \/ \E o \in Object : FetchRow(r, o) \/ FetchOnHeap(r, o)
    PROVE  PTypeOK'
<1>1. /\ TypeOK
      /\ connection \in [Reader -> ConnectionState]
      /\ snapshot \in [Reader -> SUBSET Object]
      /\ database \in [Persisted -> SUBSET Object]
  BY DEF PTypeOK
<1>2. CASE PReadCurrentVersion(r) \/ PReaderStep(r) \/ \E o \in Object : FetchOnHeap(r, o)
  <2>1. /\ ReadCurrentVersion(r) \/ ReaderStep(r)
        /\ UNCHANGED persistenceVars
    BY <1>2 DEF PReadCurrentVersion, PReaderStep, FetchOnHeap, ReaderStep
  <2>2. TypeOK'
    BY <1>1, <2>1, TypeReader
  <2> QED BY <2>1, <2>2 DEF PTypeOK
<1>3. CASE GetConnection(r)
  <2>1. TypeOK'
    BY <1>1, <1>3 DEF GetConnection, vars, TypeOK
  <2> QED BY <1>1, <1>3, <2>1 DEF GetConnection, PTypeOK, ConnectionState
<1>4. CASE OpenReadConnection(r)
  <2>1. TypeOK'
    BY <1>1, <1>4 DEF OpenReadConnection, vars, TypeOK
  <2>2. snapshot' \in [Reader -> SUBSET Object]
    <3>1. database[place[r]] \in SUBSET Object
      BY <1>1, <1>4 DEF OpenReadConnection, ConnectionInv
    <3> QED BY <1>1, <1>4, <3>1 DEF OpenReadConnection
  <2> QED BY <1>1, <1>4, <2>1, <2>2 DEF OpenReadConnection, PTypeOK, ConnectionState
<1>5. CASE PClose(r)
  <2>1. TypeOK'
    BY <1>1, <1>5, TypeReader DEF PClose, ReaderStep
  <2> QED BY <1>1, <1>5, <2>1 DEF PClose, PTypeOK, ConnectionState
<1>6. ASSUME NEW o \in Object, FetchRow(r, o)
      PROVE  PTypeOK'
  <2>1. /\ rpc \in [Reader -> ReaderPC] /\ unvisited \in [Reader -> SUBSET Object]
        /\ fetched \in [Reader -> Object \cup {NoObject}]
        /\ \A q \in Reader : rpc[q] = "filtering" => fetched[q] \in Object
        /\ unvisited' = [unvisited EXCEPT ![r] = @ \ {o}]
    BY <1>1, <1>6 DEF TypeOK, FetchRow
  <2>2. \/ UNCHANGED <<fetched, rpc>>
        \/ /\ fetched' = [fetched EXCEPT ![r] = o]
           /\ rpc' = [rpc EXCEPT ![r] = "filtering"]
    BY <1>6 DEF FetchRow
  <2>3. /\ rpc' \in [Reader -> ReaderPC] /\ unvisited' \in [Reader -> SUBSET Object]
        /\ fetched' \in [Reader -> Object \cup {NoObject}]
        /\ \A q \in Reader : rpc'[q] = "filtering" => fetched'[q] \in Object
    BY <2>1, <2>2 DEF ReaderPC
  <2>4. TypeOK'
    BY <1>1, <1>6, <2>3 DEF FetchRow, TypeOK
  <2> QED BY <1>6, <2>4 DEF FetchRow, PTypeOK
<1> QED BY <1>2, <1>3, <1>4, <1>5, <1>6

\* A reader's connection belongs to the iteration that has asked for it.
LEMMA ConnectionReader ==
    ASSUME PTypeOK, ConnectionInv, NEW r \in Reader,
           \/ PReadCurrentVersion(r) \/ PReaderStep(r) \/ GetConnection(r)
           \/ OpenReadConnection(r) \/ PClose(r)
           \/ \E o \in Object : FetchRow(r, o) \/ FetchOnHeap(r, o)
    PROVE  ConnectionInv'
<1>1. /\ rpc \in [Reader -> ReaderPC] /\ place \in [Reader -> Place]
      /\ connection \in [Reader -> ConnectionState]
  BY DEF PTypeOK, TypeOK
<1>2. CASE PReadCurrentVersion(r)
  BY <1>1, <1>2 DEF PReadCurrentVersion, ReadCurrentVersion, ConnectionInv
<1>3. CASE TryReadLock(r) /\ UNCHANGED persistenceVars
  <2>1. rpc' = [rpc EXCEPT ![r] = "locked"] \/ rpc' = rpc
    BY <1>3 DEF TryReadLock
  <2> QED BY <1>1, <1>3, <2>1 DEF TryReadLock, ConnectionInv
<1>4. CASE Filter(r) /\ UNCHANGED persistenceVars
  BY <1>1, <1>4 DEF Filter, ConnectionInv
<1>5. ASSUME NEW p \in Place, Retrieve(r, p), UNCHANGED persistenceVars
      PROVE  ConnectionInv'
  BY <1>1, <1>5 DEF Retrieve, ConnectionInv
<1>6. CASE GetConnection(r)
  BY <1>1, <1>6 DEF GetConnection, vars, ConnectionInv
<1>7. CASE OpenReadConnection(r)
  BY <1>1, <1>7 DEF OpenReadConnection, vars, ConnectionInv
<1>8. CASE PClose(r)
  BY <1>1, <1>8 DEF PClose, Close, Forget, ConnectionInv
<1>9. ASSUME NEW o \in Object, FetchRow(r, o) \/ FetchOnHeap(r, o)
      PROVE  ConnectionInv'
  <2>1. /\ rpc[r] = "iterating" /\ UNCHANGED <<place, connection>>
        /\ rpc' = [rpc EXCEPT ![r] = "filtering"] \/ rpc' = rpc
    BY <1>9 DEF FetchRow, FetchOnHeap, Fetch
  <2> QED BY <1>1, <2>1 DEF ConnectionInv
<1> QED BY <1>2, <1>3, <1>4, <1>5, <1>6, <1>7, <1>8, <1>9 DEF PReaderStep

-----------------------------------------------------------------------------
(* Mutual exclusion, locks and exclusions                                  *)

ControlInv == TypeOK /\ MutexInv /\ LockInv /\ ExclusionInv

\* update() enters writeMutex.
LEMMA EnterControl ==
    ASSUME ControlInv, NEW w \in Writer, NEW rem, NEW add, NEW iterables,
           Update(w, rem, add, iterables)
    PROVE  MutexInv' /\ LockInv' /\ ExclusionInv'
<1> USE DEF ControlInv
<1>1. \A u \in Writer : wpc[u] = "idle" /\ wpc'[u] = IF u = w THEN "entered" ELSE "idle"
  BY NullAssumption DEF Update, MutexInv, TypeOK
<1>2. MutexInv'
  BY <1>1, NullAssumption DEF Update, MutexInv
<1>3. LockInv'
  BY <1>1 DEF Update, LockInv, Draining
<1>4. objectsToExclude[currentVersion] = {}
  BY DEF Update, ExclusionInv
<1>5. ExclusionInv'
  BY <1>1, <1>4 DEF Update, ExclusionInv
<1> QED BY <1>2, <1>3, <1>5

\* It goes on, without publishing a version or waiting for one.
LEMMA MoveControl ==
    ASSUME ControlInv, NEW w \in Writer, wpc[w] \notin Draining \cup {"idle"},
           NEW pc, pc \notin Draining \cup {"idle"}, wpc' = [wpc EXCEPT ![w] = pc],
           pc \in {"adding", "removing"} => pc = wpc[w],
           pc \in {"entered", "returning", "throwing"} => objectsToExclude[currentVersion] = {},
           UNCHANGED <<currentVersion, objectsToExclude, lazyExclude, writeLocked, writeMutex,
                       objectsToAdd, objectsToRemove, previousVersion>>
    PROVE  MutexInv' /\ LockInv' /\ ExclusionInv'
<1> USE DEF ControlInv
<1>1. \A u \in Writer : wpc'[u] = IF u = w THEN pc ELSE "idle"
  BY OthersIdle DEF TypeOK
<1>2. MutexInv'
  BY <1>1 DEF MutexInv
<1>3. \A u \in Writer : wpc[u] \notin Draining /\ wpc'[u] \notin Draining
  BY <1>1, OthersIdle DEF Draining
<1>4. LockInv'
  BY <1>3 DEF LockInv
<1>5. \A u \in Writer : ExclusionInv!3!(u)'
  BY <1>1 DEF ExclusionInv, Draining
<1>6. writeMutex # NoWriter
  BY NullAssumption DEF MutexInv
<1>7. ExclusionInv'
  BY <1>5, <1>6 DEF ExclusionInv
<1> QED BY <1>2, <1>4, <1>7

\* It publishes a version, with the exclusion that belongs to its next phase.
LEMMA PublishControl ==
    ASSUME ControlInv, NEW w \in Writer, wpc[w] \notin Draining \cup {"idle"},
           NEW excl \in SUBSET Object, NEW after \in SUBSET Object,
           IncrementVersion(w, excl, FALSE, after),
           NEW pc \in Draining, wpc' = [wpc EXCEPT ![w] = pc],
           excl = CASE pc = "drainAdd" -> objectsToAdd[w]
                    [] pc = "drainRemove" -> objectsToRemove[w]
                    [] OTHER -> {},
           UNCHANGED <<writeLocked, writeMutex, objectsToAdd, objectsToRemove>>
    PROVE  /\ MutexInv' /\ LockInv' /\ ExclusionInv'
           /\ currentVersion \in Nat /\ currentVersion' = currentVersion + 1
           /\ currentVersion' \in VersionNumber
           /\ \A v \in 1 .. currentVersion :
                 /\ objectsToExclude'[v] = objectsToExclude[v]
                 /\ committed'[v] = committed[v]
                 /\ v \notin writeLocked => v = currentVersion
           /\ objectsToExclude'[currentVersion'] = excl
           /\ committed'[currentVersion'] = after
<1> USE DEF ControlInv
<1>1. /\ currentVersion \in Nat /\ currentVersion' = currentVersion + 1
      /\ currentVersion' \in VersionNumber
      /\ 1 <= currentVersion /\ currentVersion <= currentVersion'
      /\ 1 .. currentVersion \subseteq VersionNumber
  BY BoundAssumption DEF TypeOK, VersionNumber, IncrementVersion
<1>2. /\ \A v \in 1 .. currentVersion :
             /\ objectsToExclude'[v] = objectsToExclude[v]
             /\ committed'[v] = committed[v]
      /\ objectsToExclude'[currentVersion'] = excl
      /\ committed'[currentVersion'] = after
  BY <1>1 DEF TypeOK, VersionNumber, IncrementVersion
<1>3. \A u \in Writer : wpc'[u] = IF u = w THEN pc ELSE "idle"
  BY OthersIdle DEF TypeOK
<1>4. previousVersion'[w] = currentVersion /\ lazyExclude' = {}
  BY DEF IncrementVersion, TypeOK, ExclusionInv
<1>5. MutexInv'
  BY <1>3 DEF MutexInv, Draining
<1>6. \A v \in 1 .. currentVersion : v \notin writeLocked => v = currentVersion
  BY OthersIdle DEF LockInv, Draining
<1>7. LockInv'
  <2>1. \A v \in writeLocked' : v < currentVersion'
    BY <1>1 DEF LockInv, TypeOK, VersionNumber
  <2>2. \A u \in Writer : wpc'[u] \in Draining => previousVersion'[u] + 1 = currentVersion'
    BY <1>1, <1>3, <1>4 DEF Draining
  <2>3. ASSUME NEW v \in 1 .. currentVersion', v \notin writeLocked'
        PROVE  \/ v = currentVersion'
               \/ \E u \in Writer : wpc'[u] \in Draining /\ v = previousVersion'[u]
    BY <2>3, <1>1, <1>3, <1>4, <1>6
  <2> QED BY <2>1, <2>2, <2>3 DEF LockInv
<1>8. ExclusionInv'
  <2>1. writeMutex' # NoWriter
    BY NullAssumption DEF MutexInv
  <2>2. \A u \in Writer : ExclusionInv!3!(u)'
    BY <1>2, <1>3 DEF Draining
  <2> QED BY <1>4, <2>1, <2>2 DEF ExclusionInv
<1> QED BY <1>1, <1>2, <1>5, <1>6, <1>7, <1>8

\* It has waited for the readers of the previous version.
LEMMA DrainControl ==
    ASSUME ControlInv, NEW w \in Writer, Drain(w)
    PROVE  /\ MutexInv' /\ LockInv' /\ ExclusionInv'
           /\ \A v \in 1 .. currentVersion : v \notin writeLocked' => v = currentVersion
           /\ \A u \in Writer : u # w => wpc[u] = "idle" /\ wpc'[u] = "idle"
           /\ wpc[w] \in Draining
           /\ wpc'[w] = CASE wpc[w] = "drainAdd" -> "adding"
                           [] wpc[w] = "drainRemove" -> "removing"
                           [] wpc[w] = "drainEmpty" -> "returning"
                           [] OTHER -> "throwing"
           /\ \A p \in Place : todo'[w][p] = CASE wpc[w] = "drainAdd" -> objectsToAdd[w]
                                                [] wpc[w] = "drainRemove" -> objectsToRemove[w]
                                                [] OTHER -> {}
<1> USE DEF ControlInv
<1>1. /\ wpc[w] \in Draining
      /\ \A u \in Writer : u # w => wpc[u] = "idle" /\ wpc'[u] = "idle"
      /\ wpc'[w] = CASE wpc[w] = "drainAdd" -> "adding"
                      [] wpc[w] = "drainRemove" -> "removing"
                      [] wpc[w] = "drainEmpty" -> "returning"
                      [] OTHER -> "throwing"
  BY OthersIdle DEF Drain, Proceed, Draining, TypeOK
<1>2. MutexInv'
  BY <1>1 DEF Drain, Proceed, MutexInv, Draining
<1>3. \A u \in Writer : wpc'[u] \notin Draining
  BY <1>1 DEF Draining
<1>4. ASSUME NEW v \in 1 .. currentVersion, v \notin writeLocked'
      PROVE  v = currentVersion
  BY <1>1, <1>4 DEF Drain, Proceed, Draining, LockInv
<1>5. LockInv'
  <2>1. /\ currentVersion \in Nat /\ previousVersion[w] \in Nat
        /\ previousVersion[w] + 1 = currentVersion
    BY <1>1, BoundAssumption DEF LockInv, TypeOK, VersionNumber
  <2>2. \A v \in writeLocked' : v < currentVersion'
    BY <2>1 DEF Drain, Proceed, LockInv
  <2> QED BY <1>3, <1>4, <2>2 DEF LockInv, Drain, Proceed
<1>6. ExclusionInv'
  <2>1. \A u \in Writer : ExclusionInv!3!(u)'
    BY <1>1 DEF Drain, Proceed, ExclusionInv
  <2> QED BY <2>1 DEF Drain, Proceed, ExclusionInv
<1>7. \A p \in Place : todo'[w][p] = CASE wpc[w] = "drainAdd" -> objectsToAdd[w]
                                        [] wpc[w] = "drainRemove" -> objectsToRemove[w]
                                        [] OTHER -> {}
  BY DEF Drain, Proceed, TypeOK
<1> QED BY <1>1, <1>2, <1>4, <1>5, <1>6, <1>7

\* It leaves writeMutex.
LEMMA ReturnControl ==
    ASSUME ControlInv, NEW w \in Writer, Return(w)
    PROVE  MutexInv' /\ LockInv' /\ ExclusionInv'
<1> USE DEF ControlInv
<1>1. /\ wpc[w] \in {"returning", "throwing"}
      /\ \A u \in Writer : wpc'[u] = "idle" /\ (u # w => wpc[u] = "idle")
  BY OthersIdle DEF Return, TypeOK
<1>2. MutexInv'
  BY <1>1, NullAssumption DEF Return, MutexInv
<1>3. LockInv'
  BY <1>1 DEF Return, LockInv, Draining
<1>4. ExclusionInv'
  BY <1>1 DEF Return, ExclusionInv
<1> QED BY <1>2, <1>3, <1>4

\* Nothing of this depends on connections or on what the places hold.
LEMMA SameControl ==
    ASSUME ControlInv,
           UNCHANGED <<currentVersion, objectsToExclude, lazyExclude, writeLocked, writeMutex,
                       wpc, objectsToAdd, objectsToRemove, previousVersion>>
    PROVE  MutexInv' /\ LockInv' /\ ExclusionInv'
BY DEF ControlInv, MutexInv, LockInv, ExclusionInv

-----------------------------------------------------------------------------
(* All or nothing                                                          *)

\* At most one request is open.
LEMMA OthersDisconnected ==
    ASSUME TransactionInv, NEW w \in Writer, wpc[w] # "idle"
    PROVE  /\ \A u \in Writer : u # w => wpc[u] = "idle" /\ ~connected[u]
           /\ ~connected[w] => \A p \in Persisted : contents[p] = database[p]
<1>1. \A u \in Writer : u # w => wpc[u] = "idle"
  BY OthersIdle DEF TransactionInv
<1>2. \A u \in Writer : u # w => ~connected[u]
  BY <1>1 DEF TransactionInv, RequestInv, Uncommitted
<1> QED BY <1>1, <1>2 DEF TransactionInv, DatabaseInv

\* A writer's step can only disturb what is said about that writer and the database.
LEMMA TransactionFrame ==
    ASSUME TransactionInv, NEW w \in Writer,
           \A u \in Writer : u # w =>
               /\ wpc'[u] = "idle" /\ ~connected'[u]
               /\ objectsToAdd'[u] = objectsToAdd[u] /\ objectsToRemove'[u] = objectsToRemove[u],
           \A p \in Persisted : database'[p] = database'[Store],
           ~connected'[w] => \A p \in Persisted : contents'[p] = database'[p],
           RequestInv!(w)', DatabaseInv!3!(w)', \A p \in Persisted : TableInv!(w, p)'
    PROVE  RequestInv' /\ DatabaseInv' /\ TableInv'
<1>1. \A u \in Writer : RequestInv!(u)'
  BY DEF TransactionInv, RequestInv
<1>2. \A u \in Writer : DatabaseInv!3!(u)'
  BY DEF Uncommitted
<1>3. \A u \in Writer, p \in Persisted : TableInv!(u, p)'
  OBVIOUS
<1>4. RequestInv'
  BY <1>1 DEF RequestInv
<1>5. DatabaseInv'
  BY <1>2 DEF DatabaseInv
<1>6. TableInv'
  BY <1>3 DEF TableInv
<1> QED BY <1>4, <1>5, <1>6

\* update() is called when the tables hold what is committed.
LEMMA TransactionUpdate ==
    ASSUME TransactionInv, PTypeOK', NEW w \in Writer,
           NEW rem \in SUBSET Object, NEW add \in SUBSET Object,
           NEW iterables \in SUBSET {"adding", "removing"}, PUpdate(w, rem, add, iterables)
    PROVE  TransactionInv'
<1>1. /\ MutexInv' /\ LockInv' /\ ExclusionInv'
  BY EnterControl DEF PUpdate, TransactionInv, PTypeOK, ControlInv
<1>2. \A u \in Writer : /\ wpc[u] = "idle" /\ ~connected[u] /\ ~connected'[u]
                        /\ wpc'[u] = IF u = w THEN "entered" ELSE "idle"
  <2>1. \A u \in Writer : /\ wpc[u] = "idle"
                          /\ wpc'[u] = IF u = w THEN "entered" ELSE "idle"
    BY NullAssumption DEF PUpdate, Update, TransactionInv, MutexInv, PTypeOK, TypeOK
  <2> QED BY <2>1 DEF PUpdate, TransactionInv, RequestInv, Uncommitted
<1>3. /\ objectsToAdd'[w] \cap objectsToRemove'[w] = {}
      /\ \A u \in Writer : u # w => /\ objectsToAdd'[u] = objectsToAdd[u]
                                    /\ objectsToRemove'[u] = objectsToRemove[u]
      /\ before'[w] = database[Store]
      /\ UNCHANGED <<contents, database, connected>>
  BY DEF PUpdate, Update, TransactionInv, PTypeOK, TypeOK
<1>4. \A p \in Persisted : contents[p] = database[p] /\ database[p] = database[Store]
  BY <1>2 DEF TransactionInv, DatabaseInv
<1>5. RequestInv!(w)'
  BY <1>2, <1>3
<1>6. DatabaseInv!3!(w)'
  BY <1>2, <1>3
<1>7. \A p \in Persisted : TableInv!(w, p)'
  BY <1>2, <1>3, <1>4
<1>8. RequestInv' /\ DatabaseInv' /\ TableInv'
  BY <1>2, <1>3, <1>4, <1>5, <1>6, <1>7, TransactionFrame
<1>9. ConnectionInv'
  BY DEF PUpdate, Update, TransactionInv, ConnectionInv
<1> QED BY <1>1, <1>8, <1>9 DEF TransactionInv

\* The connection is opened: the transaction begins with what is committed.
LEMMA TransactionOpen ==
    ASSUME TransactionInv, PTypeOK', NEW w \in Writer, OpenWriteConnection(w)
    PROVE  TransactionInv'
<1>1. /\ wpc[w] \in {"entered", "adding", "removing"} /\ ~connected[w] /\ connected'[w]
      /\ UNCHANGED vars /\ UNCHANGED <<database, connection, snapshot, before>>
      /\ \A u \in Writer : u # w => connected'[u] = connected[u]
  BY DEF OpenWriteConnection, TransactionInv, PTypeOK
<1>2. MutexInv' /\ LockInv' /\ ExclusionInv'
  BY <1>1, SameControl DEF vars, TransactionInv, PTypeOK, ControlInv
<1>3. \A u \in Writer : u # w => wpc[u] = "idle" /\ ~connected[u]
  BY <1>1, OthersDisconnected
<1>4. RequestInv!(w)'
  BY <1>1 DEF vars, TransactionInv, RequestInv, Uncommitted
<1>5. DatabaseInv!3!(w)'
  BY <1>1 DEF vars, TransactionInv, DatabaseInv, Uncommitted
<1>6. \A p \in Persisted : TableInv!(w, p)'
  BY <1>1 DEF vars, TransactionInv, TableInv, After, TurnedDown
<1>7. RequestInv' /\ DatabaseInv' /\ TableInv'
  <2>1. \A p \in Persisted : database'[p] = database'[Store]
    BY <1>1 DEF TransactionInv, DatabaseInv
  <2> QED BY <1>1, <1>3, <1>4, <1>5, <1>6, <2>1, TransactionFrame DEF vars
<1>8. ConnectionInv'
  BY <1>1 DEF vars, TransactionInv, ConnectionInv
<1> QED BY <1>2, <1>7, <1>8 DEF TransactionInv

\* update() returns early: nothing has been changed.
LEMMA TransactionReturnsEarly ==
    ASSUME TransactionInv, PTypeOK', NEW w \in Writer, PUpdateReturnsEarly(w)
    PROVE  TransactionInv'
<1> DEFINE add == objectsToAdd[w]
           rem == objectsToRemove[w]
<1>1. /\ wpc[w] = "entered" /\ wpc' = [wpc EXCEPT ![w] = "returning"] /\ wpc'[w] = "returning"
      /\ connected[w] \/ add \cup rem = {}
      /\ add \cup rem = {} \/ ~(rem \subseteq contents[Store])
      /\ UNCHANGED <<contents, versionVars, writeLocked, writeMutex, objectsToAdd,
                     objectsToRemove, previousVersion, readerVars>>
      /\ UNCHANGED persistenceVars
  BY DEF PUpdateReturnsEarly, UpdateReturnsEarly, TransactionInv, PTypeOK, TypeOK
<1>2. MutexInv' /\ LockInv' /\ ExclusionInv'
  BY <1>1, MoveControl DEF TransactionInv, PTypeOK, ControlInv, Draining, ExclusionInv
<1>3. \A u \in Writer : u # w => wpc[u] = "idle" /\ ~connected[u] /\ wpc'[u] = "idle"
  BY <1>1, OthersDisconnected DEF TransactionInv, PTypeOK, TypeOK
<1>4. /\ database[Store] = before[w]
      /\ \A p \in Persisted : database[p] = database[Store] /\ contents[p] = before[w]
      /\ Store \in Persisted
  BY <1>1, PersistedAssumption
  DEF TransactionInv, DatabaseInv, TableInv, Uncommitted
<1>5. before[w] = After(w) \/ TurnedDown(w)
  BY <1>1, <1>4 DEF After, TurnedDown
<1>6. RequestInv!(w)'
  BY <1>1 DEF TransactionInv, RequestInv, Uncommitted
<1>7. After(w)' = After(w) /\ TurnedDown(w)' = TurnedDown(w)
  BY <1>1 DEF After, TurnedDown
<1>8. DatabaseInv!3!(w)'
  BY <1>1, <1>4, <1>5, <1>7 DEF Uncommitted
<1>9. \A p \in Persisted : TableInv!(w, p)'
  BY <1>1, <1>4, <1>5, <1>7
<1>10. ~connected'[w] => \A p \in Persisted : contents'[p] = database'[p]
  BY <1>1, <1>4
<1>11. RequestInv' /\ DatabaseInv' /\ TableInv'
  BY <1>1, <1>3, <1>4, <1>6, <1>8, <1>9, <1>10, TransactionFrame
<1>12. ConnectionInv'
  BY <1>1 DEF TransactionInv, ConnectionInv
<1> QED BY <1>2, <1>11, <1>12 DEF TransactionInv

\* A version is published when a phase is over in every table.
LEMMA TransactionPublish ==
    ASSUME TransactionInv, PTypeOK', NEW w \in Writer,
           BeginAdd(w) \/ BeginRemove(w) \/ BeginEmpty(w), UNCHANGED persistenceVars
    PROVE  TransactionInv'
<1> DEFINE add == objectsToAdd[w]
           rem == objectsToRemove[w]
<1>1. /\ UNCHANGED <<contents, writeLocked, writeMutex, objectsToAdd, objectsToRemove, todo,
                     readerVars>>
      /\ wpc[w] \in {"entered", "adding", "removing"}
      /\ wpc \in [Writer -> WriterPC]
      /\ add \in SUBSET Object /\ rem \in SUBSET Object /\ add \cap rem = {}
      /\ committed[currentVersion] \in SUBSET Object /\ Applied(w) \in SUBSET Object
      /\ ControlInv
      /\ Persisted \subseteq Place /\ Store \in Persisted
  BY PersistedAssumption
  DEF BeginAdd, BeginRemove, BeginEmpty, TransactionInv, PTypeOK, TypeOK, RequestInv,
      ControlInv, Applied
<1>2. \A u \in Writer : u # w => wpc[u] = "idle" /\ ~connected[u]
  BY <1>1, OthersDisconnected
<1>3. /\ database[Store] = before[w]
      /\ \A p \in Persisted : database[p] = database[Store]
      /\ ~connected[w] => \A p \in Persisted : contents[p] = database[p]
  BY <1>1, OthersDisconnected DEF TransactionInv, DatabaseInv, Uncommitted
<1>4. connected[w] => Uncommitted(w)
  BY DEF TransactionInv, RequestInv
<1>5. After(w)' = After(w)
  BY <1>1 DEF After
<1>6. CASE BeginAdd(w)
  <2>1. /\ wpc[w] = "entered" /\ wpc' = [wpc EXCEPT ![w] = "drainAdd"] /\ wpc'[w] = "drainAdd"
        /\ IncrementVersion(w, add, FALSE, committed[currentVersion]) /\ add # {}
    BY <1>1, <1>6 DEF BeginAdd
  <2>2. MutexInv' /\ LockInv' /\ ExclusionInv'
    BY <1>1, <2>1, PublishControl DEF Draining
  <2>3. RequestInv!(w)'
    BY <1>1, <2>1 DEF TransactionInv, RequestInv, Uncommitted
  <2>4. DatabaseInv!3!(w)'
    BY <1>3, <2>1
  <2>5. \A p \in Persisted : TableInv!(w, p)'
    BY <1>1, <2>1 DEF TransactionInv, TableInv
  <2>6. RequestInv' /\ DatabaseInv' /\ TableInv'
    BY <1>1, <1>2, <1>3, <2>1, <2>3, <2>4, <2>5, TransactionFrame
  <2>7. ConnectionInv'
    BY <1>1 DEF TransactionInv, ConnectionInv
  <2> QED BY <2>2, <2>6, <2>7 DEF TransactionInv
<1>7. CASE BeginRemove(w)
  <2>1. /\ \/ wpc[w] = "entered" /\ add = {}
           \/ wpc[w] = "adding" /\ \A p \in Place : todo[w][p] = {}
        /\ rem # {}
        /\ wpc' = [wpc EXCEPT ![w] = "drainRemove"] /\ wpc'[w] = "drainRemove"
        /\ IncrementVersion(w, rem, FALSE, Applied(w))
    BY <1>1, <1>7 DEF BeginRemove, NothingTodo
  <2>2. MutexInv' /\ LockInv' /\ ExclusionInv'
    BY <1>1, <2>1, PublishControl DEF Draining
  <2>3. connected[w] \/ add = {}
    BY <1>1, <2>1 DEF TransactionInv, RequestInv
  <2>4. RequestInv!(w)'
    BY <1>1, <2>1, <2>3 DEF Uncommitted
  <2>5. DatabaseInv!3!(w)'
    BY <1>3, <2>1
  <2>6. \A p \in Persisted : contents[p] = before[w] \cup add
    BY <1>1, <2>1 DEF TransactionInv, TableInv
  <2>7. \A p \in Persisted : TableInv!(w, p)'
    BY <1>1, <2>1, <2>6
  <2>8. RequestInv' /\ DatabaseInv' /\ TableInv'
    BY <1>1, <1>2, <1>3, <2>1, <2>4, <2>5, <2>7, TransactionFrame
  <2>9. ConnectionInv'
    BY <1>1 DEF TransactionInv, ConnectionInv
  <2> QED BY <2>2, <2>8, <2>9 DEF TransactionInv
<1>8. CASE BeginEmpty(w)
  <2>1. /\ wpc[w] = "removing" \/ (wpc[w] = "adding" /\ rem = {})
        /\ \A p \in Place : todo[w][p] = {}
        /\ wpc' = [wpc EXCEPT ![w] = "drainEmpty"] /\ wpc'[w] = "drainEmpty"
        /\ IncrementVersion(w, {}, FALSE, Applied(w))
    BY <1>1, <1>8 DEF BeginEmpty, NothingTodo
  <2>2. MutexInv' /\ LockInv' /\ ExclusionInv'
    BY <1>1, <2>1, PublishControl DEF Draining
  <2>3. connected[w]
    BY <1>1, <2>1 DEF TransactionInv, RequestInv
  <2>4. RequestInv!(w)'
    BY <1>1, <2>1, <2>3 DEF Uncommitted
  <2>5. DatabaseInv!3!(w)'
    BY <1>3, <2>1
  <2>6. \A p \in Persisted : contents[p] = After(w)
    BY <1>1, <2>1 DEF TransactionInv, TableInv, After
  <2>7. \A p \in Persisted : TableInv!(w, p)'
    BY <1>1, <1>5, <2>1, <2>6
  <2>8. RequestInv' /\ DatabaseInv' /\ TableInv'
    BY <1>1, <1>2, <1>3, <2>1, <2>4, <2>5, <2>7, TransactionFrame
  <2>9. ConnectionInv'
    BY <1>1 DEF TransactionInv, ConnectionInv
  <2> QED BY <2>2, <2>8, <2>9 DEF TransactionInv
<1> QED BY <1>6, <1>7, <1>8

\* A phase begins with the whole batch to be done in every table.
LEMMA TransactionDrain ==
    ASSUME TransactionInv, PTypeOK', NEW w \in Writer, Drain(w), UNCHANGED persistenceVars
    PROVE  TransactionInv'
<1> DEFINE add == objectsToAdd[w]
           rem == objectsToRemove[w]
<1>1. /\ UNCHANGED <<contents, objectsToAdd, objectsToRemove, readerVars>>
      /\ Persisted \subseteq Place /\ Store \in Persisted
      /\ add \cap rem = {}
  BY PersistedAssumption DEF Drain, Proceed, TransactionInv, RequestInv
<1>2. /\ MutexInv' /\ LockInv' /\ ExclusionInv'
      /\ \A u \in Writer : u # w => wpc[u] = "idle" /\ wpc'[u] = "idle"
      /\ wpc[w] \in Draining
      /\ wpc'[w] = CASE wpc[w] = "drainAdd" -> "adding"
                      [] wpc[w] = "drainRemove" -> "removing"
                      [] wpc[w] = "drainEmpty" -> "returning"
                      [] OTHER -> "throwing"
      /\ \A p \in Place : todo'[w][p] = CASE wpc[w] = "drainAdd" -> add
                                           [] wpc[w] = "drainRemove" -> rem
                                           [] OTHER -> {}
  BY DrainControl DEF TransactionInv, PTypeOK, ControlInv
<1>3. /\ database[Store] = before[w]
      /\ \A p \in Persisted : database[p] = database[Store]
      /\ \A u \in Writer : u # w => ~connected[u]
      /\ ~connected[w] => \A p \in Persisted : contents[p] = database[p]
  BY <1>2, OthersDisconnected DEF TransactionInv, DatabaseInv, Uncommitted, Draining
<1>4. After(w)' = After(w) /\ TurnedDown(w)' = TurnedDown(w)
  BY <1>1 DEF After, TurnedDown
<1>5. CASE wpc[w] = "drainAdd"
  <2>1. wpc'[w] = "adding" /\ \A p \in Place : todo'[w][p] = add
    BY <1>2, <1>5
  <2>2. add # {}
    BY <1>5 DEF TransactionInv, RequestInv
  <2>3. RequestInv!(w)'
    BY <1>1, <2>1, <2>2 DEF Uncommitted
  <2>4. DatabaseInv!3!(w)'
    BY <1>3, <2>1
  <2>5. \A p \in Persisted : TableInv!(w, p)'
    BY <1>1, <1>5, <2>1 DEF TransactionInv, TableInv
  <2> QED BY <1>1, <1>2, <1>3, <2>3, <2>4, <2>5, TransactionFrame DEF TransactionInv, ConnectionInv
<1>6. CASE wpc[w] = "drainRemove"
  <2>1. wpc'[w] = "removing" /\ \A p \in Place : todo'[w][p] = rem
    BY <1>2, <1>6
  <2>2. rem # {} /\ (connected[w] \/ add = {})
    BY <1>6 DEF TransactionInv, RequestInv
  <2>3. RequestInv!(w)'
    BY <1>1, <2>1, <2>2 DEF Uncommitted
  <2>4. DatabaseInv!3!(w)'
    BY <1>3, <2>1
  <2>5. \A p \in Persisted : TableInv!(w, p)'
    BY <1>1, <1>6, <2>1 DEF TransactionInv, TableInv
  <2> QED BY <1>1, <1>2, <1>3, <2>3, <2>4, <2>5, TransactionFrame DEF TransactionInv, ConnectionInv
<1>7. CASE wpc[w] = "drainEmpty"
  <2>1. wpc'[w] = "returning" /\ connected[w]
    BY <1>2, <1>7 DEF TransactionInv, RequestInv
  <2>2. RequestInv!(w)'
    BY <1>1, <2>1 DEF Uncommitted
  <2>3. DatabaseInv!3!(w)'
    BY <1>3, <2>1
  <2>4. \A p \in Persisted : TableInv!(w, p)'
    BY <1>1, <1>4, <1>7, <2>1 DEF TransactionInv, TableInv
  <2> QED BY <1>1, <1>2, <1>3, <2>2, <2>3, <2>4, TransactionFrame DEF TransactionInv, ConnectionInv
<1>8. CASE wpc[w] = "drainRestore"
  <2>1. wpc'[w] = "throwing" /\ ~connected[w]
    BY <1>2, <1>8 DEF TransactionInv, RequestInv
  <2>2. RequestInv!(w)'
    BY <1>1, <2>1 DEF Uncommitted
  <2>3. DatabaseInv!3!(w)'
    BY <1>3, <2>1 DEF Uncommitted
  <2>4. \A p \in Persisted : TableInv!(w, p)'
    BY <2>1
  <2> QED BY <1>1, <1>2, <1>3, <2>2, <2>3, <2>4, TransactionFrame DEF TransactionInv, ConnectionInv
<1> QED BY <1>2, <1>5, <1>6, <1>7, <1>8 DEF Draining

\* One object is changed in one place: in a table only with the connection.
LEMMA TransactionChangeOne ==
    ASSUME TransactionInv, PTypeOK', NEW w \in Writer, NEW q \in Place, NEW o \in Object,
           PChangeOne(w, q, o)
    PROVE  TransactionInv'
<1> DEFINE add == objectsToAdd[w]
           rem == objectsToRemove[w]
<1>1. /\ wpc[w] \in {"adding", "removing"} /\ wpc' = wpc
      /\ q \in Persisted => connected[w]
      /\ o \in todo[w][q]
      /\ UNCHANGED <<versionVars, writeLocked, writeMutex, objectsToAdd, objectsToRemove,
                     previousVersion, readerVars>>
      /\ UNCHANGED persistenceVars
      /\ Persisted \subseteq Place /\ Store \in Persisted
  BY PersistedAssumption DEF PChangeOne, ChangeOne, MayChange
<1>2. /\ contents'[q] = IF wpc[w] = "adding" THEN contents[q] \cup {o} ELSE contents[q] \ {o}
      /\ todo'[w][q] = todo[w][q] \ {o}
      /\ \A p \in Place : p # q => contents'[p] = contents[p] /\ todo'[w][p] = todo[w][p]
  BY DEF PChangeOne, ChangeOne, TransactionInv, PTypeOK, TypeOK
<1>3. MutexInv' /\ LockInv' /\ ExclusionInv'
  BY <1>1, SameControl DEF TransactionInv, PTypeOK, ControlInv
<1>4. /\ \A u \in Writer : u # w => wpc[u] = "idle" /\ ~connected[u]
      /\ ~connected[w] => \A p \in Persisted : contents[p] = database[p]
  BY <1>1, OthersDisconnected
<1>5. RequestInv!(w)'
  <2>1. ~connected[w] => todo'[w][Store] = todo[w][Store]
    BY <1>1, <1>2
  <2> QED BY <1>1, <2>1 DEF TransactionInv, RequestInv, Uncommitted
<1>6. DatabaseInv!3!(w)'
  BY <1>1 DEF TransactionInv, DatabaseInv, Uncommitted
<1>7. ASSUME NEW p \in Persisted
      PROVE  TableInv!(w, p)'
  <2>1. CASE p # q
    BY <1>1, <1>2, <2>1 DEF TransactionInv, TableInv
  <2>2. CASE p = q /\ wpc[w] = "adding"
    <3>1. /\ todo[w][p] \subseteq add
          /\ contents[p] = before[w] \cup (add \ todo[w][p])
      BY <2>2 DEF TransactionInv, TableInv
    <3>2. /\ todo'[w][p] \subseteq add
          /\ contents'[p] = before[w] \cup (add \ todo'[w][p])
      BY <1>1, <1>2, <2>2, <3>1
    <3> QED BY <1>1, <2>2, <3>2
  <2>3. CASE p = q /\ wpc[w] = "removing"
    <3>1. /\ todo[w][p] \subseteq rem
          /\ contents[p] = (before[w] \cup add) \ (rem \ todo[w][p])
      BY <2>3 DEF TransactionInv, TableInv
    <3>2. /\ todo'[w][p] \subseteq rem
          /\ contents'[p] = (before[w] \cup add) \ (rem \ todo'[w][p])
      BY <1>1, <1>2, <2>3, <3>1
    <3> QED BY <1>1, <2>3, <3>2
  <2> QED BY <1>1, <2>1, <2>2, <2>3
<1>8. ~connected'[w] => \A p \in Persisted : contents'[p] = database'[p]
  BY <1>1, <1>2, <1>4
<1>9. RequestInv' /\ DatabaseInv' /\ TableInv'
  <2>1. \A p \in Persisted : database'[p] = database'[Store]
    BY <1>1 DEF TransactionInv, DatabaseInv
  <2> QED BY <1>1, <1>4, <1>5, <1>6, <1>7, <1>8, <2>1, TransactionFrame
<1>10. ConnectionInv'
  BY <1>1 DEF TransactionInv, ConnectionInv
<1> QED BY <1>3, <1>9, <1>10 DEF TransactionInv

\* The index or the store throws: the request is still open.
LEMMA TransactionFail ==
    ASSUME TransactionInv, PTypeOK', NEW w \in Writer, PFail(w)
    PROVE  TransactionInv'
<1>1. /\ wpc[w] \in {"adding", "removing"}
      /\ wpc' = [wpc EXCEPT ![w] = "failed"] /\ wpc'[w] = "failed"
      /\ UNCHANGED <<contents, versionVars, writeLocked, writeMutex, objectsToAdd,
                     objectsToRemove, previousVersion, readerVars>>
      /\ UNCHANGED persistenceVars
  BY DEF PFail, Fail, TransactionInv, PTypeOK, TypeOK
<1>2. MutexInv' /\ LockInv' /\ ExclusionInv'
  BY <1>1, MoveControl DEF TransactionInv, PTypeOK, ControlInv, Draining
<1>3. /\ \A u \in Writer : u # w => wpc[u] = "idle" /\ ~connected[u] /\ wpc'[u] = "idle"
      /\ ~connected[w] => \A p \in Persisted : contents[p] = database[p]
  BY <1>1, OthersDisconnected DEF TransactionInv, PTypeOK, TypeOK
<1>4. RequestInv!(w)'
  BY <1>1 DEF TransactionInv, RequestInv, Uncommitted
<1>5. DatabaseInv!3!(w)'
  BY <1>1 DEF TransactionInv, DatabaseInv, Uncommitted
<1>6. \A p \in Persisted : TableInv!(w, p)'
  BY <1>1
<1>7. RequestInv' /\ DatabaseInv' /\ TableInv'
  <2>1. \A p \in Persisted : database'[p] = database'[Store]
    BY <1>1 DEF TransactionInv, DatabaseInv
  <2> QED BY <1>1, <1>3, <1>4, <1>5, <1>6, <2>1, TransactionFrame
<1>8. ConnectionInv'
  BY <1>1 DEF TransactionInv, ConnectionInv
<1> QED BY <1>2, <1>7, <1>8 DEF TransactionInv

\* The request scope is rolled back.
LEMMA TransactionRollBack ==
    ASSUME TransactionInv, PTypeOK', NEW w \in Writer, RollBack(w)
    PROVE  TransactionInv'
<1>1. /\ wpc[w] = "failed" /\ wpc' = wpc /\ ~connected'[w]
      /\ contents' = RolledBack
      /\ \A u \in Writer : u # w => connected'[u] = connected[u]
      /\ UNCHANGED <<versionVars, writeLocked, writeMutex, objectsToAdd, objectsToRemove,
                     previousVersion, readerVars, database, connection, snapshot, before>>
      /\ Persisted \subseteq Place /\ Store \in Persisted
  BY PersistedAssumption DEF RollBack, TransactionInv, PTypeOK
<1>2. MutexInv' /\ LockInv' /\ ExclusionInv'
  BY <1>1, SameControl DEF TransactionInv, PTypeOK, ControlInv
<1>3. \A u \in Writer : u # w => wpc[u] = "idle" /\ ~connected[u]
  BY <1>1, OthersDisconnected
<1>4. RequestInv!(w)'
  BY <1>1 DEF TransactionInv, RequestInv
<1>5. DatabaseInv!3!(w)'
  BY <1>1 DEF TransactionInv, DatabaseInv, Uncommitted
<1>6. \A p \in Persisted : TableInv!(w, p)' /\ contents'[p] = database'[p]
  BY <1>1 DEF RolledBack
<1>7. RequestInv' /\ DatabaseInv' /\ TableInv'
  <2>1. \A p \in Persisted : database'[p] = database'[Store]
    BY <1>1 DEF TransactionInv, DatabaseInv
  <2> QED BY <1>1, <1>3, <1>4, <1>5, <1>6, <2>1, TransactionFrame
<1>8. ConnectionInv'
  BY <1>1 DEF TransactionInv, ConnectionInv
<1> QED BY <1>2, <1>7, <1>8 DEF TransactionInv

\* restoreEmptyVersionAfterFailure runs with the request closed.
LEMMA TransactionRestore ==
    ASSUME TransactionInv, PTypeOK', NEW w \in Writer, PRestoreEmptyVersionAfterFailure(w)
    PROVE  TransactionInv'
<1>1. /\ wpc[w] = "failed" /\ ~connected[w]
      /\ wpc' = [wpc EXCEPT ![w] = "drainRestore"] /\ wpc'[w] = "drainRestore"
      /\ IncrementVersion(w, {}, FALSE, before[w]) /\ before[w] \in SUBSET Object
      /\ UNCHANGED <<contents, writeLocked, writeMutex, objectsToAdd, objectsToRemove,
                     readerVars>>
      /\ UNCHANGED persistenceVars
  BY DEF PRestoreEmptyVersionAfterFailure, TransactionInv, PTypeOK, TypeOK
<1>2. MutexInv' /\ LockInv' /\ ExclusionInv'
  BY <1>1, PublishControl DEF TransactionInv, PTypeOK, ControlInv, Draining
<1>3. /\ \A u \in Writer : u # w => wpc[u] = "idle" /\ ~connected[u] /\ wpc'[u] = "idle"
      /\ \A p \in Persisted : contents[p] = database[p]
  BY <1>1, OthersDisconnected DEF TransactionInv, PTypeOK, TypeOK
<1>4. RequestInv!(w)'
  BY <1>1 DEF TransactionInv, RequestInv
<1>5. DatabaseInv!3!(w)'
  BY <1>1 DEF TransactionInv, DatabaseInv, Uncommitted
<1>6. \A p \in Persisted : TableInv!(w, p)'
  BY <1>1
<1>7. RequestInv' /\ DatabaseInv' /\ TableInv'
  <2>1. \A p \in Persisted : database'[p] = database'[Store]
    BY <1>1 DEF TransactionInv, DatabaseInv
  <2> QED BY <1>1, <1>3, <1>4, <1>5, <1>6, <2>1, TransactionFrame
<1>8. ConnectionInv'
  BY <1>1 DEF TransactionInv, ConnectionInv
<1> QED BY <1>2, <1>7, <1>8 DEF TransactionInv

\* The tables of a request that is about to be committed hold the whole transaction,
\* or nothing of it.
LEMMA BeforeCommit ==
    ASSUME TransactionInv, NEW w \in Writer, wpc[w] = "returning", connected[w]
    PROVE  /\ database[Store] = before[w]
           /\ \/ \A p \in Persisted : contents[p] = After(w)
              \/ TurnedDown(w) /\ \A p \in Persisted : contents[p] = before[w]
<1>1. database[Store] = before[w]
  BY DEF TransactionInv, DatabaseInv, Uncommitted
<1>2. \A p \in Persisted : /\ contents[p] = contents[Store]
                           /\ \/ contents[p] = After(w)
                              \/ contents[p] = before[w] /\ TurnedDown(w)
  BY DEF TransactionInv, TableInv
<1> QED BY <1>1, <1>2

\* The request scope is committed.
LEMMA TransactionCommit ==
    ASSUME TransactionInv, PTypeOK', NEW w \in Writer, Commit(w)
    PROVE  TransactionInv'
<1>1. /\ wpc[w] = "returning" /\ connected[w] /\ ~connected'[w]
      /\ database' = [p \in Persisted |-> contents[p]]
      /\ \A u \in Writer : u # w => connected'[u] = connected[u]
      /\ UNCHANGED <<contents, versionVars, writeLocked, writeMutex, objectsToAdd,
                     objectsToRemove, previousVersion, readerVars, connection, snapshot,
                     before>>
      /\ Store \in Persisted
  BY PersistedAssumption DEF Commit, TransactionInv, PTypeOK
<1>2. PICK pc \in {"returning", "throwing"} : wpc' = [wpc EXCEPT ![w] = pc]
  BY DEF Commit
<1>3. wpc'[w] = pc
  BY <1>2 DEF TransactionInv, PTypeOK, TypeOK
<1>4. MutexInv' /\ LockInv' /\ ExclusionInv'
  BY <1>1, <1>2, MoveControl DEF TransactionInv, PTypeOK, ControlInv, Draining, ExclusionInv
<1>5. \A u \in Writer : u # w => wpc[u] = "idle" /\ ~connected[u] /\ wpc'[u] = "idle"
  BY <1>1, <1>2, OthersDisconnected DEF TransactionInv, PTypeOK, TypeOK
<1>6. RequestInv!(w)'
  BY <1>1, <1>3 DEF TransactionInv, RequestInv
<1>7. After(w)' = After(w) /\ TurnedDown(w)' = TurnedDown(w)
  BY <1>1 DEF After, TurnedDown
<1>8. \/ \A p \in Persisted : database'[p] = After(w)
      \/ TurnedDown(w) /\ \A p \in Persisted : database'[p] = before[w]
  BY <1>1, BeforeCommit
<1>9. DatabaseInv!3!(w)'
  BY <1>1, <1>3, <1>7, <1>8 DEF Uncommitted
<1>10. \A p \in Persisted : TableInv!(w, p)'
  BY <1>1, <1>3
<1>11. RequestInv' /\ DatabaseInv' /\ TableInv'
  <2>1. \A p \in Persisted : database'[p] = database'[Store] /\ contents'[p] = database'[p]
    BY <1>1, <1>8
  <2> QED BY <1>1, <1>5, <1>6, <1>9, <1>10, <2>1, TransactionFrame
<1>12. ConnectionInv'
  BY <1>1 DEF TransactionInv, ConnectionInv
<1> QED BY <1>4, <1>11, <1>12 DEF TransactionInv

\* The commit throws, or the connection for STRICT_REPLACEMENT's check cannot be
\* opened: the tables are as before.
LEMMA TransactionThrows ==
    ASSUME TransactionInv, PTypeOK', NEW w \in Writer,
           CommitFails(w) \/ StrictReplacementFails(w)
    PROVE  TransactionInv'
<1>1. /\ wpc[w] = "entered" \/ (wpc[w] = "returning" /\ connected[w])
      /\ wpc' = [wpc EXCEPT ![w] = "throwing"] /\ wpc'[w] = "throwing" /\ ~connected'[w]
      /\ \A u \in Writer : u # w => connected'[u] = connected[u]
      /\ UNCHANGED <<currentVersion, objectsToExclude, lazyExclude, writeLocked, writeMutex,
                     objectsToAdd, objectsToRemove, previousVersion, readerVars, database,
                     connection, snapshot, before>>
      /\ Persisted \subseteq Place /\ Store \in Persisted
  BY PersistedAssumption
  DEF CommitFails, StrictReplacementFails, TransactionInv, PTypeOK, TypeOK
<1>2. /\ database[Store] = before[w]
      /\ \A p \in Persisted : database[p] = database[Store]
  BY <1>1 DEF TransactionInv, DatabaseInv, Uncommitted
<1>3. \A p \in Persisted : contents'[p] = database[p]
  <2>1. CASE CommitFails(w)
    BY <1>1, <2>1 DEF CommitFails, RolledBack
  <2>2. CASE StrictReplacementFails(w)
    BY <1>2, <2>2 DEF StrictReplacementFails, TransactionInv, TableInv
  <2> QED BY <2>1, <2>2
<1>4. MutexInv' /\ LockInv' /\ ExclusionInv'
  BY <1>1, MoveControl DEF TransactionInv, PTypeOK, ControlInv, Draining, ExclusionInv
<1>5. \A u \in Writer : u # w => wpc[u] = "idle" /\ ~connected[u] /\ wpc'[u] = "idle"
  BY <1>1, OthersDisconnected DEF TransactionInv, PTypeOK, TypeOK
<1>6. RequestInv!(w)'
  BY <1>1 DEF TransactionInv, RequestInv
<1>7. DatabaseInv!3!(w)'
  BY <1>1, <1>2 DEF Uncommitted
<1>8. \A p \in Persisted : TableInv!(w, p)'
  BY <1>1
<1>9. RequestInv' /\ DatabaseInv' /\ TableInv'
  BY <1>1, <1>2, <1>3, <1>5, <1>6, <1>7, <1>8, TransactionFrame
<1>10. ConnectionInv'
  BY <1>1 DEF TransactionInv, ConnectionInv
<1> QED BY <1>4, <1>9, <1>10 DEF TransactionInv

\* update() returns or throws, and leaves writeMutex.
LEMMA TransactionReturn ==
    ASSUME TransactionInv, PTypeOK', NEW w \in Writer, PReturn(w)
    PROVE  TransactionInv'
<1>1. /\ wpc[w] \in {"returning", "throwing"} /\ ~connected[w]
      /\ wpc'[w] = "idle" /\ objectsToAdd'[w] = {} /\ objectsToRemove'[w] = {}
      /\ \A u \in Writer : u # w => /\ objectsToAdd'[u] = objectsToAdd[u]
                                    /\ objectsToRemove'[u] = objectsToRemove[u]
                                    /\ wpc'[u] = wpc[u]
      /\ UNCHANGED <<contents, readerVars, database, connected, connection, snapshot>>
  BY DEF PReturn, Return, TransactionInv, PTypeOK, TypeOK
<1>2. MutexInv' /\ LockInv' /\ ExclusionInv'
  BY ReturnControl DEF PReturn, TransactionInv, PTypeOK, ControlInv
<1>3. /\ \A u \in Writer : u # w => wpc[u] = "idle" /\ ~connected[u]
      /\ \A p \in Persisted : contents[p] = database[p]
  BY <1>1, OthersDisconnected
<1>4. RequestInv!(w)'
  BY <1>1
<1>5. DatabaseInv!3!(w)'
  BY <1>1 DEF Uncommitted
<1>6. \A p \in Persisted : TableInv!(w, p)'
  BY <1>1
<1>7. RequestInv' /\ DatabaseInv' /\ TableInv'
  <2>1. \A p \in Persisted : database'[p] = database'[Store]
    BY <1>1 DEF TransactionInv, DatabaseInv
  <2> QED BY <1>1, <1>3, <1>4, <1>5, <1>6, <2>1, TransactionFrame
<1>8. ConnectionInv'
  BY <1>1 DEF TransactionInv, ConnectionInv
<1> QED BY <1>2, <1>7, <1>8 DEF TransactionInv

\* Readers change neither the tables nor what the writers know.
LEMMA TransactionReader ==
    ASSUME TransactionInv, NEW r \in Reader,
           \/ PReadCurrentVersion(r) \/ PReaderStep(r) \/ GetConnection(r)
           \/ OpenReadConnection(r) \/ PClose(r)
           \/ \E o \in Object : FetchRow(r, o) \/ FetchOnHeap(r, o)
    PROVE  TransactionInv'
<1>1. PTypeOK' /\ ConnectionInv'
  BY PTypeReader, ConnectionReader DEF TransactionInv
<1>2. UNCHANGED <<collectionVars, versionVars, writeLocked, writeMutex, writerVars,
                  database, connected, before>>
  BY DEF PReadCurrentVersion, PReaderStep, GetConnection, OpenReadConnection, PClose,
     FetchRow, FetchOnHeap, ReadCurrentVersion, TryReadLock, Filter, Retrieve, Fetch, Close,
     Forget, vars
<1>3. MutexInv' /\ LockInv' /\ ExclusionInv'
  BY <1>2, SameControl DEF TransactionInv, PTypeOK, ControlInv
<1>4. RequestInv' /\ DatabaseInv' /\ TableInv'
  BY <1>2
  DEF TransactionInv, RequestInv, DatabaseInv, TableInv, Uncommitted, After, TurnedDown
<1> QED BY <1>1, <1>3, <1>4 DEF TransactionInv

\* The first invariant holds of an idle collection.
LEMMA TransactionInit == PInit => TransactionInv
<1> SUFFICES ASSUME PInit
             PROVE  TransactionInv
  OBVIOUS
<1>1. PTypeOK /\ MutexInv /\ LockInv /\ ExclusionInv
  BY PTypeInit, IndInit DEF PInit, IndInv
<1>2. /\ \A w \in Writer : /\ wpc[w] = "idle" /\ ~connected[w]
                           /\ objectsToAdd[w] = {} /\ objectsToRemove[w] = {}
      /\ \A r \in Reader : connection[r] = "none"
  BY DEF PInit, Init
<1>3. \A p \in Persisted : database[p] = contents[p] /\ database[p] = database[Store]
  BY PersistedAssumption DEF PInit, Init
<1>4. RequestInv /\ DatabaseInv /\ TableInv /\ ConnectionInv
  BY <1>2, <1>3 DEF RequestInv, DatabaseInv, TableInv, ConnectionInv, Uncommitted
<1> QED BY <1>1, <1>4 DEF TransactionInv

\* Every step preserves it.
LEMMA TransactionNext == TransactionInv /\ [PNext]_pvars => TransactionInv'
<1> SUFFICES ASSUME TransactionInv, [PNext]_pvars
             PROVE  TransactionInv'
  OBVIOUS
<1>1. ASSUME NEW w \in Writer,
             \/ PCall(w) \/ OpenWriteConnection(w) \/ PWriterStep(w)
             \/ StrictReplacementFails(w) \/ PFail(w) \/ CommitFails(w)
      PROVE  TransactionInv'
  <2>1. PTypeOK'
    BY <1>1, PTypeWriter DEF TransactionInv
  <2>2. CASE PCall(w)
    BY <2>1, <2>2, PCallCases, TransactionUpdate
  <2>3. CASE PVersionStep(w)
    BY <2>1, <2>3, TransactionPublish, TransactionDrain DEF PVersionStep
  <2>4. CASE PWriterStep(w) /\ ~PVersionStep(w)
    BY <2>1, <2>4, TransactionReturnsEarly, TransactionChangeOne, TransactionRollBack,
       TransactionRestore, TransactionCommit, TransactionReturn DEF PWriterStep
  <2> QED BY <1>1, <2>1, <2>2, <2>3, <2>4, TransactionOpen, TransactionThrows,
             TransactionFail
<1>2. CASE UNCHANGED pvars
  <2>1. UNCHANGED vars /\ UNCHANGED persistenceVars
    BY <1>2 DEF pvars
  <2>2. PTypeOK' /\ ConnectionInv'
    BY <2>1 DEF vars, TransactionInv, PTypeOK, TypeOK, ConnectionInv
  <2>3. MutexInv' /\ LockInv' /\ ExclusionInv'
    BY <2>1, SameControl DEF vars, TransactionInv, PTypeOK, ControlInv
  <2>4. RequestInv' /\ DatabaseInv' /\ TableInv'
    BY <2>1
    DEF vars, TransactionInv, RequestInv, DatabaseInv, TableInv, Uncommitted, After, TurnedDown
  <2> QED BY <2>2, <2>3, <2>4 DEF TransactionInv
<1> QED BY <1>1, <1>2, TransactionReader DEF PNext

\* For any tables, indexes, threads and versions, with or without a ReadWriteLock, and
\* wherever update() fails: the first inductive invariant.
THEOREM TransactionInductive == PSpec => []TransactionInv
BY TransactionInit, TransactionNext, PTL DEF PSpec

\* However update() ends, the tables hold all of its transaction or nothing of it, and
\* all of it if it returns normally and was not turned down.
THEOREM TransactionsAreAtomic == PSpec => []AllOrNothing
<1>1. ASSUME TransactionInv, NEW w \in Writer, wpc[w] \in {"returning", "throwing"},
             ~connected[w]
      PROVE  /\ \A p \in Persisted : contents[p] = database[p]
             /\ \/ \A p \in Persisted : database[p] = After(w)
                \/ /\ \A p \in Persisted : database[p] = before[w]
                   /\ wpc[w] = "throwing" \/ TurnedDown(w)
  BY <1>1, OthersDisconnected DEF TransactionInv, DatabaseInv
<1>2. TransactionInv => AllOrNothing
  BY <1>1 DEF AllOrNothing
<1> QED BY <1>2, TransactionInductive, PTL

\* No update(), failed before or at its commit or not at all, leaves objects hidden.
THEOREM PExclusionsEnd == PSpec => []NothingHiddenWhenIdle
<1>1. TransactionInv => NothingHiddenWhenIdle
  BY DEF TransactionInv, ExclusionInv, NothingHiddenWhenIdle
<1> QED BY <1>1, TransactionInductive, PTL

-----------------------------------------------------------------------------
(* Readers see whole transactions.  A transaction that both removes and    *)
(* adds is not seen as a whole by the readers of its second version, nor   *)
(* does the algorithm bear an object being added that is there already.    *)

OneWay == ReAdd = FALSE /\ Replacing = FALSE

\* While a transaction is under way, other than in its last version, the versions
\* that can be read stand for what they leave of the committed tables.
LEMMA ReadableVersions ==
    ASSUME ReadingInv, NEW w \in Writer, wpc[w] # "idle", ~AwaitingCommit(w)
    PROVE  \A v \in 1 .. currentVersion :
               v \notin writeLocked => database[Store] \ objectsToExclude[v] = committed[v]
<1>1. \A u \in Writer : ~AwaitingCommit(u)
  BY OthersIdle DEF ReadingInv, TransactionInv, AwaitingCommit
<1> QED BY <1>1 DEF ReadingInv, SnapshotInv

\* The same between transactions.
LEMMA ReadableWhenIdle ==
    ASSUME ReadingInv, \A w \in Writer : wpc[w] = "idle"
    PROVE  \A v \in 1 .. currentVersion :
               v \notin writeLocked => database[Store] \ objectsToExclude[v] = committed[v]
BY DEF ReadingInv, SnapshotInv, AwaitingCommit

\* The current version can be read.
LEMMA CurrentReadable ==
    ASSUME TransactionInv
    PROVE  /\ currentVersion \in 1 .. currentVersion /\ currentVersion \notin writeLocked
           /\ currentVersion \in Nat /\ 1 .. currentVersion \subseteq VersionNumber
BY BoundAssumption DEF TransactionInv, PTypeOK, TypeOK, VersionNumber, LockInv

\* A step of a writer leaves readers' locals valid if the versions stay what they are.
LEMMA PReadersKept ==
    ASSUME TransactionInv, PReaderInv, UNCHANGED <<readerVars, connection, snapshot>>,
           currentVersion' \in Nat, currentVersion <= currentVersion',
           \A v \in 1 .. currentVersion : objectsToExclude'[v] = objectsToExclude[v],
           \A r \in Reader : rpc[r] \in Reading => thisVersion[r] \notin writeLocked'
    PROVE  PReaderInv'
<1> SUFFICES ASSUME NEW r \in Reader
             PROVE  PReaderInv!(r)'
  BY DEF PReaderInv
<1>1. /\ thisVersion[r] \in 1 .. currentVersion /\ thisVersion[r] \in Nat
      /\ currentVersion \in Nat
  BY BoundAssumption DEF TransactionInv, PTypeOK, TypeOK, PReaderInv, VersionNumber
<1>2. objectsToExclude'[thisVersion[r]] = objectsToExclude[thisVersion[r]]
  BY <1>1
<1> QED BY <1>1, <1>2 DEF PReaderInv

\* It leaves what they see valid if, besides, they stay what they stand for.  A last
\* version published by this step has no readers yet.
LEMMA ViewsKept ==
    ASSUME TransactionInv, PReaderInv, ViewInv, UNCHANGED <<readerVars, connection, snapshot>>,
           currentVersion' \in Nat, currentVersion <= currentVersion',
           \A v \in 1 .. currentVersion :
               /\ objectsToExclude'[v] = objectsToExclude[v]
               /\ committed'[v] = committed[v],
           torn \subseteq torn',
           \A w \in Writer :
               AwaitingCommit(w)' =>
                   \/ AwaitingCommit(w) /\ currentVersion' = currentVersion /\ before'[w] = before[w]
                   \/ currentVersion' # currentVersion
                   \/ committed'[currentVersion'] = before'[w]
    PROVE  ViewInv'
<1> SUFFICES ASSUME NEW r \in Reader, Sound(r)'
             PROVE  ViewInv!(r)!2'
  BY DEF ViewInv
<1>1. /\ thisVersion[r] \in 1 .. currentVersion /\ thisVersion[r] \in Nat
      /\ currentVersion \in Nat
      /\ currentVersion \in 1 .. currentVersion
      /\ 1 .. currentVersion \subseteq 1 .. currentVersion'
  BY BoundAssumption DEF TransactionInv, PTypeOK, TypeOK, PReaderInv, VersionNumber
<1>2. /\ objectsToExclude'[thisVersion[r]] = objectsToExclude[thisVersion[r]]
      /\ committed'[thisVersion[r]] = committed[thisVersion[r]]
  BY <1>1
<1>3. Sound(r)
  BY DEF Sound
<1>4. Seen(r)' = Seen(r)
  BY <1>2 DEF Seen
<1>5. /\ rpc'[r] = "filtering" =>
            fetched'[r] \in Seen(r)' \cup objectsToExclude'[thisVersion'[r]]
      /\ \A o \in Object \ (unvisited'[r] \cup {fetched'[r]}) :
            o \in result'[r] <=> o \in Seen(r)'
  BY <1>2, <1>3, <1>4 DEF ViewInv
<1>6. ASSUME NEW w \in Writer, AwaitingCommit(w)', committed'[currentVersion'] # before'[w],
             connection'[r] = "open", thisVersion'[r] = currentVersion'
      PROVE  snapshot'[r] = before'[w]
  <2>1. currentVersion' = currentVersion
    BY <1>1, <1>6
  <2>2. AwaitingCommit(w) /\ before'[w] = before[w]
    BY <1>6, <2>1
  <2>3. committed'[currentVersion'] = committed[currentVersion]
    BY <1>1, <2>1
  <2> QED BY <1>3, <1>6, <2>1, <2>2, <2>3 DEF ViewInv
<1> QED BY <1>5, <1>6

\* A writer's step that publishes nothing.
LEMMA SnapshotMove ==
    ASSUME ReadingInv,
           UNCHANGED <<currentVersion, objectsToExclude, committed, torn, readerVars,
                       connection, snapshot>>,
           writeLocked \subseteq writeLocked',
           \A r \in Reader : rpc[r] \in Reading => thisVersion[r] \notin writeLocked',
           \A v \in 1 .. currentVersion :
               v \notin writeLocked' =>
                   /\ \/ database'[Store] \ objectsToExclude[v] = committed[v]
                      \/ v = currentVersion /\ \E w \in Writer : AwaitingCommit(w)'
                   /\ v \notin torn =>
                         \A p \in Place \ Persisted :
                             contents'[p] \ objectsToExclude[v] = contents[p] \ objectsToExclude[v],
           \A w \in Writer :
               AwaitingCommit(w)' =>
                   /\ committed[currentVersion] = contents'[Store]
                   /\ \/ AwaitingCommit(w) /\ before'[w] = before[w]
                      \/ committed[currentVersion] = before'[w]
    PROVE  SnapshotInv' /\ PReaderInv' /\ ViewInv'
<1>1. /\ currentVersion \in Nat /\ currentVersion <= currentVersion
      /\ currentVersion \in 1 .. currentVersion
  BY BoundAssumption DEF ReadingInv, TransactionInv, PTypeOK, TypeOK, VersionNumber
<1>2. PReaderInv'
  BY <1>1, PReadersKept DEF ReadingInv
<1>3. ViewInv'
  <2>1. \A w \in Writer :
            AwaitingCommit(w)' =>
                \/ AwaitingCommit(w) /\ currentVersion' = currentVersion /\ before'[w] = before[w]
                \/ currentVersion' # currentVersion
                \/ committed'[currentVersion'] = before'[w]
    OBVIOUS
  <2> QED BY <1>1, <2>1, ViewsKept DEF ReadingInv
<1>4. SnapshotInv'
  <2>1. \A v \in 1 .. currentVersion : SnapshotInv!1!(v)'
    BY DEF ReadingInv, SnapshotInv
  <2>2. \A w \in Writer : SnapshotInv!2!(w)'
    BY <1>1 DEF ReadingInv, SnapshotInv
  <2> QED BY <2>1, <2>2 DEF SnapshotInv
<1> QED BY <1>2, <1>3, <1>4

\* A writer's step that publishes a version: the tables leave of it what it stands for,
\* or it is the last one and stands for what is about to be committed.
LEMMA SnapshotPublish ==
    ASSUME ReadingInv, NEW w \in Writer, wpc[w] \notin Draining \cup {"idle", "returning"},
           NEW excl \in SUBSET Object, NEW after \in SUBSET Object,
           IncrementVersion(w, excl, FALSE, after),
           NEW pc \in Draining, wpc' = [wpc EXCEPT ![w] = pc],
           excl = CASE pc = "drainAdd" -> objectsToAdd[w]
                    [] pc = "drainRemove" -> objectsToRemove[w]
                    [] OTHER -> {},
           torn \subseteq torn', torn' \subseteq torn \cup {currentVersion + 1},
           IF pc = "drainEmpty" THEN after = contents[Store]
                                ELSE database[Store] \ excl = after,
           currentVersion + 1 \notin torn' =>
               \A p \in Place \ Persisted : contents[p] \ excl = after,
           UNCHANGED <<contents, writeLocked, writeMutex, objectsToAdd, objectsToRemove,
                       readerVars, persistenceVars>>
    PROVE  SnapshotInv' /\ PReaderInv' /\ ViewInv'
<1>1. ControlInv
  BY DEF ReadingInv, TransactionInv, PTypeOK, ControlInv
<1>2. /\ currentVersion \in Nat /\ currentVersion' = currentVersion + 1
      /\ \A v \in 1 .. currentVersion :
            /\ objectsToExclude'[v] = objectsToExclude[v]
            /\ committed'[v] = committed[v]
            /\ v \notin writeLocked => v = currentVersion
      /\ objectsToExclude'[currentVersion'] = excl
      /\ committed'[currentVersion'] = after
  <2>1. wpc[w] \notin Draining \cup {"idle"}
    OBVIOUS
  <2> QED BY <1>1, <2>1, PublishControl, ZenonT(30)
<1>3. \A u \in Writer : wpc'[u] = (IF u = w THEN pc ELSE "idle") /\ (u # w => wpc[u] = "idle")
  BY <1>1, OthersIdle DEF ControlInv, TypeOK
<1>4. currentVersion' \in Nat /\ currentVersion <= currentVersion'
  BY <1>2
<1>5. PReaderInv'
  <2>1. \A r \in Reader : rpc[r] \in Reading => thisVersion[r] \notin writeLocked'
    BY DEF ReadingInv, PReaderInv
  <2> QED BY <1>2, <1>4, <2>1, PReadersKept DEF ReadingInv
<1>6. ViewInv'
  BY <1>2, <1>4, ViewsKept DEF ReadingInv
<1>7. \A v \in 1 .. currentVersion :
          v \notin writeLocked => database[Store] \ objectsToExclude[v] = committed[v]
  BY ReadableVersions DEF AwaitingCommit, Draining
<1>8. ASSUME NEW v \in 1 .. currentVersion', v \notin writeLocked
      PROVE  SnapshotInv!1!(v)!2'
  <2>1. CASE v = currentVersion'
    <3>1. pc = "drainEmpty" => AwaitingCommit(w)'
      BY <1>3 DEF AwaitingCommit
    <3> QED BY <1>2, <2>1, <3>1
  <2>2. CASE v # currentVersion'
    <3>1. v \in 1 .. currentVersion /\ v # currentVersion + 1
      BY <1>2, <2>2
    <3>2. v \notin torn => \A p \in Place \ Persisted : contents[p] \ objectsToExclude[v] = committed[v]
      BY <1>8, <3>1 DEF ReadingInv, SnapshotInv
    <3> QED BY <1>2, <1>7, <1>8, <3>1, <3>2
  <2> QED BY <2>1, <2>2
<1>9. ASSUME NEW u \in Writer
      PROVE  SnapshotInv!2!(u)'
  <2>1. AwaitingCommit(u)' => u = w /\ pc = "drainEmpty"
    BY <1>3 DEF AwaitingCommit, Draining
  <2> QED BY <1>2, <2>1
<1>10. SnapshotInv'
  BY <1>8, <1>9 DEF SnapshotInv
<1> QED BY <1>5, <1>6, <1>10

\* A writer's step can only disturb what is said about that writer.
LEMMA HeapFrame ==
    ASSUME HeapInv, NEW w \in Writer,
           \A u \in Writer : u # w =>
               /\ wpc'[u] = "idle"
               /\ objectsToAdd'[u] = objectsToAdd[u] /\ objectsToRemove'[u] = objectsToRemove[u],
           HeapInv!(w)'
    PROVE  HeapInv'
<1>1. \A u \in Writer : HeapInv!(u)'
  BY DEF HeapInv, Uncommitted
<1> QED BY <1>1 DEF HeapInv

\* update() is called with objects that are in no place, and either adds or removes.
LEMMA WholeUpdate ==
    ASSUME OneWay, ReadingInv, TransactionInv', NEW w \in Writer,
           NEW rem \in SUBSET Object, NEW add \in SUBSET Object,
           NEW iterables \in SUBSET {"adding", "removing"}, PUpdate(w, rem, add, iterables)
    PROVE  ReadingInv'
<1>1. \A u \in Writer : wpc[u] = "idle" /\ wpc'[u] = IF u = w THEN "entered" ELSE "idle"
  BY NullAssumption DEF PUpdate, Update, ReadingInv, TransactionInv, MutexInv, PTypeOK, TypeOK
<1>2. /\ objectsToAdd'[w] = add /\ objectsToRemove'[w] = rem
      /\ \A u \in Writer : u # w => /\ objectsToAdd'[u] = objectsToAdd[u]
                                    /\ objectsToRemove'[u] = objectsToRemove[u]
      /\ before'[w] = database[Store]
      /\ UNCHANGED <<contents, versionVars, writeLocked, readerVars, database, connected,
                     connection, snapshot>>
      /\ rem = {} \/ add = {}
      /\ add \cap contents[Store] = {}
  BY DEF PUpdate, Update, OneWay, ReadingInv, TransactionInv, PTypeOK, TypeOK
<1>3. /\ \A v \in 1 .. currentVersion :
             v \notin writeLocked => database[Store] \ objectsToExclude[v] = committed[v]
      /\ objectsToExclude[currentVersion] = {}
      /\ committed[currentVersion] = database[Store]
      /\ contents[Store] = database[Store]
  <2>1. \A v \in 1 .. currentVersion :
            v \notin writeLocked => database[Store] \ objectsToExclude[v] = committed[v]
    BY <1>1, ReadableWhenIdle
  <2>2. objectsToExclude[currentVersion] = {}
    BY DEF PUpdate, Update, ReadingInv, TransactionInv, ExclusionInv
  <2>3. committed[currentVersion] = database[Store]
    BY <2>1, <2>2, CurrentReadable DEF ReadingInv
  <2>4. \A u \in Writer : ~connected[u]
    BY <1>1 DEF ReadingInv, TransactionInv, RequestInv, Uncommitted
  <2>5. contents[Store] = database[Store]
    BY <2>4, PersistedAssumption DEF ReadingInv, TransactionInv, DatabaseInv
  <2> QED BY <2>1, <2>2, <2>3, <2>5
<1>4. HeapInv!(w)'
  <2>1. ASSUME currentVersion \notin torn, NEW p \in Place \ Persisted
        PROVE  contents[p] = committed[currentVersion]
    BY <1>3, <2>1, CurrentReadable DEF ReadingInv, SnapshotInv
  <2> QED BY <1>1, <1>2, <1>3, <2>1
<1>5. HeapInv'
  BY <1>1, <1>2, <1>4, HeapFrame DEF ReadingInv
<1>6. SnapshotInv' /\ PReaderInv' /\ ViewInv'
  <2>1. \A u \in Writer : ~AwaitingCommit(u)'
    BY <1>1 DEF AwaitingCommit
  <2>2. \A r \in Reader : rpc[r] \in Reading => thisVersion[r] \notin writeLocked'
    BY <1>2 DEF ReadingInv, PReaderInv
  <2> QED BY <1>2, <1>3, <2>1, <2>2, SnapshotMove
<1> QED BY <1>5, <1>6 DEF ReadingInv

\* A writer goes on without publishing a version, committing, or changing a place on
\* the heap.
LEMMA WholeMove ==
    ASSUME ReadingInv, TransactionInv', NEW w \in Writer, wpc[w] # "idle",
           \A u \in Writer : u # w => wpc'[u] = "idle" /\ ~AwaitingCommit(u)',
           UNCHANGED <<versionVars, writeLocked, objectsToAdd, objectsToRemove, readerVars,
                       database, connection, snapshot, before>>,
           \A p \in Place \ Persisted : contents'[p] = contents[p],
           HeapInv!(w)',
           AwaitingCommit(w) => AwaitingCommit(w)' /\ contents'[Store] = contents[Store],
           AwaitingCommit(w)' =>
               \/ AwaitingCommit(w)
               \/ committed[currentVersion] = contents'[Store] /\ contents'[Store] = before[w]
    PROVE  ReadingInv'
<1>1. HeapInv'
  BY HeapFrame DEF ReadingInv
<1>2. \A u \in Writer : u # w => wpc[u] = "idle"
  BY OthersIdle DEF ReadingInv, TransactionInv
<1>3. \A v \in 1 .. currentVersion :
          v \notin writeLocked' =>
              \/ database'[Store] \ objectsToExclude[v] = committed[v]
              \/ v = currentVersion /\ \E u \in Writer : AwaitingCommit(u)'
  <2>1. CASE AwaitingCommit(w)
    BY <2>1, <1>2 DEF ReadingInv, SnapshotInv, AwaitingCommit
  <2>2. CASE ~AwaitingCommit(w)
    BY <2>2, ReadableVersions
  <2> QED BY <2>1, <2>2
<1>4. \A u \in Writer :
          AwaitingCommit(u)' =>
              /\ committed[currentVersion] = contents'[Store]
              /\ \/ AwaitingCommit(u) /\ before'[u] = before[u]
                 \/ committed[currentVersion] = before'[u]
  BY DEF ReadingInv, SnapshotInv
<1>5. \A r \in Reader : rpc[r] \in Reading => thisVersion[r] \notin writeLocked'
  BY DEF ReadingInv, PReaderInv
<1>6. SnapshotInv' /\ PReaderInv' /\ ViewInv'
  BY <1>3, <1>4, <1>5, SnapshotMove
<1> QED BY <1>1, <1>6 DEF ReadingInv

\* Opening the connection, throwing, rolling back and being turned down publish nothing.
LEMMA WholeQuietSteps ==
    ASSUME ReadingInv, TransactionInv', NEW w \in Writer,
           \/ OpenWriteConnection(w) \/ StrictReplacementFails(w) \/ PUpdateReturnsEarly(w)
           \/ PFail(w) \/ RollBack(w)
    PROVE  ReadingInv'
<1>1. /\ wpc[w] \in {"entered", "adding", "removing", "failed"}
      /\ UNCHANGED <<versionVars, writeLocked, objectsToAdd, objectsToRemove, readerVars,
                     database, connection, snapshot, before>>
      /\ wpc \in [Writer -> WriterPC] /\ connected \in [Writer -> BOOLEAN]
      /\ Persisted \subseteq Place /\ Store \in Persisted
  BY PersistedAssumption
  DEF OpenWriteConnection, vars, StrictReplacementFails, PUpdateReturnsEarly,
      UpdateReturnsEarly, PFail, Fail, RollBack, ReadingInv, TransactionInv, PTypeOK, TypeOK
<1>2. PICK pc \in {"entered", "adding", "removing", "failed", "returning", "throwing"} :
          /\ wpc' = [wpc EXCEPT ![w] = pc]
          /\ pc \in {"entered", "adding", "removing"} => pc = wpc[w] /\ todo' = todo
          /\ pc = "returning" => wpc[w] = "entered" /\ contents' = contents
  BY <1>1
  DEF OpenWriteConnection, vars, StrictReplacementFails, PUpdateReturnsEarly,
      UpdateReturnsEarly, PFail, Fail, RollBack
<1>3. /\ wpc'[w] = pc
      /\ \A u \in Writer : u # w => wpc'[u] = "idle" /\ ~AwaitingCommit(u)'
  BY <1>1, <1>2, OthersIdle DEF ReadingInv, TransactionInv, AwaitingCommit
<1>4. \A p \in Place \ Persisted : contents'[p] = contents[p]
  BY <1>1
  DEF OpenWriteConnection, vars, StrictReplacementFails, PUpdateReturnsEarly,
      UpdateReturnsEarly, PFail, Fail, RollBack, RolledBack
<1>5. Uncommitted(w) /\ ~AwaitingCommit(w)
  BY <1>1 DEF Uncommitted, AwaitingCommit
<1>6. HeapInv!(w)'
  BY <1>1, <1>2, <1>3, <1>4, <1>5 DEF ReadingInv, HeapInv
<1>7. ASSUME AwaitingCommit(w)'
      PROVE  committed[currentVersion] = contents'[Store] /\ contents'[Store] = before[w]
  <2>1. wpc[w] = "entered" /\ contents' = contents
    BY <1>2, <1>3, <1>7 DEF AwaitingCommit
  <2>2. contents[Store] = before[w] /\ database[Store] = before[w]
    BY <1>1, <1>5, <2>1 DEF ReadingInv, TransactionInv, TableInv, DatabaseInv
  <2>3. objectsToExclude[currentVersion] = {}
    BY <2>1 DEF ReadingInv, TransactionInv, ExclusionInv
  <2>4. database[Store] \ objectsToExclude[currentVersion] = committed[currentVersion]
    BY <1>1, <1>5, CurrentReadable, ReadableVersions DEF ReadingInv
  <2> QED BY <2>1, <2>2, <2>3, <2>4
<1> QED BY <1>1, <1>3, <1>4, <1>5, <1>6, <1>7, WholeMove

\* The additions are hidden before they are made.
LEMMA WholeBeginAdd ==
    ASSUME ReadingInv, TransactionInv', NEW w \in Writer, BeginAdd(w), UNCHANGED persistenceVars
    PROVE  ReadingInv'
<1> DEFINE add == objectsToAdd[w]
<1>1. /\ wpc[w] = "entered" /\ wpc' = [wpc EXCEPT ![w] = "drainAdd"] /\ wpc'[w] = "drainAdd"
      /\ wpc[w] \notin Draining \cup {"idle", "returning"}
      /\ IncrementVersion(w, add, FALSE, committed[currentVersion])
      /\ InheritTorn
      /\ UNCHANGED <<contents, writeLocked, writeMutex, objectsToAdd, objectsToRemove, todo,
                     readerVars>>
      /\ add \in SUBSET Object /\ committed[currentVersion] \in SUBSET Object
  BY DEF BeginAdd, ReadingInv, TransactionInv, PTypeOK, TypeOK, Draining
<1>2. /\ torn \subseteq torn' /\ torn' \subseteq torn \cup {currentVersion + 1}
      /\ currentVersion' = currentVersion + 1
      /\ currentVersion + 1 \notin torn' => currentVersion \notin torn
  BY <1>1 DEF InheritTorn, IncrementVersion
<1>3. Uncommitted(w) /\ Uncommitted(w)' /\ ~AwaitingCommit(w)
  BY <1>1 DEF Uncommitted, AwaitingCommit
<1>4. /\ objectsToExclude[currentVersion] = {}
      /\ database[Store] = committed[currentVersion]
      /\ database[Store] \ add = committed[currentVersion]
  <2>1. objectsToExclude[currentVersion] = {}
    BY <1>1 DEF ReadingInv, TransactionInv, ExclusionInv
  <2>2. database[Store] = committed[currentVersion]
    BY <1>1, <1>3, <2>1, CurrentReadable, ReadableVersions DEF ReadingInv
  <2>3. add \cap database[Store] = {}
    BY <1>3 DEF ReadingInv, HeapInv, TransactionInv, DatabaseInv
  <2> QED BY <2>1, <2>2, <2>3
<1>5. currentVersion \notin torn =>
          \A p \in Place \ Persisted : contents[p] \ add = committed[currentVersion]
  <2>1. currentVersion \notin torn =>
            \A p \in Place \ Persisted : /\ contents[p] \ objectsToExclude[currentVersion]
                                              = committed[currentVersion]
                                         /\ add \cap contents[p] = {}
    BY <1>1, CurrentReadable DEF ReadingInv, SnapshotInv, HeapInv
  <2> QED BY <1>4, <2>1
<1>6. SnapshotInv' /\ PReaderInv' /\ ViewInv'
  <2>1. "drainAdd" \in Draining
    BY DEF Draining
  <2> HIDE DEF add
  <2>2. add = CASE "drainAdd" = "drainAdd" -> objectsToAdd[w]
                [] "drainAdd" = "drainRemove" -> objectsToRemove[w]
                [] OTHER -> {}
    BY DEF add
  <2>3. IF "drainAdd" = "drainEmpty" THEN committed[currentVersion] = contents[Store]
                                     ELSE database[Store] \ add = committed[currentVersion]
    BY <1>4
  <2> QED BY <1>1, <1>2, <1>5, <2>1, <2>2, <2>3, SnapshotPublish, ZenonT(30)
<1>7. \A u \in Writer : u # w => wpc'[u] = "idle"
  BY <1>1, OthersIdle DEF ReadingInv, TransactionInv, PTypeOK, TypeOK
<1>8. HeapInv!(w)'
  BY <1>1, <1>2, <1>3 DEF ReadingInv, HeapInv
<1>9. HeapInv'
  BY <1>1, <1>7, <1>8, HeapFrame DEF ReadingInv
<1> QED BY <1>6, <1>9 DEF ReadingInv

\* The removals are hidden before they are made.
LEMMA WholeBeginRemove ==
    ASSUME ReadingInv, TransactionInv', NEW w \in Writer, BeginRemove(w), UNCHANGED persistenceVars
    PROVE  ReadingInv'
<1> DEFINE rem == objectsToRemove[w]
<1>1. /\ wpc' = [wpc EXCEPT ![w] = "drainRemove"] /\ wpc'[w] = "drainRemove"
      /\ rem # {}
      /\ wpc[w] = "adding" \/ (wpc[w] = "entered" /\ objectsToAdd[w] = {})
      /\ IncrementVersion(w, rem, FALSE, Applied(w))
      /\ InheritTorn
      /\ UNCHANGED <<contents, writeLocked, writeMutex, objectsToAdd, objectsToRemove, todo,
                     readerVars>>
      /\ rem \in SUBSET Object /\ Applied(w) \in SUBSET Object
  BY DEF BeginRemove, ReadingInv, TransactionInv, PTypeOK, TypeOK, Applied
<1>2. /\ torn \subseteq torn' /\ torn' \subseteq torn \cup {currentVersion + 1}
      /\ currentVersion' = currentVersion + 1
      /\ currentVersion + 1 \notin torn' => currentVersion \notin torn
  BY <1>1 DEF InheritTorn, IncrementVersion
<1>3. /\ wpc[w] = "entered" /\ objectsToAdd[w] = {}
      /\ wpc[w] \notin Draining \cup {"idle", "returning"}
      /\ Uncommitted(w) /\ ~AwaitingCommit(w)
  <2>1. objectsToAdd[w] = {}
    BY <1>1 DEF ReadingInv, HeapInv
  <2>2. wpc[w] # "adding"
    BY <2>1 DEF ReadingInv, TransactionInv, RequestInv
  <2> QED BY <1>1, <2>1, <2>2 DEF Draining, Uncommitted, AwaitingCommit
<1>4. /\ objectsToExclude[currentVersion] = {}
      /\ database[Store] = committed[currentVersion]
      /\ database[Store] \ rem = Applied(w)
  <2>1. objectsToExclude[currentVersion] = {}
    BY <1>3 DEF ReadingInv, TransactionInv, ExclusionInv
  <2>2. database[Store] = committed[currentVersion]
    BY <1>3, <2>1, CurrentReadable, ReadableVersions DEF ReadingInv
  <2> QED BY <1>3, <2>1, <2>2 DEF Applied
<1>5. currentVersion \notin torn =>
          \A p \in Place \ Persisted : contents[p] \ rem = Applied(w)
  <2>1. currentVersion \notin torn =>
            \A p \in Place \ Persisted : contents[p] \ objectsToExclude[currentVersion]
                                           = committed[currentVersion]
    BY CurrentReadable DEF ReadingInv, SnapshotInv
  <2> QED BY <1>3, <1>4, <2>1 DEF Applied
<1>6. SnapshotInv' /\ PReaderInv' /\ ViewInv'
  <2>1. "drainRemove" \in Draining
    BY DEF Draining
  <2> HIDE DEF rem
  <2>2. rem = CASE "drainRemove" = "drainAdd" -> objectsToAdd[w]
                [] "drainRemove" = "drainRemove" -> objectsToRemove[w]
                [] OTHER -> {}
    BY DEF rem
  <2>3. IF "drainRemove" = "drainEmpty" THEN Applied(w) = contents[Store]
                                        ELSE database[Store] \ rem = Applied(w)
    BY <1>4
  <2> QED BY <1>1, <1>2, <1>3, <1>5, <2>1, <2>2, <2>3, SnapshotPublish
<1>7. \A u \in Writer : u # w => wpc'[u] = "idle"
  BY <1>1, <1>3, OthersIdle DEF ReadingInv, TransactionInv, PTypeOK, TypeOK
<1>8. HeapInv!(w)'
  BY <1>1, <1>3 DEF ReadingInv, HeapInv
<1>9. HeapInv'
  BY <1>1, <1>7, <1>8, HeapFrame DEF ReadingInv
<1> QED BY <1>6, <1>9 DEF ReadingInv

\* The last version stands for what every place then holds.
LEMMA WholeBeginEmpty ==
    ASSUME ReadingInv, TransactionInv', NEW w \in Writer, BeginEmpty(w), UNCHANGED persistenceVars
    PROVE  ReadingInv'
<1> DEFINE add == objectsToAdd[w]
           rem == objectsToRemove[w]
           C == committed[currentVersion]
<1>1. /\ wpc' = [wpc EXCEPT ![w] = "drainEmpty"] /\ wpc'[w] = "drainEmpty"
      /\ wpc[w] = "removing" \/ (wpc[w] = "adding" /\ rem = {})
      /\ wpc[w] \notin Draining \cup {"idle", "returning"}
      /\ \A p \in Place : todo[w][p] = {}
      /\ IncrementVersion(w, {}, FALSE, Applied(w))
      /\ InheritTorn
      /\ UNCHANGED <<contents, writeLocked, writeMutex, objectsToAdd, objectsToRemove, todo,
                     readerVars>>
      /\ {} \in SUBSET Object /\ Applied(w) \in SUBSET Object
      /\ Persisted \subseteq Place /\ Store \in Persisted
  BY PersistedAssumption
  DEF BeginEmpty, NothingTodo, ReadingInv, TransactionInv, PTypeOK, TypeOK, Applied, Draining
<1>2. /\ torn \subseteq torn' /\ torn' \subseteq torn \cup {currentVersion + 1}
      /\ currentVersion' = currentVersion + 1
      /\ currentVersion + 1 \notin torn' => currentVersion \notin torn
  BY <1>1 DEF InheritTorn, IncrementVersion
<1>3. Uncommitted(w) /\ Uncommitted(w)' /\ ~AwaitingCommit(w)
  BY <1>1 DEF Uncommitted, AwaitingCommit
<1>4. /\ add = {} \/ rem = {}
      /\ add \cap before[w] = {} /\ database[Store] = before[w]
  BY <1>3 DEF ReadingInv, HeapInv, TransactionInv, DatabaseInv
<1>5. /\ objectsToExclude[currentVersion] = IF wpc[w] = "adding" THEN add ELSE rem
      /\ database[Store] \ objectsToExclude[currentVersion] = C
  BY <1>1, <1>3, CurrentReadable, ReadableVersions DEF ReadingInv, TransactionInv, ExclusionInv
<1>6. Applied(w) = contents[Store]
  <2>1. CASE wpc[w] = "adding"
    <3>1. contents[Store] = before[w] \cup (add \ todo[w][Store])
      BY <1>1, <2>1 DEF ReadingInv, TransactionInv, TableInv
    <3> QED BY <1>1, <1>4, <1>5, <2>1, <3>1 DEF Applied
  <2>2. CASE wpc[w] = "removing"
    <3>1. contents[Store] = (before[w] \cup add) \ (rem \ todo[w][Store])
      BY <1>1, <2>2 DEF ReadingInv, TransactionInv, TableInv
    <3>2. rem # {}
      BY <2>2 DEF ReadingInv, TransactionInv, RequestInv
    <3> QED BY <1>1, <1>4, <1>5, <2>2, <3>1, <3>2 DEF Applied
  <2> QED BY <1>1, <2>1, <2>2
<1>7. currentVersion \notin torn => \A p \in Place \ Persisted : contents[p] \ {} = Applied(w)
  <2> SUFFICES ASSUME currentVersion \notin torn, NEW p \in Place \ Persisted
               PROVE  contents[p] = Applied(w)
    OBVIOUS
  <2>1. contents[p] \ objectsToExclude[currentVersion] = C
    BY CurrentReadable DEF ReadingInv, SnapshotInv
  <2>2. /\ wpc[w] = "adding" => add \subseteq contents[p]
        /\ wpc[w] = "removing" => rem \cap contents[p] = {}
    BY <1>1 DEF ReadingInv, HeapInv
  <2>3. wpc[w] = "removing" => add = {}
    BY <1>4 DEF ReadingInv, TransactionInv, RequestInv
  <2> QED BY <1>1, <1>5, <2>1, <2>2, <2>3 DEF Applied
<1>8. SnapshotInv' /\ PReaderInv' /\ ViewInv'
  <2>1. "drainEmpty" \in Draining
    BY DEF Draining
  <2>2. {} = CASE "drainEmpty" = "drainAdd" -> objectsToAdd[w]
               [] "drainEmpty" = "drainRemove" -> objectsToRemove[w]
               [] OTHER -> {}
    OBVIOUS
  <2>3. IF "drainEmpty" = "drainEmpty" THEN Applied(w) = contents[Store]
                                       ELSE database[Store] \ {} = Applied(w)
    BY <1>6
  <2> QED BY <1>1, <1>2, <1>7, <2>1, <2>2, <2>3, SnapshotPublish
<1>9. \A u \in Writer : u # w => wpc'[u] = "idle"
  BY <1>1, OthersIdle DEF ReadingInv, TransactionInv, PTypeOK, TypeOK
<1>10. HeapInv!(w)'
  BY <1>1, <1>4
<1>11. HeapInv'
  BY <1>1, <1>9, <1>10, HeapFrame DEF ReadingInv
<1> QED BY <1>8, <1>11 DEF ReadingInv

\* Readers of the previous version are gone; those that are left keep what they see.
LEMMA WholeDrain ==
    ASSUME ReadingInv, TransactionInv', NEW w \in Writer, Drain(w), UNCHANGED persistenceVars
    PROVE  ReadingInv'
<1>1. /\ UNCHANGED <<contents, currentVersion, objectsToExclude, committed, torn, objectsToAdd,
                     objectsToRemove, readerVars>>
      /\ writeLocked \subseteq writeLocked'
      /\ \A r \in Reader : rpc[r] \in Reading => thisVersion[r] \notin writeLocked'
  BY DEF Drain, Proceed, HoldsReadLock, Reading, ReadingInv, PReaderInv
<1>2. /\ \A u \in Writer : u # w => wpc[u] = "idle" /\ wpc'[u] = "idle"
      /\ wpc[w] \in Draining
      /\ wpc'[w] = CASE wpc[w] = "drainAdd" -> "adding"
                      [] wpc[w] = "drainRemove" -> "removing"
                      [] wpc[w] = "drainEmpty" -> "returning"
                      [] OTHER -> "throwing"
      /\ \A p \in Place : todo'[w][p] = CASE wpc[w] = "drainAdd" -> objectsToAdd[w]
                                           [] wpc[w] = "drainRemove" -> objectsToRemove[w]
                                           [] OTHER -> {}
  BY DrainControl DEF ReadingInv, TransactionInv, PTypeOK, ControlInv
<1>3. /\ wpc[w] # "idle" /\ wpc'[w] # "idle"
      /\ wpc[w] = "drainEmpty" <=> wpc'[w] = "returning"
      /\ wpc'[w] # "drainEmpty"
  BY <1>2 DEF Draining
<1>4. /\ AwaitingCommit(w)' <=> AwaitingCommit(w)
      /\ \A u \in Writer : u # w => ~AwaitingCommit(u) /\ ~AwaitingCommit(u)'
  <2>1. wpc[w] = "drainEmpty" => connected[w]
    BY DEF ReadingInv, TransactionInv, RequestInv
  <2>2. wpc[w] # "returning"
    BY <1>2 DEF Draining
  <2> QED BY <1>2, <1>3, <2>1, <2>2 DEF AwaitingCommit
<1>5. SnapshotInv' /\ PReaderInv' /\ ViewInv'
  <2>1. \A v \in 1 .. currentVersion :
            v \notin writeLocked' =>
                \/ database'[Store] \ objectsToExclude[v] = committed[v]
                \/ v = currentVersion /\ \E u \in Writer : AwaitingCommit(u)'
    BY <1>1, <1>4 DEF ReadingInv, SnapshotInv
  <2>2. \A u \in Writer :
            AwaitingCommit(u)' =>
                /\ committed[currentVersion] = contents'[Store]
                /\ AwaitingCommit(u) /\ before'[u] = before[u]
    BY <1>1, <1>2, <1>3, <1>4 DEF ReadingInv, SnapshotInv
  <2> QED BY <1>1, <2>1, <2>2, SnapshotMove
<1>6. HeapInv!(w)'
  <2>1. Uncommitted(w)
    BY <1>2 DEF Uncommitted, Draining
  <2>2. CASE wpc[w] = "drainAdd"
    <3>1. wpc'[w] = "adding" /\ \A p \in Place : todo'[w][p] = objectsToAdd[w]
      BY <1>2, <2>2
    <3> QED BY <1>1, <2>1, <3>1 DEF ReadingInv, HeapInv
  <2>3. CASE wpc[w] = "drainRemove"
    <3>1. wpc'[w] = "removing" /\ \A p \in Place : todo'[w][p] = objectsToRemove[w]
      BY <1>2, <2>3
    <3> QED BY <1>1, <2>1, <3>1 DEF ReadingInv, HeapInv
  <2>4. CASE wpc[w] \in {"drainEmpty", "drainRestore"}
    <3>1. wpc'[w] \in {"returning", "throwing"}
      BY <1>2, <2>4
    <3> QED BY <1>1, <2>1, <3>1 DEF ReadingInv, HeapInv
  <2> QED BY <1>2, <2>2, <2>3, <2>4 DEF Draining
<1>7. HeapInv'
  BY <1>1, <1>2, <1>6, HeapFrame DEF ReadingInv
<1> QED BY <1>5, <1>7 DEF ReadingInv

\* One object is changed in one place: readers on the heap exclude it, readers of the
\* tables have their snapshot.
LEMMA WholeChangeOne ==
    ASSUME ReadingInv, TransactionInv', NEW w \in Writer, NEW q \in Place, NEW o \in Object,
           PChangeOne(w, q, o)
    PROVE  ReadingInv'
<1>1. /\ wpc[w] \in {"adding", "removing"} /\ wpc' = wpc
      /\ o \in todo[w][q]
      /\ UNCHANGED <<currentVersion, objectsToExclude, committed, torn, writeLocked,
                     objectsToAdd, objectsToRemove, readerVars>>
      /\ UNCHANGED persistenceVars
  BY DEF PChangeOne, ChangeOne, MayChange
<1>2. /\ contents'[q] = IF wpc[w] = "adding" THEN contents[q] \cup {o} ELSE contents[q] \ {o}
      /\ todo'[w][q] = todo[w][q] \ {o}
      /\ \A p \in Place : p # q => contents'[p] = contents[p] /\ todo'[w][p] = todo[w][p]
  BY DEF PChangeOne, ChangeOne, ReadingInv, TransactionInv, PTypeOK, TypeOK
<1>3. /\ Uncommitted(w) /\ ~AwaitingCommit(w)
      /\ \A u \in Writer : ~AwaitingCommit(u)'
      /\ \A u \in Writer : u # w => wpc[u] = "idle"
  BY <1>1, OthersIdle DEF Uncommitted, AwaitingCommit, ReadingInv, TransactionInv
<1>4. HeapInv!(w)'
  <2>1. ASSUME currentVersion \notin torn, NEW p \in Place \ Persisted
        PROVE  /\ wpc'[w] = "adding" =>
                      /\ todo'[w][p] \subseteq objectsToAdd[w]
                      /\ objectsToAdd[w] \subseteq todo'[w][p] \cup contents'[p]
               /\ wpc'[w] = "removing" =>
                      /\ todo'[w][p] \subseteq objectsToRemove[w]
                      /\ objectsToRemove[w] \cap contents'[p] \subseteq todo'[w][p]
    BY <1>1, <1>2, <2>1 DEF ReadingInv, HeapInv
  <2> QED BY <1>1, <1>3, <2>1 DEF ReadingInv, HeapInv
<1>5. HeapInv'
  BY <1>1, <1>3, <1>4, HeapFrame DEF ReadingInv
<1>6. ASSUME NEW v \in 1 .. currentVersion, v \notin writeLocked, v \notin torn,
             NEW p \in Place \ Persisted
      PROVE  contents'[p] \ objectsToExclude[v] = contents[p] \ objectsToExclude[v]
  <2>1. v = currentVersion
    BY <1>1, <1>3, <1>6 DEF ReadingInv, TransactionInv, LockInv, Draining
  <2>2. p = q => o \in objectsToExclude[currentVersion]
    BY <1>1, <1>6, <2>1 DEF ReadingInv, TransactionInv, ExclusionInv, HeapInv
  <2> QED BY <1>2, <2>1, <2>2
<1>7. SnapshotInv' /\ PReaderInv' /\ ViewInv'
  <2>1. \A v \in 1 .. currentVersion :
            v \notin writeLocked => database[Store] \ objectsToExclude[v] = committed[v]
    BY <1>1, <1>3, ReadableVersions
  <2>2. \A r \in Reader : rpc[r] \in Reading => thisVersion[r] \notin writeLocked'
    BY <1>1 DEF ReadingInv, PReaderInv
  <2> QED BY <1>1, <1>3, <1>6, <2>1, <2>2, SnapshotMove
<1> QED BY <1>5, <1>7 DEF ReadingInv

\* restoreEmptyVersionAfterFailure publishes what the rollback has left in the tables.
LEMMA WholeRestore ==
    ASSUME ReadingInv, TransactionInv', NEW w \in Writer, PRestoreEmptyVersionAfterFailure(w)
    PROVE  ReadingInv'
<1>1. /\ wpc[w] = "failed"
      /\ wpc[w] \notin Draining \cup {"idle", "returning"}
      /\ wpc' = [wpc EXCEPT ![w] = "drainRestore"] /\ wpc'[w] = "drainRestore"
      /\ IncrementVersion(w, {}, FALSE, before[w])
      /\ {} \in SUBSET Object /\ before[w] \in SUBSET Object
      /\ UNCHANGED <<contents, writeLocked, writeMutex, objectsToAdd, objectsToRemove,
                     readerVars, persistenceVars>>
      /\ TornOnHeap(currentVersion + 1)
      /\ Persisted \subseteq Place
  BY PersistedAssumption
  DEF PRestoreEmptyVersionAfterFailure, ReadingInv, TransactionInv, PTypeOK, TypeOK, Draining
<1>2. /\ torn \subseteq torn' /\ torn' \subseteq torn \cup {currentVersion + 1}
      /\ currentVersion + 1 \notin torn' =>
            \A p \in Place \ Persisted : contents[p] \ {} = before[w]
  BY <1>1 DEF TornOnHeap
<1>3. Uncommitted(w) /\ Uncommitted(w)'
  BY <1>1 DEF Uncommitted
<1>4. SnapshotInv' /\ PReaderInv' /\ ViewInv'
  <2>1. "drainRestore" \in Draining
    BY DEF Draining
  <2>2. {} = CASE "drainRestore" = "drainAdd" -> objectsToAdd[w]
               [] "drainRestore" = "drainRemove" -> objectsToRemove[w]
               [] OTHER -> {}
    OBVIOUS
  <2>3. IF "drainRestore" = "drainEmpty" THEN before[w] = contents[Store]
                                         ELSE database[Store] \ {} = before[w]
    BY <1>3 DEF ReadingInv, TransactionInv, DatabaseInv
  <2> QED BY <1>1, <1>2, <2>1, <2>2, <2>3, SnapshotPublish
<1>5. \A u \in Writer : u # w => wpc'[u] = "idle"
  BY <1>1, OthersIdle DEF ReadingInv, TransactionInv, PTypeOK, TypeOK
<1>6. HeapInv!(w)'
  BY <1>1, <1>3 DEF ReadingInv, HeapInv
<1>7. HeapInv'
  BY <1>1, <1>5, <1>6, HeapFrame DEF ReadingInv
<1> QED BY <1>4, <1>7 DEF ReadingInv

\* When the request is committed only the last version can be read, and it stands for
\* what the tables hold from then on.
LEMMA WholeCommit ==
    ASSUME ReadingInv, TransactionInv', NEW w \in Writer, Commit(w)
    PROVE  ReadingInv'
<1>1. /\ wpc[w] = "returning" /\ connected[w] /\ ~connected'[w]
      /\ database' = [p \in Persisted |-> contents[p]]
      /\ UNCHANGED <<contents, versionVars, writeLocked, objectsToAdd, objectsToRemove,
                     readerVars, connection, snapshot, before>>
      /\ Store \in Persisted
  BY PersistedAssumption DEF Commit, ReadingInv, TransactionInv, PTypeOK
<1>2. PICK pc \in {"returning", "throwing"} : wpc' = [wpc EXCEPT ![w] = pc]
  BY DEF Commit
<1>3. /\ wpc'[w] = pc
      /\ \A u \in Writer : u # w => wpc[u] = "idle" /\ wpc'[u] = "idle"
  BY <1>1, <1>2, OthersIdle DEF ReadingInv, TransactionInv, PTypeOK, TypeOK
<1>4. /\ \A u \in Writer : ~AwaitingCommit(u)'
      /\ ~Uncommitted(w)'
      /\ AwaitingCommit(w)
  BY <1>1, <1>3 DEF AwaitingCommit, Uncommitted
<1>5. HeapInv!(w)'
  BY <1>1, <1>3, <1>4 DEF ReadingInv, HeapInv
<1>6. HeapInv'
  BY <1>1, <1>3, <1>5, HeapFrame DEF ReadingInv
<1>7. \A v \in 1 .. currentVersion :
          v \notin writeLocked => database'[Store] \ objectsToExclude[v] = committed[v]
  <2>1. \A v \in 1 .. currentVersion : v \notin writeLocked => v = currentVersion
    BY <1>1, <1>3 DEF ReadingInv, TransactionInv, LockInv, Draining
  <2>2. /\ committed[currentVersion] = contents[Store]
        /\ objectsToExclude[currentVersion] = {}
    BY <1>1, <1>4 DEF ReadingInv, SnapshotInv, TransactionInv, ExclusionInv
  <2> QED BY <1>1, <2>1, <2>2
<1>8. SnapshotInv' /\ PReaderInv' /\ ViewInv'
  <2>1. \A r \in Reader : rpc[r] \in Reading => thisVersion[r] \notin writeLocked'
    BY <1>1 DEF ReadingInv, PReaderInv
  <2> QED BY <1>1, <1>4, <1>7, <2>1, SnapshotMove
<1> QED BY <1>6, <1>8 DEF ReadingInv

\* When the commit fails, the readers of the last version have their snapshots from
\* before the transaction.
LEMMA WholeCommitFails ==
    ASSUME ReadingInv, TransactionInv', NEW w \in Writer, CommitFails(w)
    PROVE  ReadingInv'
<1>1. /\ wpc[w] = "returning" /\ connected[w] /\ ~connected'[w]
      /\ contents' = RolledBack
      /\ committed' = [committed EXCEPT ![currentVersion] = before[w]]
      /\ TornOnHeap(currentVersion)
      /\ wpc' = [wpc EXCEPT ![w] = "throwing"] /\ wpc'[w] = "throwing"
      /\ UNCHANGED <<currentVersion, objectsToExclude, writeLocked, objectsToAdd,
                     objectsToRemove, readerVars, database, connection, snapshot, before>>
      /\ Store \in Persisted /\ Persisted \subseteq Place
  BY PersistedAssumption DEF CommitFails, ReadingInv, TransactionInv, PTypeOK, TypeOK
<1>2. \A u \in Writer : u # w => wpc[u] = "idle" /\ wpc'[u] = "idle"
  BY <1>1, OthersIdle DEF ReadingInv, TransactionInv, PTypeOK, TypeOK
<1>3. /\ \A u \in Writer : ~AwaitingCommit(u)'
      /\ AwaitingCommit(w) /\ Uncommitted(w) /\ ~Uncommitted(w)'
  BY <1>1, <1>2 DEF AwaitingCommit, Uncommitted
<1>4. HeapInv!(w)'
  BY <1>1, <1>3 DEF ReadingInv, HeapInv
<1>5. HeapInv'
  BY <1>1, <1>2, <1>4, HeapFrame DEF ReadingInv
<1>6. /\ currentVersion \in 1 .. currentVersion /\ currentVersion \in Nat
      /\ committed'[currentVersion] = before[w]
      /\ \A v \in 1 .. currentVersion : v # currentVersion => committed'[v] = committed[v]
      /\ torn \subseteq torn'
      /\ Place # Persisted => currentVersion \in torn'
      /\ objectsToExclude[currentVersion] = {}
      /\ database[Store] = before[w]
  <2>1. /\ currentVersion \in 1 .. currentVersion /\ currentVersion \in Nat
        /\ 1 .. currentVersion \subseteq VersionNumber
    BY CurrentReadable DEF ReadingInv
  <2>2. committed \in [VersionNumber -> SUBSET Object]
    BY DEF ReadingInv, TransactionInv, PTypeOK, TypeOK
  <2>3. /\ torn \subseteq torn'
        /\ Place # Persisted => currentVersion \in torn'
    BY <1>1 DEF TornOnHeap
  <2>4. objectsToExclude[currentVersion] = {}
    BY <1>1 DEF ReadingInv, TransactionInv, ExclusionInv
  <2>5. database[Store] = before[w]
    BY <1>3 DEF ReadingInv, TransactionInv, DatabaseInv
  <2> QED BY <1>1, <2>1, <2>2, <2>3, <2>4, <2>5
<1>7. \A v \in 1 .. currentVersion : v \notin writeLocked => v = currentVersion
  BY <1>1, <1>2 DEF ReadingInv, TransactionInv, LockInv, Draining
<1>8. SnapshotInv'
  <2>1. ASSUME NEW v \in 1 .. currentVersion', v \notin writeLocked'
        PROVE  SnapshotInv!1!(v)!2'
    <3>1. v = currentVersion
      BY <1>1, <1>7, <2>1
    <3>2. v \notin torn' => Place \ Persisted = {}
      BY <1>6, <3>1
    <3> QED BY <1>1, <1>6, <3>1, <3>2
  <2>2. ASSUME NEW u \in Writer
        PROVE  SnapshotInv!2!(u)'
    BY <1>1, <1>2, <1>3, <1>6
  <2> QED BY <2>1, <2>2 DEF SnapshotInv
<1>9. PReaderInv'
  <2>1. \A r \in Reader : rpc[r] \in Reading => thisVersion[r] \notin writeLocked'
    BY <1>1 DEF ReadingInv, PReaderInv
  <2>2. currentVersion <= currentVersion
    BY <1>6
  <2> QED BY <1>1, <1>6, <2>1, <2>2, PReadersKept DEF ReadingInv
<1>10. ViewInv'
  <2> SUFFICES ASSUME NEW r \in Reader, Sound(r)'
               PROVE  ViewInv!(r)!2'
    BY DEF ViewInv
  <2>1. /\ rpc[r] \in Reading
        /\ thisVersion[r] \in 1 .. currentVersion
    BY <1>1, BoundAssumption
    DEF Sound, Reading, ReadingInv, PReaderInv, TransactionInv, PTypeOK, TypeOK, VersionNumber
  <2>2. thisVersion[r] = currentVersion
    BY <1>7, <2>1 DEF ReadingInv, PReaderInv
  <2>3. place[r] \in Place
    BY DEF ReadingInv, TransactionInv, PTypeOK, TypeOK
  <2>4. connection[r] = "open"
    BY <1>1, <1>6, <2>2, <2>3 DEF Sound
  <2>5. place[r] \in Persisted /\ Sound(r)
    BY <1>1, <2>4 DEF ReadingInv, TransactionInv, ConnectionInv, Sound
  <2>6. Seen(r)' = Seen(r) /\ Seen(r) = snapshot[r]
    BY <1>1, <1>6, <2>2, <2>5 DEF Seen
  <2>7. /\ rpc[r] = "filtering" => fetched[r] \in Seen(r) \cup objectsToExclude[thisVersion[r]]
        /\ \A o \in Object \ (unvisited[r] \cup {fetched[r]}) : o \in result[r] <=> o \in Seen(r)
    BY <2>5 DEF ReadingInv, ViewInv
  <2> QED BY <1>1, <1>3, <2>6, <2>7
<1> QED BY <1>5, <1>8, <1>9, <1>10 DEF ReadingInv

\* update() leaves writeMutex; nothing else ends with it.
LEMMA WholeReturn ==
    ASSUME ReadingInv, TransactionInv', NEW w \in Writer, PReturn(w)
    PROVE  ReadingInv'
<1>1. /\ wpc[w] \in {"returning", "throwing"} /\ ~connected[w]
      /\ wpc'[w] = "idle" /\ objectsToAdd'[w] = {} /\ objectsToRemove'[w] = {}
      /\ \A u \in Writer : u # w => /\ objectsToAdd'[u] = objectsToAdd[u]
                                    /\ objectsToRemove'[u] = objectsToRemove[u]
                                    /\ wpc'[u] = wpc[u]
      /\ UNCHANGED <<contents, versionVars, writeLocked, readerVars, database, connected,
                     connection, snapshot>>
  BY DEF PReturn, Return, ReadingInv, TransactionInv, PTypeOK, TypeOK
<1>2. \A u \in Writer : wpc'[u] = "idle" /\ ~AwaitingCommit(u)'
  BY <1>1, OthersIdle DEF ReadingInv, TransactionInv, AwaitingCommit
<1>3. HeapInv!(w)'
  BY <1>1 DEF Uncommitted
<1>4. HeapInv'
  BY <1>1, <1>2, <1>3, HeapFrame DEF ReadingInv
<1>5. SnapshotInv' /\ PReaderInv' /\ ViewInv'
  <2>1. \A v \in 1 .. currentVersion :
            v \notin writeLocked => database[Store] \ objectsToExclude[v] = committed[v]
    <3>1. wpc[w] # "idle" /\ ~AwaitingCommit(w)
      BY <1>1 DEF AwaitingCommit
    <3> QED BY <3>1, ReadableVersions
  <2>2. \A r \in Reader : rpc[r] \in Reading => thisVersion[r] \notin writeLocked'
    BY <1>1 DEF ReadingInv, PReaderInv
  <2> QED BY <1>1, <1>2, <2>1, <2>2, SnapshotMove
<1> QED BY <1>4, <1>5 DEF ReadingInv

\* A reader's step concerns that reader only.
LEMMA WholeReaderFrame ==
    ASSUME ReadingInv, TransactionInv', NEW r \in Reader,
           UNCHANGED <<collectionVars, versionVars, writeLocked, writeMutex, writerVars,
                       database, connected, before>>,
           \A q \in Reader : q # r =>
               /\ rpc'[q] = rpc[q] /\ thisVersion'[q] = thisVersion[q] /\ place'[q] = place[q]
               /\ (filtering'[q] <=> filtering[q]) /\ unvisited'[q] = unvisited[q]
               /\ fetched'[q] = fetched[q] /\ result'[q] = result[q]
               /\ connection'[q] = connection[q] /\ snapshot'[q] = snapshot[q],
           PReaderInv!(r)', ViewInv!(r)'
    PROVE  ReadingInv'
<1>1. /\ UNCHANGED <<contents, currentVersion, objectsToExclude, committed, torn, writeLocked,
                     wpc, objectsToAdd, objectsToRemove, todo, database, connected, before>>
      /\ \A w \in Writer : /\ Uncommitted(w)' <=> Uncommitted(w)
                           /\ AwaitingCommit(w)' <=> AwaitingCommit(w)
  BY DEF Uncommitted, AwaitingCommit
<1>2. HeapInv'
  BY <1>1 DEF ReadingInv, HeapInv
<1>3. SnapshotInv'
  BY <1>1 DEF ReadingInv, SnapshotInv
<1>4. PReaderInv'
  <2>1. ASSUME NEW q \in Reader, q # r
        PROVE  PReaderInv!(q)'
    BY <1>1, <2>1, SMTT(30) DEF ReadingInv, PReaderInv
  <2> QED BY <2>1 DEF PReaderInv
<1>5. ViewInv'
  <2>1. ASSUME NEW q \in Reader, q # r
        PROVE  ViewInv!(q)'
    <3>1. /\ Sound(q)' <=> Sound(q)
          /\ Seen(q)' = Seen(q)
      BY <1>1, <2>1 DEF Sound, Seen
    <3> QED BY <1>1, <2>1, <3>1 DEF ReadingInv, ViewInv
  <2> QED BY <2>1 DEF ViewInv
<1> QED BY <1>2, <1>3, <1>4, <1>5 DEF ReadingInv

\* The locals of readers have their types; a version that is being read can be.
LEMMA PReaderLocals ==
    ASSUME ReadingInv, NEW r \in Reader
    PROVE  /\ rpc \in [Reader -> ReaderPC] /\ thisVersion \in [Reader -> VersionNumber]
           /\ place \in [Reader -> Place] /\ filtering \in [Reader -> BOOLEAN]
           /\ unvisited \in [Reader -> SUBSET Object]
           /\ fetched \in [Reader -> Object \cup {NoObject}]
           /\ result \in [Reader -> SUBSET Object]
           /\ connection \in [Reader -> ConnectionState]
           /\ snapshot \in [Reader -> SUBSET Object]
           /\ thisVersion[r] \in 1 .. currentVersion
           /\ currentVersion \in 1 .. currentVersion /\ 1 \in 1 .. currentVersion
           /\ PReaderInv!(r) /\ ConnectionInv!(r)
<1>1. currentVersion \in VersionNumber /\ thisVersion[r] \in VersionNumber
  BY DEF ReadingInv, TransactionInv, PTypeOK, TypeOK
<1>2. thisVersion[r] <= currentVersion
  BY DEF ReadingInv, PReaderInv
<1>3. /\ thisVersion[r] \in 1 .. currentVersion
      /\ currentVersion \in 1 .. currentVersion /\ 1 \in 1 .. currentVersion
  BY <1>1, <1>2, BoundAssumption DEF VersionNumber
<1>4. PReaderInv!(r) /\ ConnectionInv!(r)
  BY DEF ReadingInv, PReaderInv, TransactionInv, ConnectionInv
<1> QED BY <1>3, <1>4 DEF ReadingInv, TransactionInv, PTypeOK, TypeOK

\* Choosing a version, locking it and closing the ResultSet.
LEMMA WholeBeforeAndAfterReading ==
    ASSUME ReadingInv, TransactionInv', NEW r \in Reader,
           \/ PReadCurrentVersion(r)
           \/ TryReadLock(r) /\ UNCHANGED persistenceVars
           \/ PClose(r)
    PROVE  ReadingInv'
<1>1. /\ UNCHANGED <<collectionVars, versionVars, writeLocked, writeMutex, writerVars,
                     database, connected, before>>
      /\ \A q \in Reader : q # r =>
             /\ rpc'[q] = rpc[q] /\ thisVersion'[q] = thisVersion[q] /\ place'[q] = place[q]
             /\ (filtering'[q] <=> filtering[q]) /\ unvisited'[q] = unvisited[q]
             /\ fetched'[q] = fetched[q] /\ result'[q] = result[q]
             /\ connection'[q] = connection[q] /\ snapshot'[q] = snapshot[q]
  <2>1. CASE PReadCurrentVersion(r)
    BY <2>1, PReaderLocals DEF PReadCurrentVersion, ReadCurrentVersion
  <2>2. CASE TryReadLock(r) /\ UNCHANGED persistenceVars
    <3>1. /\ thisVersion' = [thisVersion EXCEPT ![r] = currentVersion] \/ UNCHANGED thisVersion
          /\ rpc' = [rpc EXCEPT ![r] = "locked"] \/ UNCHANGED rpc
          /\ UNCHANGED <<collectionVars, versionVars, writeLocked, writeMutex, writerVars,
                         place, filtering, unvisited, fetched, result, persistenceVars>>
      BY <2>2 DEF TryReadLock
    <3> QED BY <3>1, PReaderLocals
  <2>3. CASE PClose(r)
    BY <2>3, PReaderLocals DEF PClose, Close, Forget
  <2> QED BY <2>1, <2>2, <2>3
<1>2. /\ rpc'[r] \notin {"iterating", "filtering"}
      /\ thisVersion'[r] <= currentVersion
      /\ rpc'[r] \in Reading => thisVersion'[r] \notin writeLocked
      /\ result'[r] = {} /\ fetched'[r] = NoObject
  <2>1. CASE PReadCurrentVersion(r)
    BY <2>1, PReaderLocals, CurrentReadable DEF PReadCurrentVersion, ReadCurrentVersion, Reading, ReadingInv
  <2>2. CASE TryReadLock(r)
    BY <2>2, PReaderLocals, CurrentReadable DEF TryReadLock, Reading, ReadingInv
  <2>3. CASE PClose(r)
    <3>1. 1 <= currentVersion
      BY PReaderLocals
    <3> QED BY <2>3, <3>1, PReaderLocals DEF PClose, Close, Forget, Reading
  <2> QED BY <2>1, <2>2, <2>3
<1>3. fetched'[r] \notin unvisited'[r] /\ result'[r] \cap unvisited'[r] = {}
  <2>1. unvisited' \in [Reader -> SUBSET Object]
    BY DEF TransactionInv, PTypeOK, TypeOK
  <2> QED BY <1>2, <2>1, NullAssumption
<1>4. PReaderInv!(r)'
  BY <1>1, <1>2, <1>3
<1>5. ViewInv!(r)'
  BY <1>2 DEF Sound
<1> QED BY <1>1, <1>4, <1>5, WholeReaderFrame

\* retrieve() with the lock held begins an iteration.
LEMMA WholeRetrieve ==
    ASSUME ReadingInv, TransactionInv', NEW r \in Reader, NEW p \in Place,
           Retrieve(r, p), UNCHANGED persistenceVars
    PROVE  ReadingInv'
<1>1. /\ UNCHANGED <<collectionVars, versionVars, writeLocked, writeMutex, writerVars,
                     database, connected, before>>
      /\ \A q \in Reader : q # r =>
             /\ rpc'[q] = rpc[q] /\ thisVersion'[q] = thisVersion[q] /\ place'[q] = place[q]
             /\ (filtering'[q] <=> filtering[q]) /\ unvisited'[q] = unvisited[q]
             /\ fetched'[q] = fetched[q] /\ result'[q] = result[q]
             /\ connection'[q] = connection[q] /\ snapshot'[q] = snapshot[q]
  BY PReaderLocals DEF Retrieve
<1>2. /\ rpc[r] = "locked" /\ rpc'[r] = "iterating" /\ place'[r] = p /\ unvisited'[r] = Object
      /\ (filtering'[r] <=> \E o \in Object : Excluded(thisVersion[r], o))
      /\ thisVersion'[r] = thisVersion[r] /\ fetched'[r] = NoObject /\ result'[r] = {}
      /\ connection'[r] = "none"
      /\ thisVersion[r] <= currentVersion /\ thisVersion[r] \notin writeLocked
  BY PReaderLocals DEF Retrieve, Reading
<1>3. (\E o \in Object : Excluded(thisVersion[r], o)) <=> objectsToExclude[thisVersion[r]] # {}
  <2>1. lazyExclude = {} /\ objectsToExclude[thisVersion[r]] \subseteq Object
    BY PReaderLocals DEF ReadingInv, TransactionInv, ExclusionInv, PTypeOK, TypeOK
  <2> QED BY <2>1 DEF Excluded
<1>4. PReaderInv!(r)'
  BY <1>1, <1>2, <1>3, NullAssumption
<1>5. ViewInv!(r)'
  BY <1>1, <1>2, PReaderLocals DEF Sound, Seen
<1> QED BY <1>1, <1>4, <1>5, WholeReaderFrame

\* isValid() decides about the object fetched.
LEMMA WholeFilter ==
    ASSUME ReadingInv, TransactionInv', NEW r \in Reader, Filter(r), UNCHANGED persistenceVars
    PROVE  ReadingInv'
<1>1. /\ UNCHANGED <<collectionVars, versionVars, writeLocked, writeMutex, writerVars,
                     database, connected, before>>
      /\ \A q \in Reader : q # r =>
             /\ rpc'[q] = rpc[q] /\ thisVersion'[q] = thisVersion[q] /\ place'[q] = place[q]
             /\ (filtering'[q] <=> filtering[q]) /\ unvisited'[q] = unvisited[q]
             /\ fetched'[q] = fetched[q] /\ result'[q] = result[q]
             /\ connection'[q] = connection[q] /\ snapshot'[q] = snapshot[q]
  BY PReaderLocals DEF Filter
<1>2. /\ rpc[r] = "filtering" /\ rpc'[r] = "iterating" /\ fetched'[r] = NoObject
      /\ thisVersion'[r] = thisVersion[r] /\ place'[r] = place[r]
      /\ (filtering'[r] <=> filtering[r]) /\ unvisited'[r] = unvisited[r]
      /\ connection'[r] = connection[r] /\ snapshot'[r] = snapshot[r]
      /\ fetched[r] \in Object /\ fetched[r] \notin unvisited[r] \cup result[r]
      /\ result[r] \subseteq Object /\ unvisited[r] \subseteq Object
      /\ result[r] \cap unvisited[r] = {}
      /\ (filtering[r] <=> objectsToExclude[thisVersion[r]] # {})
      /\ place[r] \in Persisted => connection[r] = "open"
      /\ thisVersion[r] <= currentVersion /\ thisVersion[r] \notin writeLocked
  BY PReaderLocals DEF Filter, Reading
<1>3. result'[r] = IF fetched[r] \in objectsToExclude[thisVersion[r]]
                   THEN result[r] ELSE result[r] \cup {fetched[r]}
  <2>1. result'[r] = IF filtering[r] /\ Excluded(thisVersion[r], fetched[r])
                     THEN result[r] ELSE result[r] \cup {fetched[r]}
    BY PReaderLocals DEF Filter
  <2>2. filtering[r] /\ Excluded(thisVersion[r], fetched[r])
            <=> fetched[r] \in objectsToExclude[thisVersion[r]]
    BY <1>2 DEF ReadingInv, TransactionInv, ExclusionInv, Excluded
  <2> QED BY <2>1, <2>2
<1>4. PReaderInv!(r)'
  <2>1. NoObject \notin unvisited[r] \cup result'[r] /\ result'[r] \cap unvisited[r] = {}
    BY <1>2, <1>3, NullAssumption
  <2> QED BY <1>1, <1>2, <2>1
<1>5. ViewInv!(r)'
  <2> SUFFICES ASSUME Sound(r)'
               PROVE  ViewInv!(r)!2'
    OBVIOUS
  <2>1. Sound(r) /\ Seen(r)' = Seen(r)
    BY <1>1, <1>2 DEF Sound, Seen
  <2>2. fetched[r] \in Seen(r) <=> fetched[r] \notin objectsToExclude[thisVersion[r]]
    <3>1. fetched[r] \in Seen(r) \cup objectsToExclude[thisVersion[r]]
      BY <1>2, <2>1 DEF ReadingInv, ViewInv
    <3>2. CASE place[r] \in Persisted
      BY <3>1, <3>2 DEF Seen
    <3>3. CASE place[r] \notin Persisted
      <4>1. thisVersion[r] \notin torn
        BY <2>1, <3>3, PReaderLocals DEF Sound
      <4>2. contents[place[r]] \ objectsToExclude[thisVersion[r]] = committed[thisVersion[r]]
        BY <1>2, <3>3, <4>1, PReaderLocals DEF ReadingInv, SnapshotInv
      <4> QED BY <3>1, <3>3, <4>2 DEF Seen
    <3> QED BY <3>2, <3>3
  <2>3. \A o \in Object \ (unvisited[r] \cup {fetched[r]}) : o \in result[r] <=> o \in Seen(r)
    BY <2>1 DEF ReadingInv, ViewInv
  <2>4. \A o \in Object \ (unvisited'[r] \cup {fetched'[r]}) :
            o \in result'[r] <=> o \in Seen(r)'
    BY <1>2, <1>3, <2>1, <2>2, <2>3
  <2>5. ViewInv!(r)!2
    BY <2>1 DEF ReadingInv, ViewInv
  <2>6. \A w \in Writer : AwaitingCommit(w)' <=> AwaitingCommit(w)
    BY <1>1 DEF AwaitingCommit
  <2> QED BY <1>1, <1>2, <2>1, <2>4, <2>5, <2>6
<1> QED BY <1>1, <1>4, <1>5, WholeReaderFrame

\* A reader asks for a connection.
LEMMA WholeGetConnection ==
    ASSUME ReadingInv, TransactionInv', NEW r \in Reader, GetConnection(r)
    PROVE  ReadingInv'
<1>1. /\ UNCHANGED <<collectionVars, versionVars, writeLocked, writeMutex, writerVars,
                     database, connected, before>>
      /\ \A q \in Reader : q # r =>
             /\ rpc'[q] = rpc[q] /\ thisVersion'[q] = thisVersion[q] /\ place'[q] = place[q]
             /\ (filtering'[q] <=> filtering[q]) /\ unvisited'[q] = unvisited[q]
             /\ fetched'[q] = fetched[q] /\ result'[q] = result[q]
             /\ connection'[q] = connection[q] /\ snapshot'[q] = snapshot[q]
      /\ UNCHANGED <<rpc, thisVersion, place, filtering, unvisited, fetched, result, snapshot>>
      /\ place[r] \in Persisted /\ connection[r] = "none" /\ connection'[r] = "opening"
  BY PReaderLocals DEF GetConnection, vars
<1>2. PReaderInv!(r)'
  BY <1>1, PReaderLocals
<1>3. ViewInv!(r)'
  BY <1>1 DEF Sound
<1> QED BY <1>1, <1>2, <1>3, WholeReaderFrame

\* What is committed when the connection begins to read is, for a reader of the last
\* version of a transaction not yet committed, the collection before the transaction.
LEMMA WholeOpenReadConnection ==
    ASSUME ReadingInv, TransactionInv', NEW r \in Reader, OpenReadConnection(r)
    PROVE  ReadingInv'
<1>1. /\ UNCHANGED <<collectionVars, versionVars, writeLocked, writeMutex, writerVars,
                     database, connected, before>>
      /\ \A q \in Reader : q # r =>
             /\ rpc'[q] = rpc[q] /\ thisVersion'[q] = thisVersion[q] /\ place'[q] = place[q]
             /\ (filtering'[q] <=> filtering[q]) /\ unvisited'[q] = unvisited[q]
             /\ fetched'[q] = fetched[q] /\ result'[q] = result[q]
             /\ connection'[q] = connection[q] /\ snapshot'[q] = snapshot[q]
      /\ UNCHANGED <<rpc, thisVersion, place, filtering, unvisited, fetched, result>>
      /\ connection[r] = "opening" /\ connection'[r] = "open"
      /\ snapshot'[r] = database[place[r]]
  BY PReaderLocals DEF OpenReadConnection, vars
<1>2. /\ rpc[r] = "iterating" /\ place[r] \in Persisted /\ unvisited[r] = Object
      /\ result[r] = {} /\ thisVersion[r] \notin writeLocked
      /\ thisVersion[r] \in 1 .. currentVersion
  BY <1>1, PReaderLocals DEF Reading
<1>3. snapshot'[r] = database[Store]
  BY <1>1, <1>2 DEF ReadingInv, TransactionInv, DatabaseInv
<1>4. PReaderInv!(r)'
  BY <1>1, PReaderLocals
<1>5. \A w \in Writer : AwaitingCommit(w) => database[Store] = before[w]
  BY DEF ReadingInv, TransactionInv, DatabaseInv, AwaitingCommit, Uncommitted
<1>6. ViewInv!(r)'
  <2>1. \A w \in Writer : AwaitingCommit(w)' <=> AwaitingCommit(w)
    BY <1>1 DEF AwaitingCommit
  <2>2. Seen(r)' = database[Store] \ objectsToExclude[thisVersion[r]]
    BY <1>1, <1>2, <1>3 DEF Seen
  <2> QED BY <1>1, <1>2, <1>3, <1>5, <2>1, <2>2
<1> QED BY <1>1, <1>4, <1>6, WholeReaderFrame

\* The iteration comes by the slot or the row of an object, of which it sees what is
\* there: in a table, what the snapshot holds.
LEMMA WholeFetch ==
    ASSUME ReadingInv, TransactionInv', NEW r \in Reader, NEW o \in Object,
           FetchRow(r, o) \/ FetchOnHeap(r, o)
    PROVE  ReadingInv'
<1> DEFINE There == o \in IF place[r] \in Persisted THEN snapshot[r] ELSE contents[place[r]]
<1>1. /\ UNCHANGED <<collectionVars, versionVars, writeLocked, writeMutex, writerVars,
                     database, connected, before>>
      /\ UNCHANGED <<thisVersion, place, filtering, result, connection, snapshot>>
      /\ rpc[r] = "iterating" /\ o \in unvisited[r]
      /\ unvisited' = [unvisited EXCEPT ![r] = @ \ {o}]
      /\ place[r] \in Persisted => connection[r] = "open"
      /\ place[r] \notin Persisted => connection[r] = "none"
      /\ IF There THEN /\ fetched' = [fetched EXCEPT ![r] = o]
                       /\ rpc' = [rpc EXCEPT ![r] = "filtering"]
                  ELSE UNCHANGED <<fetched, rpc>>
  BY PReaderLocals DEF FetchRow, FetchOnHeap, Fetch, ConnectionState
<1>2. /\ \A q \in Reader : q # r =>
             /\ rpc'[q] = rpc[q] /\ thisVersion'[q] = thisVersion[q] /\ place'[q] = place[q]
             /\ (filtering'[q] <=> filtering[q]) /\ unvisited'[q] = unvisited[q]
             /\ fetched'[q] = fetched[q] /\ result'[q] = result[q]
             /\ connection'[q] = connection[q] /\ snapshot'[q] = snapshot[q]
      /\ unvisited'[r] = unvisited[r] \ {o}
      /\ There => rpc'[r] = "filtering" /\ fetched'[r] = o
      /\ ~There => rpc'[r] = "iterating" /\ fetched'[r] = NoObject
      /\ fetched[r] = NoObject /\ o # NoObject
      /\ o \notin result[r] /\ result[r] \cap unvisited[r] = {}
      /\ thisVersion[r] \in 1 .. currentVersion /\ thisVersion[r] \notin writeLocked
  BY <1>1, PReaderLocals, NullAssumption DEF Reading
<1>3. PReaderInv!(r)'
  <2>1. fetched'[r] \notin unvisited'[r] \cup result[r] /\ result[r] \cap unvisited'[r] = {}
    BY <1>2, PReaderLocals, NullAssumption
  <2> QED BY <1>1, <1>2, <2>1, PReaderLocals
<1>4. ViewInv!(r)'
  <2> SUFFICES ASSUME Sound(r)'
               PROVE  ViewInv!(r)!2'
    OBVIOUS
  <2>1. Sound(r) /\ Seen(r)' = Seen(r)
    BY <1>1 DEF Sound, Seen
  <2>2. /\ There => o \in Seen(r) \cup objectsToExclude[thisVersion[r]]
        /\ ~There => o \notin Seen(r)
    <3>1. CASE place[r] \in Persisted
      BY <3>1 DEF Seen
    <3>2. CASE place[r] \notin Persisted
      <4>1. thisVersion[r] \notin torn
        BY <1>1, <2>1, <3>2 DEF Sound
      <4>2. place[r] \in Place \ Persisted
        BY <3>2, PReaderLocals
      <4>3. contents[place[r]] \ objectsToExclude[thisVersion[r]] = committed[thisVersion[r]]
        BY <1>2, <4>1, <4>2 DEF ReadingInv, SnapshotInv
      <4> QED BY <3>2, <4>3 DEF Seen
    <3> QED BY <3>1, <3>2
  <2>3. ViewInv!(r)!2
    BY <2>1 DEF ReadingInv, ViewInv
  <2>4. rpc'[r] = "filtering" => fetched'[r] \in Seen(r)' \cup objectsToExclude'[thisVersion'[r]]
    BY <1>1, <1>2, <2>1, <2>2
  <2>5. \A x \in Object \ (unvisited'[r] \cup {fetched'[r]}) :
            x \in result'[r] <=> x \in Seen(r)'
    <3> TAKE x \in Object \ (unvisited'[r] \cup {fetched'[r]})
    <3>1. CASE x = o
      <4>1. ~There
        BY <1>2, <3>1
      <4> QED BY <1>1, <1>2, <2>1, <2>2, <3>1, <4>1
    <3>2. CASE x # o
      <4>1. x \in Object \ (unvisited[r] \cup {fetched[r]})
        BY <1>2, <3>2, NullAssumption
      <4>2. x \in result[r] <=> x \in Seen(r)
        BY <2>3, <4>1
      <4> QED BY <1>1, <2>1, <4>2
    <3> QED BY <3>1, <3>2
  <2>6. \A w \in Writer : AwaitingCommit(w)' <=> AwaitingCommit(w)
    BY <1>1 DEF AwaitingCommit
  <2>7. \A w \in Writer :
            (/\ AwaitingCommit(w)' /\ committed'[currentVersion'] # before'[w]
             /\ connection'[r] = "open" /\ thisVersion'[r] = currentVersion')
            => snapshot'[r] = before'[w]
    BY <1>1, <2>3, <2>6
  <2> QED BY <2>4, <2>5, <2>7
<1> QED BY <1>1, <1>2, <1>3, <1>4, WholeReaderFrame

\* The second invariant holds of an idle collection, whose first version stands for
\* what every place holds.
LEMMA WholeInit == PInit => ReadingInv
<1> SUFFICES ASSUME PInit
             PROVE  ReadingInv
  OBVIOUS
<1>1. TransactionInv
  BY TransactionInit
<1>2. /\ \A w \in Writer : /\ wpc[w] = "idle" /\ ~connected[w]
                           /\ objectsToAdd[w] = {} /\ objectsToRemove[w] = {}
      /\ \A r \in Reader : /\ connection[r] = "none" /\ rpc[r] = "idle"
                           /\ fetched[r] = NoObject /\ result[r] = {} /\ unvisited[r] = {}
                           /\ thisVersion[r] = 1
      /\ currentVersion = 1 /\ torn = {} /\ objectsToExclude[1] = {}
      /\ 1 \in VersionNumber
  BY BoundAssumption DEF PInit, Init, VersionNumber
<1>3. \A p \in Place : contents[p] = committed[1]
  BY <1>2 DEF PInit, Init
<1>4. database[Store] = committed[1]
  BY <1>3, PersistedAssumption DEF PInit
<1>5. HeapInv
  BY <1>2 DEF HeapInv, Uncommitted
<1>6. SnapshotInv
  <2>1. \A v \in 1 .. currentVersion : v = 1
    BY <1>2
  <2>2. \A w \in Writer : ~AwaitingCommit(w)
    BY <1>2 DEF AwaitingCommit
  <2> QED BY <1>2, <1>3, <1>4, <2>1, <2>2 DEF SnapshotInv
<1>7. PReaderInv /\ ViewInv
  BY <1>2 DEF PReaderInv, ViewInv, Sound, Reading
<1> QED BY <1>1, <1>5, <1>6, <1>7 DEF ReadingInv

\* Stuttering.
LEMMA WholeStutter ==
    ASSUME ReadingInv, TransactionInv', UNCHANGED pvars
    PROVE  ReadingInv'
<1>1. UNCHANGED <<contents, currentVersion, objectsToExclude, committed, torn, writeLocked,
                  wpc, objectsToAdd, objectsToRemove, todo, rpc, thisVersion, place, filtering,
                  unvisited, fetched, result, database, connected, connection, snapshot, before>>
  BY DEF pvars, vars
<1>2. /\ \A w \in Writer : /\ Uncommitted(w)' <=> Uncommitted(w)
                           /\ AwaitingCommit(w)' <=> AwaitingCommit(w)
      /\ \A r \in Reader : (Sound(r)' <=> Sound(r)) /\ Seen(r)' = Seen(r)
  BY <1>1 DEF Uncommitted, AwaitingCommit, Sound, Seen
<1>3. HeapInv'
  BY <1>1, <1>2 DEF ReadingInv, HeapInv
<1>4. SnapshotInv'
  BY <1>1, <1>2 DEF ReadingInv, SnapshotInv
<1>5. PReaderInv'
  BY <1>1 DEF ReadingInv, PReaderInv
<1>6. ViewInv'
  BY <1>1, <1>2 DEF ReadingInv, ViewInv
<1> QED BY <1>3, <1>4, <1>5, <1>6 DEF ReadingInv

\* Every step preserves the second invariant.
LEMMA WholeNext ==
    ASSUME OneWay
    PROVE  ReadingInv /\ [PNext]_pvars => ReadingInv'
<1> SUFFICES ASSUME ReadingInv, [PNext]_pvars
             PROVE  ReadingInv'
  OBVIOUS
<1>1. TransactionInv'
  BY TransactionNext DEF ReadingInv
<1>2. ASSUME NEW w \in Writer,
             \/ PCall(w) \/ OpenWriteConnection(w) \/ PWriterStep(w)
             \/ StrictReplacementFails(w) \/ PFail(w) \/ CommitFails(w)
      PROVE  ReadingInv'
  <2>1. CASE PCall(w)
    BY <1>1, <2>1, PCallCases, WholeUpdate
  <2>2. CASE PVersionStep(w)
    BY <1>1, <2>2, WholeBeginAdd, WholeBeginRemove, WholeBeginEmpty, WholeDrain DEF PVersionStep
  <2>3. CASE PWriterStep(w) /\ ~PVersionStep(w)
    BY <1>1, <2>3, WholeQuietSteps, WholeChangeOne, WholeRestore, WholeCommit, WholeReturn
    DEF PWriterStep
  <2> QED BY <1>1, <1>2, <2>1, <2>2, <2>3, WholeQuietSteps, WholeCommitFails
<1>3. ASSUME NEW r \in Reader,
             \/ PReadCurrentVersion(r) \/ PReaderStep(r) \/ GetConnection(r)
             \/ OpenReadConnection(r) \/ PClose(r)
             \/ \E o \in Object : FetchRow(r, o) \/ FetchOnHeap(r, o)
      PROVE  ReadingInv'
  <2>1. CASE PReaderStep(r)
    BY <1>1, <2>1, WholeBeforeAndAfterReading, WholeRetrieve, WholeFilter DEF PReaderStep
  <2> QED BY <1>1, <1>3, <2>1, WholeBeforeAndAfterReading, WholeGetConnection,
             WholeOpenReadConnection, WholeFetch
<1> QED BY <1>1, <1>2, <1>3, WholeStutter DEF PNext

-----------------------------------------------------------------------------
(* What readers see has been, or is that of a failed removal               *)

\* The transaction of w accounts for what some readers see.
Accounts(w) ==
    wpc[w] \in {"drainRemove", "removing", "failed", "drainRestore"} \/ AwaitingCommit(w)

\* Without such a transaction there is only the past, ...
LEMMA AccountedPast ==
    ASSUME \A u \in Writer : ~Accounts(u), NEW v, NEW S, Accounted(v, S)
    PROVE  S \in past
BY DEF Accounts, Accounted, Whole, Undone

\* ... which remains.
LEMMA PastAccounted ==
    ASSUME NEW v, NEW S, S \in past
    PROVE  Accounted(v, S)
BY DEF Accounted, Whole

\* What is accounted for before a writer's step still is, for versions that can be read,
\* if the transaction goes on, is committed, or fails after its removals were hidden.
LEMMA AccountedKept ==
    ASSUME NEW w \in Writer, \A u \in Writer : u # w => wpc[u] = "idle",
           past \subseteq past', After(w)' = After(w),
           objectsToRemove'[w] = objectsToRemove[w],
           NEW v \in 1 .. currentVersion, v \notin writeLocked',
           objectsToExclude'[v] = objectsToExclude[v],
           wpc[w] \in {"drainRemove", "removing"} =>
               \/ wpc'[w] \in {"drainRemove", "removing"}
               \/ AwaitingCommit(w)' /\ contents'[Store] = After(w)
               \/ /\ wpc'[w] = "failed" /\ v = currentVersion'
                  /\ objectsToExclude[v] = objectsToRemove[w],
           AwaitingCommit(w) =>
               \/ AwaitingCommit(w)' /\ contents'[Store] = contents[Store]
               \/ contents[Store] \in past',
           wpc[w] = "failed" =>
               \/ wpc'[w] = "failed" /\ currentVersion' = currentVersion
               \/ wpc'[w] = "drainRestore" /\ previousVersion'[w] = currentVersion,
           wpc[w] = "drainRestore" =>
               \/ wpc'[w] = "drainRestore" /\ previousVersion'[w] = previousVersion[w]
               \/ previousVersion[w] \in writeLocked',
           NEW S, Accounted(v, S)
    PROVE  Accounted(v, S)'
<1>1. CASE S \in past
  BY <1>1 DEF Accounted, Whole
<1>2. CASE wpc[w] \in {"drainRemove", "removing"} /\ S = After(w)
  <2>1. CASE wpc'[w] \in {"drainRemove", "removing"}
    BY <1>2, <2>1 DEF Accounted, Whole
  <2>2. CASE AwaitingCommit(w)' /\ contents'[Store] = After(w)
    BY <1>2, <2>2 DEF Accounted, Whole
  <2>3. CASE /\ wpc'[w] = "failed" /\ v = currentVersion'
             /\ objectsToExclude[v] = objectsToRemove[w]
    BY <1>2, <2>3 DEF Accounted, Undone
  <2> QED BY <1>2, <2>1, <2>2, <2>3
<1>3. CASE AwaitingCommit(w) /\ S = contents[Store]
  BY <1>3 DEF Accounted, Whole
<1>4. CASE /\ wpc[w] = "failed" /\ v = currentVersion
           /\ objectsToExclude[v] = objectsToRemove[w] /\ S = After(w)
  BY <1>4 DEF Accounted, Undone
<1>5. CASE /\ wpc[w] = "drainRestore" /\ v = previousVersion[w]
           /\ objectsToExclude[v] = objectsToRemove[w] /\ S = After(w)
  BY <1>5 DEF Accounted, Undone
<1> QED BY <1>1, <1>2, <1>3, <1>4, <1>5 DEF Accounted, Whole, Undone, AwaitingCommit

\* So the third invariant is preserved by a writer's step that leaves readable versions
\* accounted for, and those that it publishes.
LEMMA HistoryKept ==
    ASSUME ReadingInv, HistoryInv, ReadingInv',
           UNCHANGED <<readerVars, connection, snapshot>>,
           currentVersion' \in Nat, writeLocked \subseteq writeLocked', torn \subseteq torn',
           \A v \in 1 .. currentVersion :
               /\ objectsToExclude'[v] = objectsToExclude[v]
               /\ committed'[v] = committed[v],
           database'[Store] \in past',
           \A v \in 1 .. currentVersion, S \in SUBSET Object :
               v \notin writeLocked' /\ Accounted(v, S) => Accounted(v, S)',
           \A v \in 1 .. currentVersion' :
               v \notin writeLocked' =>
                   \/ v \in 1 .. currentVersion /\ database'[Store] = database[Store]
                   \/ Accounted(v, database[Store] \ objectsToExclude[v])'
    PROVE  HistoryInv'
<1>1. database[Store] \in SUBSET Object
  BY PersistedAssumption DEF ReadingInv, TransactionInv, PTypeOK
<1>2. ASSUME NEW v \in 1 .. currentVersion', v \notin writeLocked'
      PROVE  Accounted(v, database[Store] \ objectsToExclude[v])'
  <2>1. CASE v \in 1 .. currentVersion /\ database'[Store] = database[Store]
    <3>1. Accounted(v, database[Store] \ objectsToExclude[v])
      BY <1>2, <2>1 DEF HistoryInv
    <3>2. database[Store] \ objectsToExclude[v] \in SUBSET Object
      BY <1>1
    <3>3. database'[Store] \ objectsToExclude'[v] = database[Store] \ objectsToExclude[v]
      BY <2>1
    <3>4. \A S : S = database[Store] \ objectsToExclude[v] => Accounted(v, S)'
      BY <1>2, <2>1, <3>1, <3>2
    <3> QED BY <3>3, <3>4 DEF Accounted, Whole, Undone
  <2> QED BY <1>2, <2>1
<1>3. ASSUME NEW r \in Reader, Sound(r)'
      PROVE  Accounted(thisVersion[r], Seen(r))'
  <2> DEFINE v == thisVersion[r]
  <2>1. v \in 1 .. currentVersion /\ snapshot[r] \in SUBSET Object
    BY PReaderLocals
  <2>2. v \notin writeLocked'
    BY <1>3 DEF ReadingInv, PReaderInv, Sound, Reading
  <2>3. Sound(r) /\ Seen(r)' = Seen(r)
    BY <1>3, <2>1 DEF Sound, Seen
  <2>4. Seen(r) \in SUBSET Object
    BY <2>1, CurrentReadable DEF Seen, ReadingInv, TransactionInv, PTypeOK, TypeOK
  <2>5. Accounted(v, Seen(r))
    BY <2>3 DEF HistoryInv
  <2>6. \A S : S = Seen(r) => Accounted(v, S)'
    BY <2>1, <2>2, <2>4, <2>5
  <2> QED BY <2>3, <2>6 DEF Accounted, Whole, Undone
<1> QED BY <1>2, <1>3 DEF HistoryInv

\* A writer's step that publishes and commits nothing.
LEMMA HistoryMove ==
    ASSUME ReadingInv, HistoryInv, ReadingInv',
           UNCHANGED <<currentVersion, objectsToExclude, committed, torn, readerVars,
                       database, connection, snapshot, past>>,
           writeLocked \subseteq writeLocked',
           \A v \in 1 .. currentVersion, S \in SUBSET Object :
               v \notin writeLocked' /\ Accounted(v, S) => Accounted(v, S)'
    PROVE  HistoryInv'
<1>1. currentVersion \in Nat
  BY CurrentReadable DEF ReadingInv
<1>2. database'[Store] \in past'
  BY DEF HistoryInv
<1> QED BY <1>1, <1>2, HistoryKept

\* Entering and leaving update(), and being turned down: no transaction has shown
\* anything to readers yet, or its request scope is closed.
LEMMA HistoryPlain ==
    ASSUME ReadingInv, HistoryInv, ReadingInv', NEW w \in Writer,
           \/ PCall(w) \/ StrictReplacementFails(w) \/ PUpdateReturnsEarly(w) \/ PReturn(w)
    PROVE  HistoryInv'
<1>1. /\ wpc[w] \in {"idle", "entered", "throwing"} \/ (wpc[w] = "returning" /\ ~connected[w])
      /\ wpc[w] = "idle" => writeMutex = NoWriter
      /\ UNCHANGED <<currentVersion, objectsToExclude, committed, torn, writeLocked, readerVars,
                     database, connection, snapshot, past>>
  <2>1. CASE PCall(w)
    BY <2>1, PCallCases DEF PUpdate, Update
  <2> QED BY <2>1
          DEF StrictReplacementFails, PUpdateReturnsEarly, UpdateReturnsEarly, PReturn, Return
<1>2. \A u \in Writer : ~Accounts(u)
  <2>1. \A u \in Writer : u # w => wpc[u] = "idle"
    BY <1>1, NullAssumption DEF ReadingInv, TransactionInv, MutexInv
  <2> QED BY <1>1, <2>1 DEF Accounts, AwaitingCommit
<1>3. \A v, S : Accounted(v, S) => Accounted(v, S)'
  BY <1>1, <1>2, AccountedPast DEF Accounted, Whole
<1> QED BY <1>1, <1>3, HistoryMove

\* A transaction goes on, or fails: if its removals are hidden, only by the current
\* version, the others having no readers left.
LEMMA HistoryGoesOn ==
    ASSUME ReadingInv, HistoryInv, ReadingInv', NEW w \in Writer,
           \/ OpenWriteConnection(w) \/ PFail(w) \/ RollBack(w)
           \/ \E p \in Place, o \in Object : PChangeOne(w, p, o)
    PROVE  HistoryInv'
<1>1. /\ UNCHANGED <<currentVersion, objectsToExclude, committed, torn, writeLocked, readerVars,
                     database, connection, snapshot, past, before, objectsToAdd,
                     objectsToRemove, previousVersion>>
      /\ wpc[w] \in {"entered", "adding", "removing", "failed"}
      /\ wpc'[w] \in {wpc[w], "failed"}
  <2>1. wpc \in [Writer -> WriterPC]
    BY DEF ReadingInv, TransactionInv, PTypeOK, TypeOK
  <2> QED BY <2>1 DEF OpenWriteConnection, vars, PFail, Fail, RollBack, PChangeOne, ChangeOne
<1>2. \A u \in Writer : u # w => wpc[u] = "idle"
  BY <1>1, OthersIdle DEF ReadingInv, TransactionInv
<1>3. \A v \in 1 .. currentVersion : v \notin writeLocked' => v = currentVersion
  BY <1>1, <1>2 DEF ReadingInv, TransactionInv, LockInv, Draining
<1>4. wpc[w] = "removing" => objectsToExclude[currentVersion] = objectsToRemove[w]
  BY DEF ReadingInv, TransactionInv, ExclusionInv
<1>5. After(w)' = After(w) /\ ~AwaitingCommit(w)
  BY <1>1 DEF After, AwaitingCommit
<1>6. ASSUME NEW v \in 1 .. currentVersion, NEW S, v \notin writeLocked', Accounted(v, S)
      PROVE  Accounted(v, S)'
  <2>1. v = currentVersion
    BY <1>3, <1>6
  <2> QED BY <1>1, <1>2, <1>4, <1>5, <1>6, <2>1, AccountedKept
<1> QED BY <1>1, <1>6, HistoryMove

\* Readers of a version that hides a failed removal are waited for.
LEMMA HistoryDrain ==
    ASSUME ReadingInv, HistoryInv, ReadingInv', NEW w \in Writer, Drain(w),
           UNCHANGED persistenceVars
    PROVE  HistoryInv'
<1>1. /\ UNCHANGED <<currentVersion, objectsToExclude, committed, torn, readerVars, contents,
                     objectsToAdd, objectsToRemove>>
      /\ writeLocked' = writeLocked \cup {previousVersion[w]}
  BY DEF Drain, Proceed
<1>2. /\ \A u \in Writer : u # w => wpc[u] = "idle"
      /\ wpc[w] \in Draining
      /\ wpc'[w] = CASE wpc[w] = "drainAdd" -> "adding"
                      [] wpc[w] = "drainRemove" -> "removing"
                      [] wpc[w] = "drainEmpty" -> "returning"
                      [] OTHER -> "throwing"
  BY DrainControl DEF ReadingInv, TransactionInv, PTypeOK, ControlInv
<1>3. /\ wpc[w] = "drainRemove" => wpc'[w] = "removing"
      /\ wpc[w] = "drainEmpty" => wpc'[w] = "returning"
      /\ wpc[w] \notin {"removing", "failed", "returning"}
  BY <1>2 DEF Draining
<1>4. AwaitingCommit(w) => AwaitingCommit(w)'
  <2>1. wpc[w] = "drainEmpty" => connected[w]
    BY DEF ReadingInv, TransactionInv, RequestInv
  <2> QED BY <1>3, <2>1 DEF AwaitingCommit
<1>5. After(w)' = After(w)
  BY <1>1 DEF After
<1>6. ASSUME NEW v \in 1 .. currentVersion, NEW S, v \notin writeLocked', Accounted(v, S)
      PROVE  Accounted(v, S)'
  BY <1>1, <1>2, <1>3, <1>4, <1>5, <1>6, AccountedKept
<1> QED BY <1>1, <1>6, HistoryMove

\* A version is published: it leaves of what is committed the collection before the
\* transaction or, if it hides removals, the one after it.
LEMMA HistoryPublish ==
    ASSUME ReadingInv, HistoryInv, ReadingInv', NEW w \in Writer,
           wpc[w] \notin Draining \cup {"idle", "returning"},
           NEW excl \in SUBSET Object, NEW after \in SUBSET Object,
           IncrementVersion(w, excl, FALSE, after),
           NEW pc \in Draining, wpc' = [wpc EXCEPT ![w] = pc],
           excl = CASE pc = "drainAdd" -> objectsToAdd[w]
                    [] pc = "drainRemove" -> objectsToRemove[w]
                    [] OTHER -> {},
           wpc[w] = "removing" => pc = "drainEmpty",
           wpc[w] = "failed" => pc = "drainRestore",
           torn \subseteq torn',
           UNCHANGED <<contents, writeLocked, writeMutex, objectsToAdd, objectsToRemove,
                       readerVars, persistenceVars>>
    PROVE  HistoryInv'
<1>1. ControlInv
  BY DEF ReadingInv, TransactionInv, PTypeOK, ControlInv
<1>2. /\ currentVersion \in Nat /\ currentVersion' = currentVersion + 1
      /\ \A v \in 1 .. currentVersion :
            /\ objectsToExclude'[v] = objectsToExclude[v]
            /\ committed'[v] = committed[v]
      /\ objectsToExclude'[currentVersion'] = excl
  <2>1. wpc[w] \notin Draining \cup {"idle"}
    OBVIOUS
  <2> QED BY <1>1, <2>1, PublishControl, ZenonT(30)
<1>3. /\ wpc'[w] = pc /\ previousVersion'[w] = currentVersion
      /\ \A u \in Writer : u # w => wpc[u] = "idle"
  BY <1>1, OthersIdle DEF ControlInv, TypeOK, IncrementVersion
<1>4. After(w)' = After(w) /\ ~AwaitingCommit(w)
  BY DEF After, AwaitingCommit, Draining
<1>5. wpc[w] = "removing" => AwaitingCommit(w)' /\ contents'[Store] = After(w)
  <2>1. Store \in Persisted
    BY PersistedAssumption
  <2> QED BY <1>3, <1>4, <2>1 DEF AwaitingCommit, ReadingInv, TransactionInv, TableInv
<1>6. ASSUME NEW v \in 1 .. currentVersion, NEW S, v \notin writeLocked', Accounted(v, S)
      PROVE  Accounted(v, S)'
  <2>1. wpc[w] \notin {"drainRemove", "drainRestore"}
    BY DEF Draining
  <2> QED BY <1>2, <1>3, <1>4, <1>5, <1>6, <2>1, AccountedKept
<1>7. database[Store] \in past /\ past' = past /\ database' = database
  BY DEF HistoryInv
<1>8. Accounted(currentVersion, database[Store] \ objectsToExclude[currentVersion])'
  <2>1. database[Store] = before[w] /\ before'[w] = before[w]
    <3>1. Uncommitted(w)'
      BY <1>3 DEF Uncommitted, Draining
    <3> QED BY <3>1 DEF ReadingInv, TransactionInv, DatabaseInv
  <2>2. CASE pc = "drainRemove"
    <3>1. objectsToAdd[w] = {}
      BY <1>3, <2>2 DEF ReadingInv, HeapInv, TransactionInv, RequestInv
    <3>2. database[Store] \ excl = After(w)'
      BY <1>4, <2>1, <2>2, <3>1 DEF After
    <3> QED BY <1>2, <1>3, <1>7, <2>2, <3>2 DEF Accounted, Whole
  <2>3. CASE pc # "drainRemove"
    <3>1. pc = "drainAdd" => objectsToAdd[w] \cap before[w] = {}
      <4>1. Uncommitted(w)'
        BY <1>3 DEF Uncommitted, Draining
      <4> QED BY <4>1 DEF ReadingInv, HeapInv
    <3>2. database[Store] \ excl = database[Store]
      BY <2>1, <2>3, <3>1
    <3> QED BY <1>2, <1>7, <3>2 DEF Accounted, Whole
  <2> QED BY <2>2, <2>3
<1>9. \A v \in 1 .. currentVersion' :
          v \in 1 .. currentVersion \/ Accounted(v, database[Store] \ objectsToExclude[v])'
  <2> SUFFICES ASSUME NEW v \in 1 .. currentVersion', v \notin 1 .. currentVersion
               PROVE  Accounted(v, database[Store] \ objectsToExclude[v])'
    OBVIOUS
  <2>1. v = currentVersion'
    BY <1>2
  <2> QED BY <1>8, <2>1 DEF Accounted, Whole, Undone
<1> QED BY <1>2, <1>6, <1>7, <1>9, HistoryKept

\* The four steps that publish a version.
LEMMA HistoryPublishes ==
    ASSUME ReadingInv, HistoryInv, ReadingInv', NEW w \in Writer,
           \/ /\ BeginAdd(w) \/ BeginRemove(w) \/ BeginEmpty(w)
              /\ UNCHANGED persistenceVars
           \/ PRestoreEmptyVersionAfterFailure(w)
    PROVE  HistoryInv'
<1>1. /\ objectsToAdd[w] \in SUBSET Object /\ objectsToRemove[w] \in SUBSET Object
      /\ {} \in SUBSET Object /\ before[w] \in SUBSET Object
      /\ committed[currentVersion] \in SUBSET Object /\ Applied(w) \in SUBSET Object
  BY DEF ReadingInv, TransactionInv, PTypeOK, TypeOK, Applied
<1>2. CASE BeginAdd(w) /\ UNCHANGED persistenceVars
  <2>1. /\ wpc[w] = "entered" /\ wpc' = [wpc EXCEPT ![w] = "drainAdd"]
        /\ IncrementVersion(w, objectsToAdd[w], FALSE, committed[currentVersion])
        /\ torn \subseteq torn'
        /\ UNCHANGED <<contents, writeLocked, writeMutex, objectsToAdd, objectsToRemove,
                       readerVars, persistenceVars>>
    BY <1>2 DEF BeginAdd, InheritTorn
  <2> QED BY <1>1, <2>1, HistoryPublish DEF Draining
<1>3. CASE BeginRemove(w) /\ UNCHANGED persistenceVars
  <2>1. /\ wpc[w] \in {"entered", "adding"} /\ wpc' = [wpc EXCEPT ![w] = "drainRemove"]
        /\ IncrementVersion(w, objectsToRemove[w], FALSE, Applied(w))
        /\ torn \subseteq torn'
        /\ UNCHANGED <<contents, writeLocked, writeMutex, objectsToAdd, objectsToRemove,
                       readerVars, persistenceVars>>
    BY <1>3 DEF BeginRemove, InheritTorn
  <2> QED BY <1>1, <2>1, HistoryPublish DEF Draining
<1>4. CASE BeginEmpty(w) /\ UNCHANGED persistenceVars
  <2>1. /\ wpc[w] \in {"adding", "removing"} /\ wpc' = [wpc EXCEPT ![w] = "drainEmpty"]
        /\ IncrementVersion(w, {}, FALSE, Applied(w))
        /\ torn \subseteq torn'
        /\ UNCHANGED <<contents, writeLocked, writeMutex, objectsToAdd, objectsToRemove,
                       readerVars, persistenceVars>>
    BY <1>4 DEF BeginEmpty, InheritTorn
  <2> QED BY <1>1, <2>1, HistoryPublish DEF Draining
<1>5. CASE PRestoreEmptyVersionAfterFailure(w)
  <2>1. /\ wpc[w] = "failed" /\ wpc' = [wpc EXCEPT ![w] = "drainRestore"]
        /\ IncrementVersion(w, {}, FALSE, before[w])
        /\ torn \subseteq torn'
        /\ UNCHANGED <<contents, writeLocked, writeMutex, objectsToAdd, objectsToRemove,
                       readerVars, persistenceVars>>
    BY <1>5 DEF PRestoreEmptyVersionAfterFailure, TornOnHeap
  <2> QED BY <1>1, <2>1, HistoryPublish DEF Draining
<1> QED BY <1>2, <1>3, <1>4, <1>5

\* The commit makes the transaction part of the past.
LEMMA HistoryCommit ==
    ASSUME ReadingInv, HistoryInv, ReadingInv', NEW w \in Writer, Commit(w)
    PROVE  HistoryInv'
<1>1. /\ wpc[w] = "returning" /\ connected[w]
      /\ database' = [p \in Persisted |-> contents[p]] /\ Store \in Persisted
      /\ past' = past \cup {contents[Store]}
      /\ UNCHANGED <<currentVersion, objectsToExclude, committed, torn, writeLocked, contents,
                     objectsToAdd, objectsToRemove, before, readerVars, connection, snapshot>>
  BY PersistedAssumption DEF Commit
<1>2. /\ \A u \in Writer : u # w => wpc[u] = "idle"
      /\ currentVersion \in Nat
  BY <1>1, OthersIdle, CurrentReadable DEF ReadingInv, TransactionInv
<1>3. database'[Store] = contents[Store] /\ contents[Store] \in past' /\ past \subseteq past'
  BY <1>1
<1>4. After(w)' = After(w)
  BY <1>1 DEF After
<1>5. ASSUME NEW v \in 1 .. currentVersion, NEW S, v \notin writeLocked', Accounted(v, S)
      PROVE  Accounted(v, S)'
  BY <1>1, <1>2, <1>3, <1>4, <1>5, AccountedKept
<1>6. ASSUME NEW v \in 1 .. currentVersion', v \notin writeLocked'
      PROVE  Accounted(v, database[Store] \ objectsToExclude[v])'
  <2>1. v = currentVersion
    BY <1>1, <1>2, <1>6 DEF ReadingInv, TransactionInv, LockInv, Draining
  <2>2. objectsToExclude'[v] = {}
    BY <1>1, <2>1 DEF ReadingInv, TransactionInv, ExclusionInv
  <2>3. database'[Store] \ objectsToExclude'[v] \in past'
    BY <1>3, <2>2
  <2> QED BY <2>3 DEF Accounted, Whole
<1> QED BY <1>1, <1>2, <1>3, <1>5, <1>6, HistoryKept

\* The commit fails: all that readers of tables have seen under the last version is the
\* collection before the transaction.
LEMMA HistoryCommitFails ==
    ASSUME ReadingInv, HistoryInv, ReadingInv', NEW w \in Writer, CommitFails(w)
    PROVE  HistoryInv'
<1>1. /\ wpc[w] = "returning" /\ connected[w]
      /\ TornOnHeap(currentVersion)
      /\ UNCHANGED <<currentVersion, objectsToExclude, writeLocked, readerVars, database,
                     connection, snapshot, past>>
      /\ Persisted \subseteq Place
  BY PersistedAssumption DEF CommitFails
<1>2. \A u \in Writer : u # w => wpc[u] = "idle"
  BY <1>1, OthersIdle DEF ReadingInv, TransactionInv
<1>3. /\ \A v \in 1 .. currentVersion : v \notin writeLocked => v = currentVersion
      /\ objectsToExclude[currentVersion] = {}
  BY <1>1, <1>2 DEF ReadingInv, TransactionInv, LockInv, Draining, ExclusionInv
<1>4. AwaitingCommit(w) /\ database[Store] = before[w] /\ database[Store] \in past
  BY <1>1 DEF AwaitingCommit, HistoryInv, ReadingInv, TransactionInv, DatabaseInv, Uncommitted
<1>5. ASSUME NEW v \in 1 .. currentVersion', v \notin writeLocked'
      PROVE  Accounted(v, database[Store] \ objectsToExclude[v])'
  <2>1. database'[Store] \ objectsToExclude'[v] \in past'
    BY <1>1, <1>3, <1>4, <1>5
  <2> QED BY <2>1 DEF Accounted, Whole
<1>6. ASSUME NEW r \in Reader, Sound(r)'
      PROVE  Accounted(thisVersion[r], Seen(r))'
  <2>1. thisVersion[r] = currentVersion /\ place[r] \in Place
    <3>1. rpc[r] \in Reading
      BY <1>1, <1>6 DEF Sound, Reading
    <3> QED BY <1>3, <3>1, PReaderLocals
  <2>2. place[r] \in Persisted /\ connection[r] = "open" /\ Sound(r)
    <3>1. Place # Persisted => currentVersion \in torn'
      BY <1>1 DEF TornOnHeap
    <3>2. connection[r] = "open"
      BY <1>1, <1>6, <2>1, <3>1 DEF Sound
    <3>3. place[r] \in Persisted
      BY <3>2, PReaderLocals
    <3> QED BY <1>1, <1>6, <3>2, <3>3 DEF Sound
  <2>3. Seen(r) = snapshot[r] /\ Seen(r)' = snapshot[r]
    BY <1>1, <1>3, <2>1, <2>2 DEF Seen
  <2>4. snapshot[r] \in past
    <3>1. CASE committed[currentVersion] # before[w]
      <4>1. snapshot[r] = before[w]
        BY <1>4, <2>1, <2>2, <3>1 DEF ReadingInv, ViewInv
      <4> QED BY <1>4, <4>1
    <3>2. CASE committed[currentVersion] = before[w]
      <4>1. contents[Store] \in past
        BY <1>4, <3>2 DEF ReadingInv, SnapshotInv
      <4>2. Accounted(thisVersion[r], snapshot[r])
        BY <2>2, <2>3 DEF HistoryInv
      <4>3. snapshot[r] \in past \cup {contents[Store]}
        BY <1>1, <1>2, <4>2 DEF Accounted, Whole, Undone, AwaitingCommit
      <4> QED BY <4>1, <4>3
    <3> QED BY <3>1, <3>2
  <2>5. Seen(r)' \in past'
    BY <1>1, <2>3, <2>4
  <2> QED BY <2>5 DEF Accounted, Whole
<1> QED BY <1>1, <1>4, <1>5, <1>6 DEF HistoryInv

\* A reader's step: the iteration goes on seeing what it has seen, or begins to see what
\* its version leaves of what is committed, or what it stands for.
LEMMA HistoryReads ==
    ASSUME ReadingInv, HistoryInv,
           UNCHANGED <<contents, currentVersion, objectsToExclude, committed, torn, writeLocked,
                       wpc, objectsToAdd, objectsToRemove, previousVersion, database, connected,
                       before, past>>,
           \A r \in Reader :
               Sound(r)' =>
                   \/ Sound(r) /\ thisVersion'[r] = thisVersion[r] /\ Seen(r)' = Seen(r)
                   \/ /\ thisVersion'[r] = thisVersion[r] /\ thisVersion[r] \notin writeLocked
                      /\ Seen(r)' \in {database[Store] \ objectsToExclude[thisVersion[r]],
                                       committed[thisVersion[r]]}
    PROVE  HistoryInv'
<1>1. /\ \A w \in Writer : After(w)' = After(w) /\ (AwaitingCommit(w)' <=> AwaitingCommit(w))
      /\ \A v, S : Accounted(v, S)' <=> Accounted(v, S)
  <2>1. \A w \in Writer : After(w)' = After(w) /\ (AwaitingCommit(w)' <=> AwaitingCommit(w))
    BY DEF After, AwaitingCommit
  <2> QED BY <2>1 DEF Accounted, Whole, Undone
<1>2. ASSUME NEW v \in 1 .. currentVersion, v \notin writeLocked
      PROVE  /\ Accounted(v, database[Store] \ objectsToExclude[v])
             /\ Accounted(v, committed[v])
  <2>1. Accounted(v, database[Store] \ objectsToExclude[v])
    BY <1>2 DEF HistoryInv
  <2>2. CASE database[Store] \ objectsToExclude[v] = committed[v]
    BY <2>1, <2>2
  <2>3. ASSUME NEW w \in Writer, AwaitingCommit(w), v = currentVersion
        PROVE  Accounted(v, committed[v])
    <3>1. committed[v] = contents[Store]
      BY <2>3 DEF ReadingInv, SnapshotInv
    <3> QED BY <2>3, <3>1 DEF Accounted, Whole
  <2> QED BY <1>2, <2>1, <2>2, <2>3 DEF ReadingInv, SnapshotInv
<1>3. ASSUME NEW r \in Reader, Sound(r)'
      PROVE  Accounted(thisVersion[r], Seen(r))'
  <2>1. thisVersion[r] \in 1 .. currentVersion /\ thisVersion'[r] = thisVersion[r]
    BY <1>3, PReaderLocals
  <2>2. \A S : S = Seen(r)' => Accounted(thisVersion[r], S)
    <3>1. CASE Sound(r) /\ Seen(r)' = Seen(r)
      BY <3>1 DEF HistoryInv
    <3> QED BY <1>2, <1>3, <2>1, <3>1
  <2>3. \A v, S : v = thisVersion[r] /\ S = Seen(r)' => Accounted(v, S)'
    BY <1>1, <2>2
  <2> QED BY <2>1, <2>3 DEF Accounted, Whole, Undone
<1>4. ASSUME NEW v \in 1 .. currentVersion', v \notin writeLocked'
      PROVE  Accounted(v, database[Store] \ objectsToExclude[v])'
  <2>1. \A S : S = database[Store] \ objectsToExclude[v] => Accounted(v, S)'
    BY <1>1, <1>2, <1>4
  <2> QED BY <2>1 DEF Accounted, Whole, Undone
<1> QED BY <1>3, <1>4 DEF HistoryInv

\* Each step of a reader is one of these; so is stuttering.
LEMMA HistoryReader ==
    ASSUME ReadingInv, HistoryInv, NEW r \in Reader,
           \/ PReadCurrentVersion(r) \/ PReaderStep(r) \/ GetConnection(r)
           \/ OpenReadConnection(r) \/ PClose(r)
           \/ \E o \in Object : FetchRow(r, o) \/ FetchOnHeap(r, o)
    PROVE  HistoryInv'
<1> DEFINE Same ==
        UNCHANGED <<contents, currentVersion, objectsToExclude, committed, torn, writeLocked,
                    wpc, objectsToAdd, objectsToRemove, previousVersion, database, connected,
                    before, past>>
    Others == \A q \in Reader : q # r =>
        /\ rpc'[q] = rpc[q] /\ thisVersion'[q] = thisVersion[q] /\ place'[q] = place[q]
        /\ connection'[q] = connection[q] /\ snapshot'[q] = snapshot[q]
    GoesOn == Sound(r) /\ thisVersion'[r] = thisVersion[r] /\ Seen(r)' = Seen(r)
    Begins == /\ thisVersion'[r] = thisVersion[r] /\ thisVersion[r] \notin writeLocked
              /\ Seen(r)' \in {database[Store] \ objectsToExclude[thisVersion[r]],
                               committed[thisVersion[r]]}
<1>1. ASSUME Same, Others, Sound(r)' => GoesOn \/ Begins
      PROVE  HistoryInv'
  <2>1. ASSUME NEW q \in Reader, q # r, Sound(q)'
        PROVE  Sound(q) /\ thisVersion'[q] = thisVersion[q] /\ Seen(q)' = Seen(q)
    BY <1>1, <2>1 DEF Sound, Seen
  <2> QED BY <1>1, <2>1, HistoryReads
<1>2. CASE PReadCurrentVersion(r) \/ (TryReadLock(r) /\ UNCHANGED persistenceVars) \/ PClose(r)
  <2>1. Same /\ Others /\ rpc'[r] \notin {"iterating", "filtering"}
    <3>1. CASE PReadCurrentVersion(r)
      BY <3>1, PReaderLocals DEF PReadCurrentVersion, ReadCurrentVersion
    <3>2. CASE TryReadLock(r) /\ UNCHANGED persistenceVars
      <4>1. /\ thisVersion' = [thisVersion EXCEPT ![r] = currentVersion] \/ UNCHANGED thisVersion
            /\ rpc[r] = "tryLock"
            /\ rpc' = [rpc EXCEPT ![r] = "locked"] \/ UNCHANGED rpc
            /\ UNCHANGED <<collectionVars, versionVars, writeLocked, writeMutex, writerVars,
                           place, filtering, unvisited, fetched, result, persistenceVars>>
        BY <3>2 DEF TryReadLock
      <4> QED BY <4>1, PReaderLocals
    <3>3. CASE PClose(r)
      BY <3>3, PReaderLocals DEF PClose, Close, Forget
    <3> QED BY <1>2, <3>1, <3>2, <3>3
  <2>2. ~Sound(r)'
    BY <2>1 DEF Sound
  <2> QED BY <1>1, <2>1, <2>2
<1>3. ASSUME NEW p \in Place, Retrieve(r, p), UNCHANGED persistenceVars
      PROVE  HistoryInv'
  <2>1. /\ Same /\ Others /\ rpc[r] = "locked" /\ place'[r] = p
        /\ thisVersion'[r] = thisVersion[r] /\ connection'[r] = connection[r]
    BY <1>3, PReaderLocals DEF Retrieve
  <2>2. connection[r] = "none" /\ thisVersion[r] \notin writeLocked
    BY <2>1, PReaderLocals DEF Reading
  <2>3. Sound(r)' => Begins
    BY <2>1, <2>2 DEF Sound, Seen
  <2> QED BY <1>1, <2>1, <2>3
<1>4. CASE Filter(r) /\ UNCHANGED persistenceVars
  <2>1. /\ Same /\ Others /\ rpc[r] = "filtering" /\ place'[r] = place[r]
        /\ thisVersion'[r] = thisVersion[r]
        /\ connection'[r] = connection[r] /\ snapshot'[r] = snapshot[r]
    BY <1>4, PReaderLocals DEF Filter
  <2>2. Sound(r)' => GoesOn
    BY <2>1 DEF Sound, Seen
  <2> QED BY <1>1, <2>1, <2>2
<1>5. CASE GetConnection(r)
  <2>1. /\ Same /\ Others /\ place'[r] = place[r] /\ place[r] \in Persisted
        /\ connection'[r] = "opening"
    BY <1>5, PReaderLocals DEF GetConnection, vars
  <2>2. ~Sound(r)'
    BY <2>1 DEF Sound
  <2> QED BY <1>1, <2>1, <2>2
<1>6. CASE OpenReadConnection(r)
  <2>1. /\ Same /\ Others /\ connection[r] = "opening" /\ place'[r] = place[r]
        /\ thisVersion'[r] = thisVersion[r]
        /\ snapshot'[r] = database[place[r]]
    BY <1>6, PReaderLocals DEF OpenReadConnection, vars
  <2>2. place[r] \in Persisted /\ thisVersion[r] \notin writeLocked
    BY <2>1, PReaderLocals DEF Reading
  <2>3. snapshot'[r] = database[Store]
    BY <2>1, <2>2 DEF ReadingInv, TransactionInv, DatabaseInv
  <2>4. Begins
    BY <2>1, <2>2, <2>3 DEF Seen
  <2> QED BY <1>1, <2>1, <2>4
<1>7. ASSUME NEW o \in Object, FetchRow(r, o) \/ FetchOnHeap(r, o)
      PROVE  HistoryInv'
  <2>1. /\ Same /\ Others /\ rpc[r] = "iterating" /\ place'[r] = place[r]
        /\ thisVersion'[r] = thisVersion[r]
        /\ connection'[r] = connection[r] /\ snapshot'[r] = snapshot[r]
    BY <1>7, PReaderLocals DEF FetchRow, FetchOnHeap, Fetch
  <2>2. Sound(r)' => GoesOn
    BY <2>1 DEF Sound, Seen
  <2> QED BY <1>1, <2>1, <2>2
<1> QED BY <1>2, <1>3, <1>4, <1>5, <1>6, <1>7 DEF PReaderStep

\* Every step preserves all three invariants.
LEMMA HistoryNext ==
    ASSUME OneWay
    PROVE  PIndInv /\ [PNext]_pvars => PIndInv'
<1> SUFFICES ASSUME ReadingInv, HistoryInv, [PNext]_pvars
             PROVE  PIndInv'
  BY DEF PIndInv
<1>1. ReadingInv'
  BY WholeNext
<1>2. ASSUME NEW w \in Writer,
             \/ PCall(w) \/ OpenWriteConnection(w) \/ PWriterStep(w)
             \/ StrictReplacementFails(w) \/ PFail(w) \/ CommitFails(w)
      PROVE  HistoryInv'
  <2>1. CASE PVersionStep(w)
    BY <1>1, <2>1, HistoryPublishes, HistoryDrain DEF PVersionStep
  <2>2. CASE PWriterStep(w) /\ ~PVersionStep(w)
    BY <1>1, <2>2, HistoryPlain, HistoryGoesOn, HistoryPublishes, HistoryCommit DEF PWriterStep
  <2> QED BY <1>1, <1>2, <2>1, <2>2, HistoryPlain, HistoryGoesOn, HistoryCommitFails
<1>3. ASSUME UNCHANGED pvars
      PROVE  HistoryInv'
  <2>1. /\ UNCHANGED <<contents, currentVersion, objectsToExclude, committed, torn, writeLocked,
                       wpc, objectsToAdd, objectsToRemove, previousVersion, database, connected,
                       before, past>>
        /\ UNCHANGED <<rpc, thisVersion, place, connection, snapshot>>
    BY <1>3 DEF pvars, vars
  <2>2. \A r \in Reader : Sound(r)' =>
            Sound(r) /\ thisVersion'[r] = thisVersion[r] /\ Seen(r)' = Seen(r)
    BY <2>1 DEF Sound, Seen
  <2> QED BY <2>1, <2>2, HistoryReads
<1> QED BY <1>1, <1>2, <1>3, HistoryReader DEF PNext, PIndInv

\* For any tables, indexes, threads and versions, with or without a ReadWriteLock, and
\* wherever update() fails, if no update() both removes and adds or adds an object that
\* is there already: the second and the third inductive invariant.
THEOREM PInductive ==
    ASSUME OneWay
    PROVE  PSpec => []PIndInv
<1>1. PInit => PIndInv
  <2> SUFFICES ASSUME PInit
               PROVE  HistoryInv
    BY WholeInit DEF PIndInv
  <2>1. /\ database[Store] \in past /\ currentVersion = 1 /\ objectsToExclude[1] = {}
        /\ \A r \in Reader : rpc[r] = "idle"
    BY PersistedAssumption, BoundAssumption DEF PInit, Init, VersionNumber
  <2>2. \A v \in 1 .. currentVersion : database[Store] \ objectsToExclude[v] \in past
    BY <2>1
  <2> QED BY <2>1, <2>2 DEF HistoryInv, Accounted, Whole, Sound
<1> QED BY <1>1, HistoryNext, PTL DEF PSpec

\* A complete iteration returns what the invariant accounts for.
LEMMA CompleteIteration ==
    ASSUME PIndInv, NEW r \in Reader, ReadToTheEnd(r)
    PROVE  Accounted(thisVersion[r], result[r])
<1>1. ReadingInv /\ HistoryInv /\ fetched[r] = NoObject /\ result[r] \subseteq Object
  BY PReaderLocals DEF PIndInv, ReadToTheEnd
<1>2. CASE Sound(r)
  <2>1. \A o \in Object : o \in result[r] <=> o \in Seen(r)
    BY <1>1, <1>2, NullAssumption DEF ReadingInv, ViewInv, ReadToTheEnd
  <2>2. Seen(r) \subseteq Object
    BY <1>1, PReaderLocals, CurrentReadable
    DEF Seen, ReadingInv, TransactionInv, PTypeOK, TypeOK
  <2>3. result[r] = Seen(r)
    BY <1>1, <2>1, <2>2
  <2> QED BY <1>1, <1>2, <2>3 DEF HistoryInv
<1>3. CASE ~Sound(r)
  <2>1. Object = {} /\ result[r] = {}
    BY <1>1, <1>3, PReaderLocals DEF Sound, ReadToTheEnd
  <2>2. database[Store] = {} /\ database[Store] \in past
    BY <1>1, <2>1, PersistedAssumption
    DEF HistoryInv, ReadingInv, TransactionInv, PTypeOK
  <2> QED BY <2>1, <2>2, PastAccounted
<1> QED BY <1>2, <1>3

\* Under the same conditions a complete iteration, of a table or of an index on the heap
\* that no failed request has changed, returns the collection as it was between two
\* transactions or as the one under way leaves it, although version, connection and
\* commit are taken at different times.  All that it can return of an update() that fails
\* are its removals, under the version that hides them, before update() returns.
THEOREM ReadersSeeWholeOrUndone ==
    ASSUME OneWay
    PROVE  PSpec => []PReadsWholeOrUndone
<1>1. PIndInv => PReadsWholeOrUndone
  BY CompleteIteration DEF PReadsWholeOrUndone
<1> QED BY <1>1, PInductive, PTL

\* No update() fails where none may.
LEMMA NoFailure ==
    ASSUME ~MayFail, TransactionInv, [PNext]_pvars,
           \A w \in Writer : wpc[w] \notin {"failed", "drainRestore"}
    PROVE  \A w \in Writer : wpc'[w] \notin {"failed", "drainRestore"}
<1> DEFINE Goal == \A u \in Writer : wpc'[u] \notin {"failed", "drainRestore"}
<1>1. wpc \in [Writer -> WriterPC]
  BY DEF TransactionInv, PTypeOK, TypeOK
<1>2. ASSUME NEW w \in Writer,
             \/ PCall(w) \/ OpenWriteConnection(w) \/ PWriterStep(w)
             \/ StrictReplacementFails(w) \/ PFail(w) \/ CommitFails(w)
      PROVE  Goal
  <2>1. CASE PCall(w)
    BY <1>1, <2>1, PCallCases DEF PUpdate, Update
  <2>2. CASE PVersionStep(w)
    <3>1. CASE Drain(w)
      BY <3>1, DrainControl DEF TransactionInv, PTypeOK, ControlInv
    <3> QED BY <1>1, <2>2, <3>1 DEF PVersionStep, BeginAdd, BeginRemove, BeginEmpty
  <2>3. CASE PWriterStep(w) /\ ~PVersionStep(w)
    BY <1>1, <2>3 DEF PWriterStep, PUpdateReturnsEarly, UpdateReturnsEarly, PChangeOne, ChangeOne,
                      RollBack, PRestoreEmptyVersionAfterFailure, Commit, PReturn, Return
  <2>4. CASE OpenWriteConnection(w)
    BY <2>4 DEF OpenWriteConnection, vars
  <2> QED BY <1>1, <1>2, <2>1, <2>2, <2>3, <2>4 DEF StrictReplacementFails, PFail, Fail, CommitFails
<1>3. ASSUME NEW r \in Reader,
             \/ PReadCurrentVersion(r) \/ PReaderStep(r) \/ GetConnection(r)
             \/ OpenReadConnection(r) \/ PClose(r)
             \/ \E o \in Object : FetchRow(r, o) \/ FetchOnHeap(r, o)
      PROVE  Goal
  BY <1>3 DEF PReadCurrentVersion, ReadCurrentVersion, PReaderStep, TryReadLock, Filter, Retrieve,
              GetConnection, OpenReadConnection, PClose, Close, Forget, FetchRow, FetchOnHeap,
              Fetch, vars
<1>4. CASE UNCHANGED pvars
  BY <1>4 DEF pvars, vars
<1> QED BY <1>2, <1>3, <1>4 DEF PNext

\* Where update() does not fail, readers see whole transactions and nothing else.
THEOREM ReadersSeeWholeTransactions ==
    ASSUME OneWay, ~MayFail
    PROVE  PSpec => []PReadsWholeTransactions
<1> DEFINE Unfailing == \A w \in Writer : wpc[w] \notin {"failed", "drainRestore"}
<1>1. PInit => Unfailing
  BY DEF PInit, Init
<1>2. TransactionInv /\ Unfailing /\ [PNext]_pvars => Unfailing'
  BY NoFailure
<1>3. PIndInv /\ Unfailing => PReadsWholeTransactions
  BY CompleteIteration DEF PReadsWholeTransactions, Accounted, Undone
<1> HIDE DEF Unfailing
<1> QED BY <1>1, <1>2, <1>3, PInductive, TransactionInductive, PTL DEF PSpec
=============================================================================
