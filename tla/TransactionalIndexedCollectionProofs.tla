---------------- MODULE TransactionalIndexedCollectionProofs ----------------
(***************************************************************************)
(* Proofs about TransactionalIndexedCollection for any number of objects,  *)
(* indexes, readers, writers and versions.                                 *)
(***************************************************************************)
EXTENDS TransactionalIndexedCollection, TLAPS

USE DEF collectionVars, versionVars, writerVars, readerVars

\* The initial state has the right types.
LEMMA TypeInit == Init => TypeOK
BY PlaceAssumption, NullAssumption, BoundAssumption
DEF Init, TypeOK, VersionNumber, Place, NoTodo, WriterPC, ReaderPC

\* A call is one of update() or of retainAll(), on sets of objects.
LEMMA CallCases ==
    ASSUME NEW w \in Writer, Call(w)
    PROVE  \/ \E rem, add \in SUBSET Object, iterables \in SUBSET {"adding", "removing"} :
                 Update(w, rem, add, iterables)
           \/ \E retain \in SUBSET Object : RetainAll(w, retain)
<1>1. ASSUME NEW rem \in SUBSET Object, NEW add \in SUBSET Object,
             NEW iterables \in SUBSET Ordered(rem, add)
      PROVE  iterables \in SUBSET {"adding", "removing"}
  BY <1>1 DEF Ordered
<1> QED BY <1>1, Zenon DEF Call

\* A call of update() or retainAll() preserves the types.
LEMMA TypeCall ==
    ASSUME TypeOK, NEW w \in Writer, Call(w)
    PROVE  TypeOK'
<1>1. ASSUME NEW rem \in SUBSET Object, NEW add \in SUBSET Object,
             NEW iterables \in SUBSET {"adding", "removing"},
             Update(w, rem, add, iterables)
      PROVE  TypeOK'
  BY <1>1 DEF TypeOK, Update, WriterPC
<1>2. ASSUME NEW retain \in SUBSET Object, RetainAll(w, retain)
      PROVE  TypeOK'
  <2> DEFINE rem == contents[Store] \ retain
  <2>1. changed' \in [Writer -> BOOLEAN]
    <3>1. changed' = [changed EXCEPT ![w] = rem # {}]
      BY <1>2 DEF RetainAll
    <3> QED BY <3>1, Zenon DEF TypeOK
  <2>2. rem \in SUBSET Object
    BY DEF TypeOK, Place
  <2>3. CASE rem = {}
    BY <1>2, <2>1, <2>3 DEF TypeOK, RetainAll, WriterPC
  <2>4. CASE rem # {}
    <3> HIDE DEF rem
    <3>1. /\ IncrementVersion(w, Object \ retain, TRUE, committed[currentVersion] \cap retain)
          /\ InheritTorn
      BY <1>2, <2>4 DEF RetainAll, rem
    <3>2. /\ currentVersion' \in VersionNumber
          /\ objectsToExclude' \in [VersionNumber -> SUBSET Object]
          /\ lazyExclude' \subseteq VersionNumber
          /\ previousVersion' \in [Writer -> VersionNumber]
          /\ committed' \in [VersionNumber -> SUBSET Object]
          /\ torn' \subseteq VersionNumber
      BY <3>1 DEF IncrementVersion, InheritTorn, TypeOK
    <3> QED BY <1>2, <2>1, <2>2, <2>4, <3>2 DEF TypeOK, RetainAll, WriterPC, rem
  <2> QED BY <2>3, <2>4
<1> QED BY <1>1, <1>2, CallCases

\* Every further step of a writer preserves the types.
LEMMA TypeWriter ==
    ASSUME TypeOK, NEW w \in Writer, WriterStep(w) \/ Fail(w)
    PROVE  TypeOK'
<1>1. CASE UpdateReturnsEarly(w)
  BY <1>1 DEF TypeOK, UpdateReturnsEarly, WriterPC
<1>2. CASE BeginAdd(w)
  BY <1>2 DEF TypeOK, BeginAdd, IncrementVersion, InheritTorn, WriterPC
<1>3. CASE BeginRemove(w)
  BY <1>3 DEF TypeOK, BeginRemove, IncrementVersion, InheritTorn, Applied, WriterPC
<1>4. CASE BeginEmpty(w)
  BY <1>4 DEF TypeOK, BeginEmpty, IncrementVersion, InheritTorn, Applied, WriterPC
<1>5. CASE Drain(w)
  BY <1>5 DEF TypeOK, Drain, Proceed, WriterPC
<1>6. ASSUME NEW p \in Place, NEW o \in Object, ChangeOne(w, p, o)
      PROVE  TypeOK'
  BY <1>6 DEF TypeOK, ChangeOne
<1>7. CASE RestoreEmptyVersionAfterFailure(w)
  BY <1>7 DEF TypeOK, RestoreEmptyVersionAfterFailure, IncrementVersion, WriterPC
<1>8. CASE Return(w)
  BY <1>8, BoundAssumption DEF TypeOK, Return, WriterPC, VersionNumber
<1>9. CASE Fail(w)
  BY <1>9 DEF TypeOK, Fail, WriterPC
<1> QED BY <1>1, <1>2, <1>3, <1>4, <1>5, <1>6, <1>7, <1>8, <1>9 DEF WriterStep

\* Every step of a reader preserves the types.
LEMMA TypeReader ==
    ASSUME TypeOK, NEW r \in Reader, ReadCurrentVersion(r) \/ ReaderStep(r)
    PROVE  TypeOK'
<1>1. CASE ReadCurrentVersion(r)
  BY <1>1 DEF TypeOK, ReadCurrentVersion, ReaderPC
<1>2. CASE TryReadLock(r)
  BY <1>2, ZenonT(30) DEF TypeOK, TryReadLock, ReaderPC
<1>3. ASSUME NEW p \in Place, Retrieve(r, p)
      PROVE  TypeOK'
  BY <1>3 DEF TypeOK, Retrieve, ReaderPC
<1>4. ASSUME NEW o \in Object, Fetch(r, o)
      PROVE  TypeOK'
  <2>1. CASE o \in contents[place[r]]
    <3>1. /\ rpc' = [rpc EXCEPT ![r] = "filtering"]
          /\ fetched' = [fetched EXCEPT ![r] = o]
          /\ unvisited' = [unvisited EXCEPT ![r] = @ \ {o}]
      BY <1>4, <2>1 DEF Fetch
    <3>2. \A q \in Reader : rpc'[q] = "filtering" => fetched'[q] \in Object
      BY <3>1 DEF TypeOK
    <3>3. /\ rpc' \in [Reader -> ReaderPC]
          /\ fetched' \in [Reader -> Object \cup {NoObject}]
          /\ unvisited' \in [Reader -> SUBSET Object]
      BY <3>1 DEF TypeOK, ReaderPC
    <3> QED BY <1>4, <3>2, <3>3 DEF TypeOK, Fetch
  <2>2. CASE o \notin contents[place[r]]
    BY <1>4, <2>2 DEF TypeOK, Fetch, ReaderPC
  <2> QED BY <2>1, <2>2
<1>5. CASE Filter(r)
  BY <1>5 DEF TypeOK, Filter, ReaderPC
<1>6. CASE Close(r)
  <2>1. \A q \in Reader : rpc'[q] = "filtering" => fetched'[q] \in Object
    BY <1>6 DEF Close, Forget, TypeOK
  <2>2. /\ rpc' \in [Reader -> ReaderPC]
        /\ thisVersion' \in [Reader -> VersionNumber]
        /\ place' \in [Reader -> Place]
        /\ fetched' \in [Reader -> Object \cup {NoObject}]
    BY <1>6, BoundAssumption DEF Close, Forget, TypeOK, ReaderPC, VersionNumber, Place
  <2> QED BY <1>6, <2>1, <2>2 DEF TypeOK, Close, Forget
<1> QED BY <1>1, <1>2, <1>3, <1>4, <1>5, <1>6 DEF ReaderStep

\* Every step preserves the types.
LEMMA TypeNext == TypeOK /\ [Next]_vars => TypeOK'
<1> SUFFICES ASSUME TypeOK, [Next]_vars
             PROVE  TypeOK'
  OBVIOUS
<1>1. CASE UNCHANGED vars
  BY <1>1 DEF TypeOK, vars
<1> QED BY <1>1, TypeCall, TypeWriter, TypeReader DEF Next

\* The state of the collection, the versions and the threads has its types.
THEOREM TypeCorrect == Spec => []TypeOK
BY TypeInit, TypeNext, PTL DEF Spec

-----------------------------------------------------------------------------
(* ReadCommitted.  The algorithm hides what update() is changing; it does  *)
(* not hide what retainAll() removes, nor does it bear an object being     *)
(* added that is there already.                                            *)

UpdateOnly == Ops = {"update"} /\ ReAdd = FALSE

\* At most one writer is busy.
LEMMA OthersIdle ==
    ASSUME MutexInv, NEW w \in Writer, wpc[w] # "idle"
    PROVE  \A u \in Writer : u # w => wpc[u] = "idle"
BY DEF MutexInv

\* Publishing versions and changing places leaves readers' locals valid as long as
\* the versions they have locked stay what they are.
LEMMA ReadersUnaffected ==
    ASSUME TypeOK, ReaderInv, ReadCommitted,
           UNCHANGED readerVars,
           currentVersion' \in VersionNumber, currentVersion <= currentVersion',
           \A v \in 1 .. currentVersion :
               /\ objectsToExclude'[v] = objectsToExclude[v]
               /\ committed'[v] = committed[v]
               /\ v \in torn' <=> v \in torn,
           \A r \in Reader : rpc[r] \in Reading => thisVersion[r] \notin writeLocked'
    PROVE  ReaderInv' /\ ReadCommitted'
<1> SUFFICES ASSUME NEW r \in Reader
             PROVE  ReaderInv!(r)' /\ ReadCommitted!(r)'
  BY DEF ReaderInv, ReadCommitted
<1>1. /\ thisVersion[r] \in 1 .. currentVersion
      /\ currentVersion \in Nat /\ currentVersion' \in Nat
  BY BoundAssumption DEF TypeOK, ReaderInv, VersionNumber
<1>2. /\ objectsToExclude'[thisVersion[r]] = objectsToExclude[thisVersion[r]]
      /\ committed'[thisVersion[r]] = committed[thisVersion[r]]
      /\ thisVersion[r] \in torn' <=> thisVersion[r] \in torn
  BY <1>1
<1>3. ReaderInv!(r)'
  BY <1>1, <1>2 DEF ReaderInv, VersionNumber
<1>4. ReadCommitted!(r)'
  BY <1>1, <1>2 DEF ReadCommitted
<1> QED BY <1>3, <1>4

\* incrementVersion: if the places hold "after" and, besides, only what the new
\* version excludes, publishing it preserves what all versions promise.
LEMMA Publish ==
    ASSUME IndInv, NEW w \in Writer, wpc[w] \notin Draining \cup {"idle"},
           NEW excl \in SUBSET Object, NEW after \in SUBSET Object,
           IncrementVersion(w, excl, FALSE, after),
           NEW pc \in Draining, wpc' = [wpc EXCEPT ![w] = pc],
           torn' \in {torn, torn \cup {currentVersion + 1}},
           currentVersion + 1 \notin torn' => \A p \in Place : contents[p] \ excl = after,
           UNCHANGED <<contents, writeLocked, writeMutex, readerVars>>
    PROVE  /\ MutexInv' /\ LockInv' /\ VersionInv' /\ ReaderInv' /\ ReadCommitted'
           /\ lazyExclude' = {}
           /\ objectsToExclude'[currentVersion'] = excl
           /\ committed'[currentVersion'] = after
<1> USE DEF IndInv
<1>1. /\ currentVersion \in Nat /\ currentVersion' = currentVersion + 1
      /\ currentVersion' \in VersionNumber
      /\ 1 <= currentVersion /\ currentVersion <= currentVersion'
  BY BoundAssumption DEF TypeOK, VersionNumber, IncrementVersion
<1>2. /\ \A v \in 1 .. currentVersion :
             /\ objectsToExclude'[v] = objectsToExclude[v]
             /\ committed'[v] = committed[v]
             /\ v \in torn' <=> v \in torn
      /\ objectsToExclude'[currentVersion'] = excl
      /\ committed'[currentVersion'] = after
  BY <1>1 DEF TypeOK, VersionNumber, IncrementVersion
<1>3. \A u \in Writer : wpc'[u] = IF u = w THEN pc ELSE "idle"
  BY OthersIdle DEF TypeOK
<1>4. /\ previousVersion'[w] = currentVersion
      /\ lazyExclude' = {}
  BY DEF IncrementVersion, TypeOK, ExclusionInv
<1>5. MutexInv'
  BY <1>3 DEF MutexInv, Draining
<1>6. \A v \in 1 .. currentVersion : v \notin writeLocked => v = currentVersion
  BY OthersIdle DEF LockInv, Draining
<1>7. LockInv'
  <2>1. \A v \in writeLocked' : v < currentVersion'
    BY <1>1 DEF LockInv, TypeOK, VersionNumber
  <2>2. \A u \in Writer : wpc'[u] \in Draining => previousVersion'[u] + 1 = currentVersion'
    BY <1>1, <1>3, <1>4 DEF Draining
  <2>3. ASSUME NEW v \in 1 .. currentVersion', v \notin writeLocked'
        PROVE  \/ v = currentVersion'
               \/ \E u \in Writer : wpc'[u] \in Draining /\ v = previousVersion'[u]
    BY <2>3, <1>1, <1>3, <1>4, <1>6
  <2> QED BY <2>1, <2>2, <2>3 DEF LockInv
<1>8. VersionInv'
  <2> SUFFICES ASSUME NEW v \in 1 .. currentVersion', v \notin writeLocked', v \notin torn',
                      NEW p \in Place
               PROVE  contents[p] \ objectsToExclude'[v] = committed'[v]
    BY DEF VersionInv
  <2>1. CASE v = currentVersion'
    BY <2>1, <1>1, <1>2
  <2>2. CASE v # currentVersion'
    BY <2>2, <1>1, <1>2 DEF VersionInv
  <2> QED BY <2>1, <2>2
<1>9. ReaderInv' /\ ReadCommitted'
  <2>1. \A r \in Reader : rpc[r] \in Reading => thisVersion[r] \notin writeLocked'
    BY DEF ReaderInv
  <2> QED BY <1>1, <1>2, <2>1, ReadersUnaffected
<1> QED BY <1>2, <1>4, <1>5, <1>7, <1>8, <1>9

\* The places and the versions stay as they are: whatever w does then, the
\* versions go on to hold what they promise.
LEMMA VersionsUnaffected ==
    ASSUME IndInv,
           UNCHANGED <<currentVersion, objectsToExclude, committed, torn, readerVars>>,
           writeLocked \subseteq writeLocked',
           \A r \in Reader : rpc[r] \in Reading => thisVersion[r] \notin writeLocked',
           \A v \in 1 .. currentVersion :
               (v \notin writeLocked' /\ v \notin torn) =>
                   \A p \in Place : contents'[p] \ objectsToExclude[v]
                                      = contents[p] \ objectsToExclude[v]
    PROVE  VersionInv' /\ ReaderInv' /\ ReadCommitted'
<1>1. VersionInv'
  BY DEF IndInv, VersionInv
<1>2. ReaderInv' /\ ReadCommitted'
  <2>1. currentVersion \in VersionNumber /\ currentVersion <= currentVersion
    BY BoundAssumption DEF IndInv, TypeOK, VersionNumber
  <2> QED BY <2>1, ReadersUnaffected DEF IndInv
<1> QED BY <1>1, <1>2

\* The current version can be read, so the places hold what it promises.
LEMMA CurrentHolds ==
    ASSUME IndInv, currentVersion \notin torn
    PROVE  \A p \in Place :
               contents[p] \ objectsToExclude[currentVersion] = committed[currentVersion]
<1>1. currentVersion \in 1 .. currentVersion /\ currentVersion \notin writeLocked
  BY BoundAssumption DEF IndInv, TypeOK, VersionNumber, LockInv
<1> QED BY <1>1 DEF IndInv, VersionInv

\* update() enters writeMutex with objects that no place holds yet.
LEMMA IndUpdate ==
    ASSUME UpdateOnly, IndInv, TypeOK',
           NEW w \in Writer, NEW rem \in SUBSET Object, NEW add \in SUBSET Object,
           NEW iterables \in SUBSET {"adding", "removing"},
           Update(w, rem, add, iterables)
    PROVE  IndInv'
<1>1. \A u \in Writer : wpc[u] = "idle" /\ wpc'[u] = IF u = w THEN "entered" ELSE "idle"
  BY NullAssumption DEF Update, IndInv, MutexInv, TypeOK
<1>2. MutexInv'
  BY <1>1, NullAssumption DEF Update, MutexInv
<1>3. LockInv'
  BY <1>1 DEF Update, IndInv, LockInv, Draining
<1>4. objectsToExclude[currentVersion] = {}
  BY DEF Update, IndInv, ExclusionInv
<1>5. ExclusionInv'
  BY <1>1, <1>4 DEF Update, IndInv, ExclusionInv
<1>6. ProgressInv'
  <2> SUFFICES ASSUME NEW u \in Writer
               PROVE  ProgressInv!(u)'
    BY DEF ProgressInv
  <2>1. objectsToAdd'[u] \cap objectsToRemove'[u] = {}
    BY DEF Update, IndInv, ProgressInv, TypeOK
  <2>2. ASSUME u = w, currentVersion \notin torn, NEW p \in Place
        PROVE  objectsToAdd'[u] \cap contents[p] = {}
    <3>1. add \cap contents[Store] = {}
      BY DEF Update, UpdateOnly
    <3>2. contents[p] = contents[Store]
      BY <2>2, <1>4, CurrentHolds DEF Place
    <3> QED BY <2>2, <3>1, <3>2 DEF Update, IndInv, TypeOK
  <2> QED BY <1>1, <2>1, <2>2 DEF Update
<1>7. VersionInv' /\ ReaderInv' /\ ReadCommitted'
  BY VersionsUnaffected DEF Update, IndInv, ReaderInv
<1> QED BY <1>2, <1>3, <1>5, <1>6, <1>7 DEF IndInv

\* An update() that has nothing to do leaves everything as it is.
LEMMA IndUpdateReturnsEarly ==
    ASSUME IndInv, TypeOK', NEW w \in Writer, UpdateReturnsEarly(w)
    PROVE  IndInv'
<1>1. wpc[w] = "entered" /\ \A u \in Writer : wpc'[u] = IF u = w THEN "returning" ELSE "idle"
  BY OthersIdle DEF UpdateReturnsEarly, IndInv, TypeOK
<1>2. MutexInv'
  BY <1>1 DEF UpdateReturnsEarly, IndInv, MutexInv
<1>3. LockInv'
  BY <1>1 DEF UpdateReturnsEarly, IndInv, LockInv, Draining
<1>4. ExclusionInv'
  BY <1>1 DEF UpdateReturnsEarly, IndInv, ExclusionInv
<1>5. ProgressInv'
  BY <1>1 DEF UpdateReturnsEarly, IndInv, ProgressInv
<1>6. VersionInv' /\ ReaderInv' /\ ReadCommitted'
  BY VersionsUnaffected DEF UpdateReturnsEarly, IndInv, ReaderInv
<1> QED BY <1>2, <1>3, <1>4, <1>5, <1>6 DEF IndInv

\* A failure hides nothing and shows nothing: the exclusion stays in force.
LEMMA IndFail ==
    ASSUME IndInv, TypeOK', NEW w \in Writer, Fail(w)
    PROVE  IndInv'
<1>1. /\ wpc[w] \in {"adding", "removing"}
      /\ \A u \in Writer : wpc'[u] = IF u = w THEN "failed" ELSE "idle"
  BY OthersIdle DEF Fail, IndInv, TypeOK
<1>2. MutexInv'
  BY <1>1 DEF Fail, IndInv, MutexInv
<1>3. LockInv'
  BY <1>1 DEF Fail, IndInv, LockInv, Draining
<1>4. ExclusionInv'
  BY <1>1 DEF Fail, IndInv, ExclusionInv
<1>5. ProgressInv'
  BY <1>1 DEF Fail, IndInv, ProgressInv
<1>6. VersionInv' /\ ReaderInv' /\ ReadCommitted'
  BY VersionsUnaffected DEF Fail, IndInv, ReaderInv
<1> QED BY <1>2, <1>3, <1>4, <1>5, <1>6 DEF IndInv

\* A mutator leaves the mutex when its version excludes nothing.
LEMMA IndReturn ==
    ASSUME IndInv, TypeOK', NEW w \in Writer, Return(w)
    PROVE  IndInv'
<1>1. /\ wpc[w] \in {"returning", "throwing"}
      /\ \A u \in Writer : wpc'[u] = "idle"
  BY OthersIdle DEF Return, IndInv, TypeOK
<1>2. MutexInv'
  BY <1>1, NullAssumption DEF Return, MutexInv
<1>3. LockInv'
  BY <1>1 DEF Return, IndInv, LockInv, Draining
<1>4. ExclusionInv'
  BY <1>1 DEF Return, IndInv, ExclusionInv
<1>5. ProgressInv'
  BY <1>1 DEF Return, IndInv, ProgressInv, TypeOK
<1>6. VersionInv' /\ ReaderInv' /\ ReadCommitted'
  BY VersionsUnaffected DEF Return, IndInv, ReaderInv
<1> QED BY <1>2, <1>3, <1>4, <1>5, <1>6 DEF IndInv

\* Hiding objects that are nowhere leaves the collection as it is.
LEMMA IndBeginAdd ==
    ASSUME IndInv, TypeOK', NEW w \in Writer, BeginAdd(w)
    PROVE  IndInv'
<1> DEFINE excl == objectsToAdd[w]
           after == committed[currentVersion]
<1>1. /\ wpc[w] = "entered" /\ wpc' = [wpc EXCEPT ![w] = "drainAdd"]
      /\ excl \in SUBSET Object /\ after \in SUBSET Object
      /\ IncrementVersion(w, excl, FALSE, after)
      /\ torn' \in {torn, torn \cup {currentVersion + 1}}
      /\ UNCHANGED <<contents, writeLocked, writeMutex, readerVars>>
  BY DEF BeginAdd, InheritTorn, IndInv, TypeOK
<1>2. ASSUME currentVersion' \notin torn'
      PROVE  currentVersion \notin torn
  BY <1>2 DEF BeginAdd, InheritTorn, IncrementVersion
<1>3. ASSUME currentVersion + 1 \notin torn', NEW p \in Place
      PROVE  contents[p] \ excl = after
    <2>1. currentVersion \notin torn
      BY <1>2, <1>3 DEF BeginAdd, IncrementVersion
    <2>2. contents[p] \cap excl = {} /\ objectsToExclude[currentVersion] = {}
      BY <1>1, <2>1 DEF IndInv, ProgressInv, ExclusionInv
    <2> QED BY <2>1, <2>2, CurrentHolds
<1>4. /\ MutexInv' /\ LockInv' /\ VersionInv' /\ ReaderInv' /\ ReadCommitted'
      /\ lazyExclude' = {}
      /\ objectsToExclude'[currentVersion'] = excl
      /\ committed'[currentVersion'] = after
  <2> HIDE DEF excl, after
  <2> QED BY <1>1, <1>3, Publish DEF Draining
<1>5. \A u \in Writer : wpc'[u] = IF u = w THEN "drainAdd" ELSE "idle"
  BY <1>1, OthersIdle DEF IndInv, TypeOK
<1>6. ExclusionInv'
  BY <1>4, <1>5, NullAssumption DEF BeginAdd, ExclusionInv, IndInv, MutexInv
<1>7. ProgressInv'
  BY <1>1, <1>2, <1>5 DEF BeginAdd, ProgressInv, IndInv
<1> QED BY <1>4, <1>6, <1>7 DEF IndInv

\* The additions are complete and the removals have not begun: the version that
\* shows the ones and hides the others is the whole transaction.
LEMMA IndBeginRemove ==
    ASSUME IndInv, TypeOK', NEW w \in Writer, BeginRemove(w)
    PROVE  IndInv'
<1> DEFINE excl == objectsToRemove[w]
           after == Applied(w)
<1>1. /\ wpc[w] \in {"entered", "adding"} /\ wpc' = [wpc EXCEPT ![w] = "drainRemove"]
      /\ excl \in SUBSET Object /\ after \in SUBSET Object
      /\ IncrementVersion(w, excl, FALSE, after)
      /\ torn' \in {torn, torn \cup {currentVersion + 1}}
      /\ UNCHANGED <<contents, writeLocked, writeMutex, readerVars>>
  BY DEF BeginRemove, InheritTorn, IndInv, TypeOK, Applied
<1>2. ASSUME currentVersion' \notin torn'
      PROVE  currentVersion \notin torn
  BY <1>2 DEF BeginRemove, InheritTorn, IncrementVersion
<1>3. ASSUME currentVersion + 1 \notin torn', NEW p \in Place
      PROVE  contents[p] \ excl = after
    <2>1. currentVersion \notin torn
      BY <1>2, <1>3 DEF BeginRemove, IncrementVersion
    <2>2. contents[p] \ objectsToExclude[currentVersion] = committed[currentVersion]
      BY <2>1, CurrentHolds
    <2>3. CASE wpc[w] = "entered"
      <3>1. objectsToAdd[w] = {} /\ objectsToExclude[currentVersion] = {}
        BY <2>3 DEF BeginRemove, IndInv, ExclusionInv
      <3> QED BY <2>2, <3>1 DEF Applied
    <2>4. CASE wpc[w] = "adding"
      <3>1. /\ objectsToAdd[w] \subseteq contents[p]
            /\ objectsToAdd[w] \cap objectsToRemove[w] = {}
            /\ objectsToExclude[currentVersion] = objectsToAdd[w]
        BY <2>1, <2>4 DEF BeginRemove, NothingTodo, IndInv, ExclusionInv, ProgressInv
      <3> QED BY <2>2, <3>1 DEF Applied
    <2> QED BY <1>1, <2>3, <2>4
<1>4. /\ MutexInv' /\ LockInv' /\ VersionInv' /\ ReaderInv' /\ ReadCommitted'
      /\ lazyExclude' = {}
      /\ objectsToExclude'[currentVersion'] = excl
      /\ committed'[currentVersion'] = after
  <2> HIDE DEF excl, after
  <2> QED BY <1>1, <1>3, Publish DEF Draining
<1>5. \A u \in Writer : wpc'[u] = IF u = w THEN "drainRemove" ELSE "idle"
  BY <1>1, OthersIdle DEF IndInv, TypeOK
<1>6. ExclusionInv'
  BY <1>4, <1>5, NullAssumption DEF BeginRemove, ExclusionInv, IndInv, MutexInv
<1>7. ProgressInv'
  BY <1>1, <1>4, <1>5 DEF BeginRemove, ProgressInv, IndInv, Applied
<1> QED BY <1>4, <1>6, <1>7 DEF IndInv

\* All changes are complete: the version that hides nothing is the transaction.
LEMMA IndBeginEmpty ==
    ASSUME IndInv, TypeOK', NEW w \in Writer, BeginEmpty(w)
    PROVE  IndInv'
<1> DEFINE after == Applied(w)
<1>1. /\ wpc[w] \in {"removing", "adding"} /\ wpc' = [wpc EXCEPT ![w] = "drainEmpty"]
      /\ after \in SUBSET Object
      /\ IncrementVersion(w, {}, FALSE, after)
      /\ torn' \in {torn, torn \cup {currentVersion + 1}}
      /\ UNCHANGED <<contents, writeLocked, writeMutex, readerVars>>
  BY DEF BeginEmpty, InheritTorn, IndInv, TypeOK, Applied
<1>2. ASSUME currentVersion + 1 \notin torn', NEW p \in Place
      PROVE  contents[p] \ {} = after
    <2>1. currentVersion \notin torn
      BY <1>2 DEF BeginEmpty, InheritTorn
    <2>2. contents[p] \ objectsToExclude[currentVersion] = committed[currentVersion]
      BY <2>1, CurrentHolds
    <2>3. CASE wpc[w] = "removing"
      <3>1. /\ objectsToAdd[w] \subseteq committed[currentVersion]
            /\ objectsToRemove[w] \cap contents[p] = {}
            /\ objectsToExclude[currentVersion] = objectsToRemove[w]
        BY <2>1, <2>3 DEF BeginEmpty, NothingTodo, IndInv, ExclusionInv, ProgressInv
      <3> QED BY <2>2, <3>1 DEF Applied
    <2>4. CASE wpc[w] = "adding"
      <3>1. /\ objectsToAdd[w] \subseteq contents[p]
            /\ objectsToRemove[w] = {}
            /\ objectsToExclude[currentVersion] = objectsToAdd[w]
        BY <2>1, <2>4 DEF BeginEmpty, NothingTodo, IndInv, ExclusionInv, ProgressInv
      <3> QED BY <2>2, <3>1 DEF Applied
    <2> QED BY <1>1, <2>3, <2>4
<1>3. /\ MutexInv' /\ LockInv' /\ VersionInv' /\ ReaderInv' /\ ReadCommitted'
      /\ lazyExclude' = {}
      /\ objectsToExclude'[currentVersion'] = {}
  <2> HIDE DEF after
  <2> QED BY <1>1, <1>2, Publish DEF Draining
<1>4. \A u \in Writer : wpc'[u] = IF u = w THEN "drainEmpty" ELSE "idle"
  BY <1>1, OthersIdle DEF IndInv, TypeOK
<1>5. ExclusionInv'
  BY <1>3, <1>4 DEF ExclusionInv
<1>6. ProgressInv'
  BY <1>4 DEF BeginEmpty, ProgressInv, IndInv
<1> QED BY <1>3, <1>5, <1>6 DEF IndInv

\* What is published after a failure is torn, and nothing is said about it.
LEMMA IndRestore ==
    ASSUME IndInv, TypeOK', NEW w \in Writer, RestoreEmptyVersionAfterFailure(w)
    PROVE  IndInv'
<1> DEFINE after == committed[currentVersion]
<1>1. /\ wpc[w] = "failed" /\ wpc' = [wpc EXCEPT ![w] = "drainRestore"]
      /\ after \in SUBSET Object
      /\ IncrementVersion(w, {}, FALSE, after)
      /\ torn' = torn \cup {currentVersion + 1}
      /\ UNCHANGED <<contents, writeLocked, writeMutex, readerVars>>
  BY DEF RestoreEmptyVersionAfterFailure, IndInv, TypeOK
<1>2. /\ MutexInv' /\ LockInv' /\ VersionInv' /\ ReaderInv' /\ ReadCommitted'
      /\ lazyExclude' = {}
      /\ objectsToExclude'[currentVersion'] = {}
  <2> HIDE DEF after
  <2> QED BY <1>1, Publish DEF Draining
<1>3. \A u \in Writer : wpc'[u] = IF u = w THEN "drainRestore" ELSE "idle"
  BY <1>1, OthersIdle DEF IndInv, TypeOK
<1>4. ExclusionInv'
  BY <1>2, <1>3 DEF ExclusionInv
<1>5. ProgressInv'
  BY <1>3 DEF RestoreEmptyVersionAfterFailure, ProgressInv, IndInv
<1> QED BY <1>2, <1>4, <1>5 DEF IndInv

\* The writer gets the write lock: only the current version can be read now.
LEMMA IndDrain ==
    ASSUME IndInv, TypeOK', NEW w \in Writer, Drain(w)
    PROVE  IndInv'
<1>1. /\ wpc[w] \in Draining
      /\ \A u \in Writer : u # w => wpc[u] = "idle" /\ wpc'[u] = "idle"
      /\ wpc'[w] \in {"adding", "removing", "returning", "throwing"}
      /\ wpc'[w] = "adding" => wpc[w] = "drainAdd"
      /\ wpc'[w] = "removing" => wpc[w] = "drainRemove"
      /\ wpc'[w] = "returning" => wpc[w] = "drainEmpty"
      /\ wpc'[w] = "throwing" => wpc[w] = "drainRestore"
  BY OthersIdle DEF Drain, Proceed, Draining, IndInv, TypeOK
<1>2. MutexInv'
  BY <1>1 DEF Drain, Proceed, Draining, IndInv, MutexInv
<1>3. LockInv'
  <2>1. /\ currentVersion \in Nat /\ previousVersion[w] \in Nat
        /\ previousVersion[w] + 1 = currentVersion
    BY <1>1, BoundAssumption DEF IndInv, LockInv, TypeOK, VersionNumber
  <2>2. \A v \in writeLocked' : v < currentVersion'
    BY <2>1 DEF Drain, Proceed, IndInv, LockInv
  <2>3. \A u \in Writer : wpc'[u] \notin Draining
    BY <1>1 DEF Draining
  <2>4. ASSUME NEW v \in 1 .. currentVersion', v \notin writeLocked'
        PROVE  v = currentVersion'
    BY <2>4, <1>1 DEF Drain, Proceed, Draining, IndInv, LockInv
  <2> QED BY <2>2, <2>3, <2>4 DEF LockInv
<1>4. ExclusionInv'
  <2>1. \A u \in Writer : ExclusionInv!3!(u)'
    BY <1>1 DEF Drain, Proceed, IndInv, ExclusionInv
  <2> QED BY <2>1 DEF Drain, Proceed, IndInv, ExclusionInv
<1>5. ProgressInv'
  <2> SUFFICES ASSUME NEW u \in Writer
               PROVE  ProgressInv!(u)'
    BY DEF ProgressInv
  <2>1. CASE u # w
    BY <1>1, <2>1 DEF Drain, Proceed, IndInv, ProgressInv
  <2>2. CASE u = w
    <3>1. CASE wpc[w] = "drainAdd"
      <4>1. /\ wpc'[w] = "adding"
            /\ \A p \in Place : todo'[w][p] = objectsToAdd[w]
        BY <3>1, <1>1 DEF Drain, Proceed, IndInv, TypeOK
      <4> QED BY <2>2, <4>1 DEF Drain, Proceed, IndInv, ProgressInv
    <3>2. CASE wpc[w] = "drainRemove"
      <4>1. /\ wpc'[w] = "removing"
            /\ \A p \in Place : todo'[w][p] = objectsToRemove[w]
        BY <3>2, <1>1 DEF Drain, Proceed, IndInv, TypeOK
      <4> QED BY <2>2, <3>2, <4>1 DEF Drain, Proceed, IndInv, ProgressInv
    <3>3. CASE wpc[w] \in {"drainEmpty", "drainRestore"}
      BY <2>2, <3>3, <1>1 DEF Drain, Proceed, IndInv, ProgressInv
    <3> QED BY <1>1, <3>1, <3>2, <3>3 DEF Draining
  <2> QED BY <2>1, <2>2
<1>6. VersionInv' /\ ReaderInv' /\ ReadCommitted'
  <2>1. \A r \in Reader : rpc[r] \in Reading => thisVersion[r] \notin writeLocked'
    BY DEF Drain, Proceed, HoldsReadLock, Reading, IndInv, ReaderInv
  <2>2. writeLocked \subseteq writeLocked'
    BY DEF Drain
  <2> QED BY <2>1, <2>2, VersionsUnaffected DEF Drain, Proceed
<1> QED BY <1>2, <1>3, <1>4, <1>5, <1>6 DEF IndInv

\* One object is added or removed in one place: readers of the current version,
\* the only ones left, exclude it.
LEMMA IndChangeOne ==
    ASSUME IndInv, TypeOK', NEW w \in Writer, NEW p \in Place, NEW o \in Object,
           ChangeOne(w, p, o)
    PROVE  IndInv'
<1>1. /\ wpc[w] \in {"adding", "removing"} /\ wpc' = wpc
      /\ o \in todo[w][p]
      /\ \A u \in Writer : u # w => wpc[u] = "idle"
  BY OthersIdle DEF ChangeOne, MayChange, IndInv
<1>2. MutexInv' /\ LockInv' /\ ExclusionInv'
  BY DEF ChangeOne, IndInv, MutexInv, LockInv, ExclusionInv
<1>3. /\ contents'[p] = IF wpc[w] = "adding" THEN contents[p] \cup {o} ELSE contents[p] \ {o}
      /\ todo'[w][p] = todo[w][p] \ {o}
      /\ \A q \in Place : q # p => contents'[q] = contents[q] /\ todo'[w][q] = todo[w][q]
  BY DEF ChangeOne, IndInv, TypeOK
<1>4. ProgressInv'
  <2> SUFFICES ASSUME NEW u \in Writer
               PROVE  ProgressInv!(u)'
    BY DEF ProgressInv
  <2>1. CASE u # w
    BY <1>1, <2>1 DEF ChangeOne, IndInv, ProgressInv
  <2>2. CASE u = w
    BY <1>1, <1>3, <2>2 DEF ChangeOne, IndInv, ProgressInv
  <2> QED BY <2>1, <2>2
<1>5. ASSUME NEW v \in 1 .. currentVersion, v \notin writeLocked, v \notin torn, NEW q \in Place
      PROVE  contents'[q] \ objectsToExclude[v] = contents[q] \ objectsToExclude[v]
  <2>1. v = currentVersion
    BY <1>1, <1>5 DEF IndInv, LockInv, Draining
  <2>2. o \in objectsToExclude[currentVersion]
    BY <1>1, <1>5, <2>1 DEF IndInv, ExclusionInv, ProgressInv
  <2> QED BY <1>3, <2>1, <2>2
<1>6. VersionInv' /\ ReaderInv' /\ ReadCommitted'
  <2>1. \A r \in Reader : rpc[r] \in Reading => thisVersion[r] \notin writeLocked'
    BY DEF ChangeOne, IndInv, ReaderInv
  <2> QED BY <1>5, <2>1, VersionsUnaffected DEF ChangeOne
<1> QED BY <1>2, <1>4, <1>6 DEF IndInv

\* A reader's step can only disturb what is said about that reader.
LEMMA ReaderFrame ==
    ASSUME IndInv, TypeOK', NEW r \in Reader,
           UNCHANGED <<collectionVars, versionVars, writeLocked, writeMutex, writerVars>>,
           \A q \in Reader : q # r =>
               /\ rpc'[q] = rpc[q] /\ thisVersion'[q] = thisVersion[q]
               /\ filtering'[q] = filtering[q] /\ unvisited'[q] = unvisited[q]
               /\ fetched'[q] = fetched[q] /\ result'[q] = result[q],
           ReaderInv!(r)', ReadCommitted!(r)'
    PROVE  IndInv'
<1>1. MutexInv' /\ LockInv' /\ ExclusionInv' /\ ProgressInv' /\ VersionInv'
  BY DEF IndInv, MutexInv, LockInv, ExclusionInv, ProgressInv, VersionInv
<1>2. ReaderInv'
  BY DEF IndInv, ReaderInv
<1>3. ReadCommitted'
  BY DEF IndInv, ReadCommitted
<1> QED BY <1>1, <1>2, <1>3 DEF IndInv

\* A reader that holds a read lock of a sound version: what that version excludes
\* and what it stands for are told apart in every place.
LEMMA LockedHolds ==
    ASSUME IndInv, NEW r \in Reader, rpc[r] \in Reading, thisVersion[r] \notin torn
    PROVE  \A p \in Place :
               contents[p] \ objectsToExclude[thisVersion[r]] = committed[thisVersion[r]]
<1>1. thisVersion[r] \in 1 .. currentVersion /\ thisVersion[r] \notin writeLocked
  BY BoundAssumption DEF IndInv, TypeOK, VersionNumber, ReaderInv
<1> QED BY <1>1 DEF IndInv, VersionInv

\* A reader that has only read currentVersion holds nothing.
LEMMA IndReadCurrentVersion ==
    ASSUME IndInv, TypeOK', NEW r \in Reader, ReadCurrentVersion(r)
    PROVE  IndInv'
<1>1. /\ thisVersion'[r] = currentVersion /\ rpc'[r] = "tryLock" /\ rpc[r] = "idle"
      /\ currentVersion <= currentVersion
  BY BoundAssumption DEF ReadCurrentVersion, IndInv, TypeOK, VersionNumber
<1>2. ReaderInv!(r)' /\ ReadCommitted!(r)'
  BY <1>1 DEF ReadCurrentVersion, IndInv, ReaderInv, Reading
<1> QED BY <1>2, ReaderFrame DEF ReadCurrentVersion, IndInv, TypeOK

\* tryLock succeeds only on a version that no writer has locked.
LEMMA IndTryReadLock ==
    ASSUME IndInv, TypeOK', NEW r \in Reader, TryReadLock(r)
    PROVE  IndInv'
<1>1. currentVersion <= currentVersion
  BY BoundAssumption DEF IndInv, TypeOK, VersionNumber
<1>2. ReaderInv!(r)' /\ ReadCommitted!(r)'
  <2>1. CASE thisVersion[r] \in writeLocked
    BY <1>1, <2>1 DEF TryReadLock, IndInv, TypeOK, ReaderInv, Reading
  <2>2. CASE thisVersion[r] \notin writeLocked
    BY <1>1, <2>2 DEF TryReadLock, IndInv, TypeOK, ReaderInv, Reading
  <2> QED BY <2>1, <2>2
<1>3. \A q \in Reader : q # r => rpc'[q] = rpc[q] /\ thisVersion'[q] = thisVersion[q]
  BY DEF TryReadLock, IndInv, TypeOK
<1> QED BY <1>2, <1>3, ReaderFrame DEF TryReadLock

\* Before the iteration nothing is returned, and filtering is decided once: the
\* exclusion of a version does not change while it can be read.
LEMMA IndRetrieve ==
    ASSUME IndInv, TypeOK', NEW r \in Reader, NEW p \in Place, Retrieve(r, p)
    PROVE  IndInv'
<1>1. /\ rpc[r] = "locked" /\ rpc'[r] = "iterating" /\ unvisited'[r] = Object
      /\ result[r] = {} /\ fetched[r] = NoObject
  BY DEF Retrieve, IndInv, TypeOK, ReaderInv
<1>2. filtering'[r] <=> objectsToExclude[thisVersion[r]] # {}
  <2>1. filtering'[r] = \E o \in Object : Excluded(thisVersion[r], o)
    BY DEF Retrieve, IndInv, TypeOK
  <2>2. objectsToExclude[thisVersion[r]] \in SUBSET Object /\ lazyExclude = {}
    BY DEF IndInv, TypeOK, ExclusionInv
  <2> QED BY <2>1, <2>2 DEF Excluded
<1>3. ReaderInv!(r)'
  BY <1>1, <1>2, NullAssumption DEF Retrieve, IndInv, ReaderInv, Reading
<1>4. ReadCommitted!(r)'
  BY <1>1 DEF Retrieve
<1> QED BY <1>3, <1>4, ReaderFrame DEF Retrieve, IndInv, TypeOK

\* An object that is passed over is in no committed state of the version; one that
\* is fetched is in it or is excluded from it.
LEMMA IndFetch ==
    ASSUME IndInv, TypeOK', NEW r \in Reader, NEW o \in Object, Fetch(r, o)
    PROVE  IndInv'
<1> DEFINE v == thisVersion[r]
<1>1. /\ rpc[r] = "iterating" /\ o \in unvisited[r] /\ unvisited'[r] = unvisited[r] \ {o}
      /\ result[r] \cap unvisited[r] = {} /\ fetched[r] = NoObject
      /\ rpc[r] \in Reading /\ place[r] \in Place
      /\ v \notin torn => contents[place[r]] \ objectsToExclude[v] = committed[v]
      /\ \A q \in Reader : q # r =>
             /\ rpc'[q] = rpc[q] /\ unvisited'[q] = unvisited[q] /\ fetched'[q] = fetched[q]
  BY LockedHolds DEF Fetch, IndInv, TypeOK, ReaderInv, Reading
<1>2. CASE o \in contents[place[r]]
  <2>1. /\ fetched'[r] = o /\ rpc'[r] = "filtering" /\ UNCHANGED <<thisVersion, result>>
    BY <1>2 DEF Fetch, IndInv, TypeOK
  <2>2. ReaderInv!(r)'
    BY <1>1, <1>2, <2>1, NullAssumption DEF Fetch, IndInv, ReaderInv, Reading
  <2>3. ReadCommitted!(r)'
    BY <1>1, <2>1, NullAssumption DEF Fetch, IndInv, ReadCommitted
  <2> QED BY <1>1, <2>2, <2>3, ReaderFrame DEF Fetch
<1>3. CASE o \notin contents[place[r]]
  <2>1. ReaderInv!(r)'
    BY <1>1, <1>3 DEF Fetch, IndInv, ReaderInv, Reading
  <2>2. ReadCommitted!(r)'
    BY <1>1, <1>3, NullAssumption DEF Fetch, IndInv, ReadCommitted
  <2> QED BY <1>1, <2>1, <2>2, ReaderFrame DEF Fetch
<1> QED BY <1>2, <1>3

\* isValid() keeps exactly the objects that the version stands for.
LEMMA IndFilter ==
    ASSUME IndInv, TypeOK', NEW r \in Reader, Filter(r)
    PROVE  IndInv'
<1> DEFINE v == thisVersion[r]
           hidden == fetched[r] \in objectsToExclude[v]
<1>1. /\ rpc[r] = "filtering" /\ rpc'[r] = "iterating" /\ rpc[r] \in Reading
      /\ fetched[r] \in Object /\ fetched'[r] = NoObject
      /\ UNCHANGED <<thisVersion, unvisited, filtering, place>>
  BY DEF Filter, IndInv, TypeOK, Reading
<1>2. result'[r] = IF hidden THEN result[r] ELSE result[r] \cup {fetched[r]}
  <2>1. Excluded(v, fetched[r]) <=> hidden
    BY DEF Excluded, IndInv, ExclusionInv
  <2>2. hidden => filtering[r]
    BY <1>1 DEF IndInv, ReaderInv
  <2> QED BY <2>1, <2>2 DEF Filter, IndInv, TypeOK
<1>3. v \notin torn => (hidden <=> fetched[r] \notin committed[v])
  <2> SUFFICES ASSUME v \notin torn
               PROVE  hidden <=> fetched[r] \notin committed[v]
    OBVIOUS
  <2>1. contents[Store] \ objectsToExclude[v] = committed[v]
    BY <1>1, LockedHolds DEF Place
  <2>2. fetched[r] \in committed[v] \cup objectsToExclude[v]
    BY <1>1 DEF IndInv, ReaderInv
  <2> QED BY <2>1, <2>2
<1>4. ReaderInv!(r)'
  BY <1>1, <1>2, NullAssumption DEF Filter, IndInv, ReaderInv, Reading, TypeOK
<1>5. ReadCommitted!(r)'
  <2> SUFFICES ASSUME v \notin torn, NEW o \in Object \ unvisited[r]
               PROVE  o \in result'[r] <=> o \in committed[v]
    BY <1>1 DEF Filter
  <2>1. CASE o = fetched[r]
    <3>1. fetched[r] \notin result[r]
      BY DEF IndInv, ReaderInv
    <3> QED BY <1>2, <1>3, <2>1, <3>1
  <2>2. CASE o # fetched[r]
    BY <1>1, <1>2, <2>2 DEF IndInv, ReadCommitted
  <2> QED BY <2>1, <2>2
<1> QED BY <1>4, <1>5, ReaderFrame DEF Filter, IndInv, TypeOK

\* A closed ResultSet leaves nothing behind.
LEMMA IndClose ==
    ASSUME IndInv, TypeOK', NEW r \in Reader, Close(r)
    PROVE  IndInv'
<1>1. /\ rpc'[r] = "idle" /\ thisVersion'[r] = 1 /\ result'[r] = {} /\ unvisited'[r] = {}
      /\ fetched'[r] = NoObject /\ 1 <= currentVersion
  BY BoundAssumption DEF Close, Forget, IndInv, TypeOK, VersionNumber
<1>2. ReaderInv!(r)' /\ ReadCommitted!(r)'
  BY <1>1 DEF Close, Forget, Reading
<1>3. \A q \in Reader : q # r =>
             /\ rpc'[q] = rpc[q] /\ thisVersion'[q] = thisVersion[q]
             /\ filtering'[q] = filtering[q] /\ unvisited'[q] = unvisited[q]
             /\ fetched'[q] = fetched[q] /\ result'[q] = result[q]
  BY DEF Close, Forget, IndInv, TypeOK
<1> QED BY <1>2, <1>3, ReaderFrame DEF Close, Forget

\* The invariant holds of an idle collection.
LEMMA IndInit == Init => IndInv
<1> SUFFICES ASSUME Init
             PROVE  IndInv
  OBVIOUS
<1>1. /\ currentVersion = 1 /\ 1 .. currentVersion = {1} /\ 1 \in VersionNumber
      /\ objectsToExclude[1] = {} /\ lazyExclude = {} /\ writeLocked = {}
  BY BoundAssumption DEF Init, VersionNumber
<1>2. MutexInv /\ LockInv /\ ExclusionInv /\ ProgressInv
  BY <1>1, NullAssumption
  DEF Init, MutexInv, LockInv, ExclusionInv, ProgressInv, Draining
<1>3. VersionInv
  <2>1. PICK S \in SUBSET Object :
            /\ contents = [p \in Place |-> S]
            /\ committed = [v \in VersionNumber |-> IF v = 1 THEN S ELSE {}]
    BY DEF Init
  <2> QED BY <1>1, <2>1 DEF VersionInv
<1>4. ReaderInv /\ ReadCommitted
  BY <1>1 DEF Init, ReaderInv, ReadCommitted, Reading
<1> QED BY <1>2, <1>3, <1>4, TypeInit DEF IndInv

\* Every step of update() and of the readers preserves the invariant.
LEMMA IndNext ==
    ASSUME UpdateOnly
    PROVE  IndInv /\ [Next]_vars => IndInv'
<1> SUFFICES ASSUME IndInv, [Next]_vars
             PROVE  IndInv'
  OBVIOUS
<1>1. TypeOK'
  BY TypeNext DEF IndInv
<1>2. ASSUME NEW w \in Writer, Call(w)
      PROVE  IndInv'
  BY <1>1, <1>2, IndUpdate, CallCases DEF RetainAll, UpdateOnly
<1>3. ASSUME NEW w \in Writer, WriterStep(w) \/ Fail(w)
      PROVE  IndInv'
  BY <1>1, <1>3, IndUpdateReturnsEarly, IndBeginAdd, IndBeginRemove, IndBeginEmpty,
     IndDrain, IndChangeOne, IndRestore, IndReturn, IndFail DEF WriterStep
<1>4. ASSUME NEW r \in Reader, ReadCurrentVersion(r) \/ ReaderStep(r)
      PROVE  IndInv'
  BY <1>1, <1>4, IndReadCurrentVersion, IndTryReadLock, IndRetrieve, IndFetch, IndFilter,
     IndClose DEF ReaderStep
<1>5. CASE UNCHANGED vars
  BY <1>5, <1>1 DEF vars, IndInv, MutexInv, LockInv, ExclusionInv, ProgressInv, VersionInv,
     ReaderInv, ReadCommitted
<1> QED BY <1>2, <1>3, <1>4, <1>5 DEF Next

\* For any number of threads, objects, indexes and versions, and even if mutations
\* fail: the inductive invariant of update().
THEOREM Inductive ==
    ASSUME UpdateOnly
    PROVE  Spec => []IndInv
BY IndInit, IndNext, PTL DEF Spec

\* A reader of update()'s versions sees the collection its version stands for,
\* from whichever index its query is answered.
THEOREM UpdateIsReadCommitted ==
    ASSUME UpdateOnly
    PROVE  Spec => []ReadCommitted
<1>1. IndInv => ReadCommitted
  BY DEF IndInv
<1> QED BY <1>1, Inductive, PTL
=============================================================================
