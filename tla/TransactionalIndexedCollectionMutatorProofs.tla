------------- MODULE TransactionalIndexedCollectionMutatorProofs -------------
(***************************************************************************)
(* What holds of TransactionalIndexedCollection whichever mutators are in  *)
(* use: update(), also when it adds what is there already, retainAll() and *)
(* clear(), and mutations that fail.                                       *)
(***************************************************************************)
EXTENDS TransactionalIndexedCollectionProofs

USE DEF collectionVars, versionVars, writerVars, readerVars

\* Versions are numbers, and there is a current one.
LEMMA CurrentIsNumber ==
    ASSUME TypeOK
    PROVE  /\ currentVersion \in Nat /\ 1 <= currentVersion
           /\ currentVersion \in 1 .. currentVersion
           /\ \A v \in VersionNumber : v \in Nat /\ 1 <= v
BY BoundAssumption DEF TypeOK, VersionNumber

\* What the versions so far stand for and exclude stays, and so does what is said
\* of the readers that have locked one of them.
LEMMA ReadersKeep ==
    ASSUME TypeOK, HidingInv, IterationInv, ReadsBounded,
           UNCHANGED readerVars,
           currentVersion' \in Nat, currentVersion <= currentVersion',
           \A v \in 1 .. currentVersion :
               /\ objectsToExclude'[v] = objectsToExclude[v]
               /\ committed'[v] = committed[v]
               /\ v \in torn' <=> v \in torn
               /\ v \in lazyExclude' <=> v \in lazyExclude,
           \A r \in Reader : rpc[r] \in Reading => thisVersion[r] \notin writeLocked'
    PROVE  IterationInv' /\ ReadsBounded'
<1> SUFFICES ASSUME NEW r \in Reader
             PROVE  IterationInv!(r)' /\ ReadsBounded!(r)'
  BY DEF IterationInv, ReadsBounded
<1> DEFINE v == thisVersion[r]
<1>1. v \in 1 .. currentVersion /\ v \in Nat /\ currentVersion \in Nat
  BY CurrentIsNumber DEF TypeOK, IterationInv, VersionNumber
<1>2. /\ objectsToExclude'[v] = objectsToExclude[v]
      /\ committed'[v] = committed[v]
      /\ v \in torn' <=> v \in torn
      /\ v \in lazyExclude' <=> v \in lazyExclude
  BY <1>1
<1>3. v \in lazyExclude => committed'[v - 1] = committed[v - 1]
  <2>1. v \in lazyExclude => v - 1 \in 1 .. currentVersion
    BY <1>1 DEF HidingInv
  <2> QED BY <2>1
<1>4. Possible(v)' = Possible(v)
  BY <1>2, <1>3 DEF Possible
<1>5. IterationInv!(r)'
  BY <1>1, <1>2, <1>4 DEF IterationInv
<1>6. ReadsBounded!(r)'
  BY <1>1, <1>2, <1>4 DEF ReadsBounded
<1> QED BY <1>5, <1>6

\* incrementVersion: if, outside of what the new version excludes, the places hold
\* what it stands for, publishing it preserves what is said of all versions.
LEMMA PublishAny ==
    ASSUME MutatorInv, NEW w \in Writer,
           \A u \in Writer : wpc[u] \notin Draining /\ (u # w => wpc[u] = "idle"),
           NEW excl \in SUBSET Object, NEW after \in SUBSET Object,
           NEW lazy \in SUBSET {currentVersion + 1},
           currentVersion + 1 \in VersionNumber, currentVersion' = currentVersion + 1,
           previousVersion' = [previousVersion EXCEPT ![w] = currentVersion],
           objectsToExclude' = [objectsToExclude EXCEPT ![currentVersion + 1] = excl],
           lazyExclude' = lazyExclude \cup lazy,
           committed' = [committed EXCEPT ![currentVersion + 1] = after],
           NEW pc \in Draining, wpc' = [wpc EXCEPT ![w] = pc], writeMutex' = w,
           torn' \in {torn, torn \cup {currentVersion + 1}},
           \A p \in Place : currentVersion + 1 \notin torn' =>
               /\ contents[p] \ excl = after \ excl
               /\ lazy # {} => contents[p] \subseteq committed[currentVersion],
           UNCHANGED <<contents, writeLocked, readerVars>>
    PROVE  /\ MutexInv' /\ LockInv' /\ ReadableInv' /\ IterationInv' /\ ReadsBounded'
           /\ \A v \in lazyExclude' : 1 < v /\ v <= currentVersion'
           /\ \A u \in Writer : wpc'[u] = IF u = w THEN pc ELSE "idle"
           /\ objectsToExclude'[currentVersion'] = excl
           /\ committed'[currentVersion'] = after
           /\ currentVersion' \in lazyExclude' <=> lazy # {}
<1> USE DEF MutatorInv
<1>1. /\ currentVersion \in Nat /\ currentVersion' = currentVersion + 1
      /\ currentVersion' \in VersionNumber /\ currentVersion' \in Nat
      /\ 1 <= currentVersion /\ currentVersion <= currentVersion'
  BY CurrentIsNumber
<1>2. /\ currentVersion + 1 \notin lazyExclude
      /\ currentVersion' \in lazyExclude' <=> lazy # {}
      /\ \A v \in lazyExclude' : 1 < v /\ v <= currentVersion'
  <2>1. \A v \in lazyExclude : v \in Nat /\ 1 < v /\ v <= currentVersion
    BY CurrentIsNumber DEF HidingInv, TypeOK
  <2>2. lazy = {} \/ lazy = {currentVersion + 1}
    OBVIOUS
  <2>3. currentVersion + 1 \notin lazyExclude
    BY <1>1, <2>1
  <2>4. ASSUME NEW v \in lazyExclude'
        PROVE  1 < v /\ v <= currentVersion'
    <3>1. v \in lazyExclude \/ v = currentVersion + 1
      BY <2>2
    <3> QED BY <1>1, <2>1, <3>1
  <2>5. currentVersion' \in lazyExclude' <=> lazy # {}
    BY <1>1, <2>2, <2>3
  <2> QED BY <2>3, <2>4, <2>5
<1>3. \A v \in 1 .. currentVersion :
             /\ objectsToExclude'[v] = objectsToExclude[v]
             /\ committed'[v] = committed[v]
             /\ v \in torn' <=> v \in torn
             /\ v \in lazyExclude' <=> v \in lazyExclude
  BY <1>1 DEF TypeOK, VersionNumber
<1>4. /\ objectsToExclude'[currentVersion'] = excl
      /\ committed'[currentVersion'] = after
      /\ previousVersion'[w] = currentVersion
  BY <1>1 DEF TypeOK
<1>5. \A u \in Writer : wpc'[u] = IF u = w THEN pc ELSE "idle"
  BY DEF TypeOK
<1>6. MutexInv'
  BY <1>5 DEF MutexInv, Draining
<1>7. \A v \in 1 .. currentVersion : v \notin writeLocked => v = currentVersion
  BY DEF LockInv
<1>8. LockInv'
  <2>1. \A v \in writeLocked' : v < currentVersion'
    BY <1>1 DEF LockInv, TypeOK, VersionNumber
  <2>2. \A u \in Writer : wpc'[u] \in Draining => previousVersion'[u] + 1 = currentVersion'
    BY <1>1, <1>4, <1>5 DEF Draining
  <2>3. ASSUME NEW v \in 1 .. currentVersion', v \notin writeLocked'
        PROVE  \/ v = currentVersion'
               \/ \E u \in Writer : wpc'[u] \in Draining /\ v = previousVersion'[u]
    BY <2>3, <1>1, <1>4, <1>5, <1>7
  <2> QED BY <2>1, <2>2, <2>3 DEF LockInv
<1>9. ReadableInv'
  <2> SUFFICES ASSUME NEW v \in 1 .. currentVersion', v \notin writeLocked', v \notin torn',
                      NEW p \in Place
               PROVE  /\ contents[p] \ objectsToExclude'[v] = committed'[v] \ objectsToExclude'[v]
                      /\ v \in lazyExclude' => contents[p] \subseteq committed'[v - 1]
    BY DEF ReadableInv
  <2>1. CASE v = currentVersion'
    <3>1. v - 1 = currentVersion /\ currentVersion \in 1 .. currentVersion
      BY <1>1, <2>1
    <3>2. committed'[v - 1] = committed[currentVersion]
      BY <1>3, <3>1
    <3> QED BY <1>1, <1>2, <1>4, <2>1, <3>2
  <2>2. CASE v # currentVersion'
    <3>1. v \in 1 .. currentVersion /\ v = currentVersion
      BY <1>1, <1>7, <2>2
    <3>2. v \in lazyExclude => v - 1 \in 1 .. currentVersion
      BY <1>1, <3>1 DEF HidingInv
    <3> QED BY <1>3, <3>1, <3>2 DEF ReadableInv
  <2> QED BY <2>1, <2>2
<1>10. IterationInv' /\ ReadsBounded'
  <2>1. \A r \in Reader : rpc[r] \in Reading => thisVersion[r] \notin writeLocked'
    BY DEF IterationInv
  <2> QED BY <1>1, <1>3, <2>1, ReadersKeep
<1> QED BY <1>2, <1>4, <1>5, <1>6, <1>8, <1>9, <1>10

\* No version is published and readers do nothing: what the versions show outside of
\* their exclusions stays, and under retainAll() nothing is added.
LEMMA VersionsKeep ==
    ASSUME MutatorInv,
           UNCHANGED <<currentVersion, objectsToExclude, lazyExclude, committed, torn, readerVars>>,
           writeLocked \subseteq writeLocked',
           \A r \in Reader : rpc[r] \in Reading => thisVersion[r] \notin writeLocked',
           \A v \in 1 .. currentVersion, p \in Place :
               (v \notin writeLocked' /\ v \notin torn) =>
                   /\ contents'[p] \ objectsToExclude[v] = contents[p] \ objectsToExclude[v]
                   /\ v \in lazyExclude => contents'[p] \subseteq contents[p]
    PROVE  ReadableInv' /\ IterationInv' /\ ReadsBounded'
<1>1. ReadableInv'
  <2> SUFFICES ASSUME NEW v \in 1 .. currentVersion, v \notin writeLocked', v \notin torn,
                      NEW p \in Place
               PROVE  /\ contents'[p] \ objectsToExclude[v] = committed[v] \ objectsToExclude[v]
                      /\ v \in lazyExclude => contents'[p] \subseteq committed[v - 1]
    BY DEF ReadableInv
  <2>1. /\ contents[p] \ objectsToExclude[v] = committed[v] \ objectsToExclude[v]
        /\ v \in lazyExclude => contents[p] \subseteq committed[v - 1]
    BY DEF MutatorInv, ReadableInv
  <2> QED BY <2>1
<1>2. IterationInv' /\ ReadsBounded'
  <2>1. currentVersion \in Nat /\ currentVersion <= currentVersion
    BY CurrentIsNumber DEF MutatorInv
  <2> QED BY <2>1, ReadersKeep DEF MutatorInv
<1> QED BY <1>1, <1>2

\* While one mutator runs, the invariant is about that one.
LEMMA BusyFrame ==
    ASSUME NEW w \in Writer, writeMutex' # NoWriter,
           \A u \in Writer : u # w =>
               wpc'[u] = "idle" /\ objectsToAdd'[u] \cap objectsToRemove'[u] = {},
           \A v \in lazyExclude' : 1 < v /\ v <= currentVersion',
           HidingInv!3!(w)',
           currentVersion' \notin torn' => ContentsInv!2!2!(w)' /\ OutcomeInv!2!(w)'
    PROVE  HidingInv' /\ ContentsInv' /\ OutcomeInv'
<1>1. HidingInv'
  BY DEF HidingInv
<1>2. ContentsInv'
  BY DEF ContentsInv
<1>3. OutcomeInv'
  BY DEF OutcomeInv
<1> QED BY <1>1, <1>2, <1>3

\* While nothing runs and nothing has failed, the places hold the collection.
LEMMA MutUpdate ==
    ASSUME MutatorInv, TypeOK',
           NEW w \in Writer, NEW rem \in SUBSET Object, NEW add \in SUBSET Object,
           NEW iterables \in SUBSET {"adding", "removing"},
           Update(w, rem, add, iterables)
    PROVE  MutatorInv'
<1>1. \A u \in Writer : wpc[u] = "idle" /\ wpc'[u] = IF u = w THEN "entered" ELSE "idle"
  BY NullAssumption DEF Update, MutatorInv, MutexInv, TypeOK
<1>2. MutexInv'
  BY <1>1, NullAssumption DEF Update, MutexInv
<1>3. LockInv'
  BY <1>1 DEF Update, MutatorInv, LockInv, Draining
<1>4. /\ objectsToExclude[currentVersion] = {}
      /\ currentVersion \notin torn => \A p \in Place : contents[p] = committed[currentVersion]
  BY DEF Update, MutatorInv, HidingInv, ContentsInv
<1>5. \A u \in Writer : objectsToAdd'[u] \cap objectsToRemove'[u] = {}
  BY DEF Update, MutatorInv, HidingInv, TypeOK
<1>6. ~modified'[w] /\ ~changed'[w]
  BY DEF Update, MutatorInv, TypeOK
<1>7. HidingInv' /\ ContentsInv' /\ OutcomeInv'
  <2>1. HidingInv!3!(w)'
    BY <1>1, <1>4, <1>5 DEF Update
  <2>2. currentVersion' \notin torn' => ContentsInv!2!2!(w)' /\ OutcomeInv!2!(w)'
    BY <1>1, <1>4, <1>6 DEF Update
  <2>3. \A v \in lazyExclude' : 1 < v /\ v <= currentVersion'
    BY DEF Update, MutatorInv, HidingInv
  <2>4. writeMutex' # NoWriter
    BY NullAssumption DEF Update
  <2> QED BY <1>1, <1>5, <2>1, <2>2, <2>3, <2>4, BusyFrame
<1>8. ReadableInv' /\ IterationInv' /\ ReadsBounded'
  BY VersionsKeep DEF Update, MutatorInv, IterationInv
<1> QED BY <1>2, <1>3, <1>7, <1>8 DEF MutatorInv

\* retainAll() hides a lazy set: what it keeps stays visible, what it is about to
\* remove is all that may be seen beyond that.
LEMMA MutRetainAll ==
    ASSUME MutatorInv, TypeOK', NEW w \in Writer, NEW retain \in SUBSET Object,
           RetainAll(w, retain)
    PROVE  MutatorInv'
<1> DEFINE rem == contents[Store] \ retain
           C == committed[currentVersion]
           excl == Object \ retain
           after == C \cap retain
<1>1. /\ \A u \in Writer : wpc[u] = "idle"
      /\ writeMutex' = w /\ w # NoWriter
      /\ UNCHANGED <<contents, writeLocked, todo, readerVars>>
      /\ objectsToExclude[currentVersion] = {}
      /\ currentVersion \notin torn => \A p \in Place : contents[p] = C
      /\ C \in SUBSET Object /\ Store \in Place /\ contents[Store] \in SUBSET Object
  BY NullAssumption DEF RetainAll, MutatorInv, MutexInv, HidingInv, ContentsInv, TypeOK, Place
<1>2. /\ objectsToAdd'[w] = {} /\ objectsToRemove'[w] = rem
      /\ \A u \in Writer : objectsToAdd'[u] \cap objectsToRemove'[u] = {}
  BY DEF RetainAll, MutatorInv, HidingInv, TypeOK
<1>3. ~modified'[w] /\ (changed'[w] <=> rem # {})
  <2>1. changed' = [changed EXCEPT ![w] = rem # {}] /\ modified' = [modified EXCEPT ![w] = FALSE]
    BY DEF RetainAll
  <2>2. changed \in [Writer -> BOOLEAN] /\ modified \in [Writer -> BOOLEAN]
    BY DEF MutatorInv, TypeOK
  <2> QED BY <2>1, <2>2
<1>4. CASE rem = {}
  <2>1. /\ wpc' = [wpc EXCEPT ![w] = "returning"]
        /\ UNCHANGED <<versionVars, previousVersion>>
    BY <1>4 DEF RetainAll
  <2>2. \A u \in Writer : wpc'[u] = IF u = w THEN "returning" ELSE "idle"
    BY <1>1, <2>1 DEF MutatorInv, TypeOK
  <2>3. MutexInv' /\ LockInv'
    BY <1>1, <2>1, <2>2 DEF MutexInv, LockInv, MutatorInv, Draining
  <2>4. HidingInv!3!(w)'
    BY <1>1, <1>2, <2>1, <2>2
  <2>5. currentVersion' \notin torn' => ContentsInv!2!2!(w)' /\ OutcomeInv!2!(w)'
    BY <1>1, <1>3, <1>4, <2>1, <2>2
  <2>6. \A v \in lazyExclude' : 1 < v /\ v <= currentVersion'
    BY <2>1 DEF MutatorInv, HidingInv
  <2>7. HidingInv' /\ ContentsInv' /\ OutcomeInv'
    BY <1>1, <1>2, <2>2, <2>4, <2>5, <2>6, BusyFrame
  <2>8. ReadableInv' /\ IterationInv' /\ ReadsBounded'
    BY <1>1, <2>1, VersionsKeep DEF MutatorInv, IterationInv
  <2> QED BY <2>3, <2>7, <2>8 DEF MutatorInv
<1>5. CASE rem # {}
  <2>1. /\ IncrementVersion(w, excl, TRUE, after)
        /\ InheritTorn
        /\ wpc' = [wpc EXCEPT ![w] = "drainRemove"]
    BY <1>5 DEF RetainAll
  <2>2. /\ torn' \in {torn, torn \cup {currentVersion + 1}}
        /\ currentVersion' = currentVersion + 1
        /\ currentVersion' \notin torn' => currentVersion \notin torn
    BY <2>1 DEF InheritTorn, IncrementVersion
  <2>3. \A p \in Place : currentVersion + 1 \notin torn' =>
            /\ contents[p] \ excl = after \ excl
            /\ contents[p] \ rem = after
            /\ contents[p] \subseteq C
    BY <1>1, <2>2
  <2>4. /\ MutexInv' /\ LockInv' /\ ReadableInv' /\ IterationInv' /\ ReadsBounded'
        /\ \A v \in lazyExclude' : 1 < v /\ v <= currentVersion'
        /\ \A u \in Writer : wpc'[u] = IF u = w THEN "drainRemove" ELSE "idle"
        /\ objectsToExclude'[currentVersion'] = excl
        /\ committed'[currentVersion'] = after
    <3>1. \A u \in Writer : wpc[u] \notin Draining /\ (u # w => wpc[u] = "idle")
      BY <1>1 DEF Draining
    <3>2. excl \in SUBSET Object /\ after \in SUBSET Object
      BY <1>1
    <3>3. writeMutex' = w /\ UNCHANGED <<contents, writeLocked, readerVars>>
      BY <1>1
    <3> DEFINE lazy == {currentVersion + 1}
    <3>4. \A p \in Place : currentVersion + 1 \notin torn' =>
              /\ contents[p] \ excl = after \ excl
              /\ lazy # {} => contents[p] \subseteq committed[currentVersion]
      BY <2>3
    <3> HIDE DEF excl, after, rem
    <3> QED BY <2>1, <2>2, <3>1, <3>2, <3>3, <3>4, PublishAny DEF IncrementVersion, Draining
  <2>5. HidingInv!3!(w)'
    BY <1>1, <1>2, <2>4
  <2>6. currentVersion' \notin torn' => ContentsInv!2!2!(w)' /\ OutcomeInv!2!(w)'
    BY <1>1, <1>2, <1>3, <1>5, <2>2, <2>3, <2>4
  <2>7. HidingInv' /\ ContentsInv' /\ OutcomeInv'
    BY <1>1, <1>2, <2>4, <2>5, <2>6, BusyFrame
  <2> QED BY <2>4, <2>7 DEF MutatorInv
<1> QED BY <1>4, <1>5

\* update() publishes a version whose exclusion is a fixed set: the previous version and
\* the new one can both be read.
LEMMA PublishEager ==
    ASSUME MutatorInv, NEW w \in Writer, wpc[w] \notin Draining \cup {"idle"},
           NEW excl \in SUBSET Object, NEW after \in SUBSET Object,
           IncrementVersion(w, excl, FALSE, after),
           NEW pc \in Draining, wpc' = [wpc EXCEPT ![w] = pc],
           torn' \in {torn, torn \cup {currentVersion + 1}},
           \A p \in Place : currentVersion + 1 \notin torn' => contents[p] \ excl = after \ excl,
           UNCHANGED <<contents, writeLocked, writeMutex, objectsToAdd, objectsToRemove,
                       readerVars>>
    PROVE  /\ MutexInv' /\ LockInv' /\ ReadableInv' /\ IterationInv' /\ ReadsBounded'
           /\ \A v \in lazyExclude' : 1 < v /\ v <= currentVersion'
           /\ \A u \in Writer : wpc'[u] = IF u = w THEN pc ELSE "idle"
           /\ \A u \in Writer : objectsToAdd'[u] \cap objectsToRemove'[u] = {}
           /\ objectsToExclude'[currentVersion'] = excl
           /\ committed'[currentVersion'] = after
           /\ currentVersion' \notin lazyExclude'
           /\ writeMutex' = w /\ writeMutex' # NoWriter
<1>1. \A u \in Writer : wpc[u] \notin Draining /\ (u # w => wpc[u] = "idle")
  BY OthersIdle DEF MutatorInv, Draining
<1>2. writeMutex' = w /\ writeMutex' # NoWriter
  BY NullAssumption DEF MutatorInv, MutexInv
<1>3. \A u \in Writer : objectsToAdd'[u] \cap objectsToRemove'[u] = {}
  BY DEF MutatorInv, HidingInv
<1> DEFINE lazy == {}
<1>4. /\ lazy \in SUBSET {currentVersion + 1}
      /\ lazyExclude' = lazyExclude \cup lazy
      /\ \A p \in Place : currentVersion + 1 \notin torn' =>
             /\ contents[p] \ excl = after \ excl
             /\ lazy # {} => contents[p] \subseteq committed[currentVersion]
  BY DEF IncrementVersion
<1>5. /\ currentVersion + 1 \in VersionNumber /\ currentVersion' = currentVersion + 1
      /\ previousVersion' = [previousVersion EXCEPT ![w] = currentVersion]
      /\ objectsToExclude' = [objectsToExclude EXCEPT ![currentVersion + 1] = excl]
      /\ committed' = [committed EXCEPT ![currentVersion + 1] = after]
  BY DEF IncrementVersion
<1>6. /\ MutexInv' /\ LockInv' /\ ReadableInv' /\ IterationInv' /\ ReadsBounded'
      /\ \A v \in lazyExclude' : 1 < v /\ v <= currentVersion'
      /\ \A u \in Writer : wpc'[u] = IF u = w THEN pc ELSE "idle"
      /\ objectsToExclude'[currentVersion'] = excl
      /\ committed'[currentVersion'] = after
      /\ currentVersion' \in lazyExclude' <=> lazy # {}
  <2> HIDE DEF lazy
  <2> QED BY <1>1, <1>2, <1>4, <1>5, PublishAny
<1> QED BY <1>2, <1>3, <1>6

\* The objects to be added are hidden, also those that are there already.
LEMMA MutBeginAdd ==
    ASSUME MutatorInv, TypeOK', NEW w \in Writer, BeginAdd(w)
    PROVE  MutatorInv'
<1> DEFINE excl == objectsToAdd[w]
           after == committed[currentVersion]
<1>1. /\ wpc[w] = "entered" /\ wpc' = [wpc EXCEPT ![w] = "drainAdd"]
      /\ wpc[w] \notin Draining \cup {"idle"} /\ "drainAdd" \in Draining
      /\ excl \in SUBSET Object /\ after \in SUBSET Object
      /\ IncrementVersion(w, excl, FALSE, after)
      /\ torn' \in {torn, torn \cup {currentVersion + 1}}
      /\ UNCHANGED <<contents, writeLocked, writeMutex, objectsToAdd, objectsToRemove,
                     modified, changed, readerVars>>
  BY DEF BeginAdd, InheritTorn, MutatorInv, TypeOK, Draining
<1>2. /\ currentVersion' = currentVersion + 1
      /\ currentVersion' \notin torn' => currentVersion \notin torn
  BY DEF BeginAdd, InheritTorn, IncrementVersion
<1>3. currentVersion \notin torn =>
          (\A p \in Place : contents[p] = after) /\ ~modified[w] /\ ~changed[w]
  BY <1>1 DEF MutatorInv, ContentsInv, OutcomeInv
<1>4. /\ MutexInv' /\ LockInv' /\ ReadableInv' /\ IterationInv' /\ ReadsBounded'
      /\ \A v \in lazyExclude' : 1 < v /\ v <= currentVersion'
      /\ \A u \in Writer : wpc'[u] = IF u = w THEN "drainAdd" ELSE "idle"
      /\ \A u \in Writer : objectsToAdd'[u] \cap objectsToRemove'[u] = {}
      /\ objectsToExclude'[currentVersion'] = excl
      /\ committed'[currentVersion'] = after
      /\ currentVersion' \notin lazyExclude'
      /\ writeMutex' # NoWriter
  <2>1. \A p \in Place : currentVersion + 1 \notin torn' => contents[p] \ excl = after \ excl
    BY <1>2, <1>3
  <2> HIDE DEF excl, after
  <2> QED BY <1>1, <2>1, PublishEager
<1>5. HidingInv!3!(w)'
  BY <1>1, <1>4
<1>6. currentVersion' \notin torn' => ContentsInv!2!2!(w)' /\ OutcomeInv!2!(w)'
  BY <1>1, <1>2, <1>3, <1>4
<1>7. HidingInv' /\ ContentsInv' /\ OutcomeInv'
  BY <1>4, <1>5, <1>6, BusyFrame
<1> QED BY <1>4, <1>7 DEF MutatorInv

\* The additions are complete in every place and the removals have not begun: the
\* version that shows the ones and hides the others is the whole transaction.
LEMMA MutBeginRemove ==
    ASSUME MutatorInv, TypeOK', NEW w \in Writer, BeginRemove(w)
    PROVE  MutatorInv'
<1> DEFINE C == committed[currentVersion]
           add == objectsToAdd[w]
           excl == objectsToRemove[w]
           after == (C \ excl) \cup add
<1>1. /\ wpc[w] \in {"entered", "adding"} /\ wpc' = [wpc EXCEPT ![w] = "drainRemove"]
      /\ wpc[w] \notin Draining \cup {"idle"} /\ "drainRemove" \in Draining
      /\ excl \in SUBSET Object /\ after \in SUBSET Object
      /\ IncrementVersion(w, excl, FALSE, after)
      /\ torn' \in {torn, torn \cup {currentVersion + 1}}
      /\ UNCHANGED <<contents, writeLocked, writeMutex, objectsToAdd, objectsToRemove,
                     modified, readerVars>>
      /\ Store \in Place
  BY DEF BeginRemove, InheritTorn, MutatorInv, TypeOK, Draining, Applied, Place
<1>2. /\ currentVersion' = currentVersion + 1
      /\ currentVersion' \notin torn' => currentVersion \notin torn
  BY DEF BeginRemove, InheritTorn, IncrementVersion
<1>3. add \cap excl = {}
  BY DEF MutatorInv, HidingInv
<1>4. ASSUME currentVersion \notin torn
      PROVE  /\ \A p \in Place : contents[p] = C \cup add
             /\ modified[w] <=> ~(add \subseteq C)
  <2>1. CASE wpc[w] = "entered"
    BY <1>4, <2>1 DEF BeginRemove, MutatorInv, ContentsInv, OutcomeInv
  <2>2. CASE wpc[w] = "adding"
    <3>1. \A p \in Place : todo[w][p] = {}
      BY <2>2 DEF BeginRemove, NothingTodo
    <3>2. /\ \A p \in Place : contents[p] = C \cup (add \ todo[w][p])
          /\ modified[w] <=> ~(add \ todo[w][Store] \subseteq C)
      BY <1>4, <2>2 DEF MutatorInv, ContentsInv, OutcomeInv
    <3> QED BY <1>1, <3>1, <3>2
  <2> QED BY <1>1, <2>1, <2>2
<1>5. /\ MutexInv' /\ LockInv' /\ ReadableInv' /\ IterationInv' /\ ReadsBounded'
      /\ \A v \in lazyExclude' : 1 < v /\ v <= currentVersion'
      /\ \A u \in Writer : wpc'[u] = IF u = w THEN "drainRemove" ELSE "idle"
      /\ \A u \in Writer : objectsToAdd'[u] \cap objectsToRemove'[u] = {}
      /\ objectsToExclude'[currentVersion'] = excl
      /\ committed'[currentVersion'] = after
      /\ currentVersion' \notin lazyExclude'
      /\ writeMutex' # NoWriter
  <2>1. \A p \in Place : currentVersion + 1 \notin torn' => contents[p] \ excl = after \ excl
    BY <1>2, <1>4
  <2> HIDE DEF excl, after
  <2> QED BY <1>1, <2>1, PublishEager
<1>6. changed'[w] <=> after # C
  <2>1. /\ changed' = [changed EXCEPT ![w] = committed'[currentVersion'] # committed[currentVersion]]
        /\ changed \in [Writer -> BOOLEAN]
    BY DEF BeginRemove, MutatorInv, TypeOK
  <2>2. changed'[w] = (committed'[currentVersion'] # C)
    BY <2>1
  <2> QED BY <1>5, <2>2
<1>7. HidingInv!3!(w)'
  BY <1>3, <1>1, <1>5
<1>8. ASSUME currentVersion' \notin torn'
      PROVE  ContentsInv!2!2!(w)' /\ OutcomeInv!2!(w)'
  <2>1. (\A p \in Place : contents[p] = C \cup add) /\ (modified[w] <=> ~(add \subseteq C))
    BY <1>2, <1>4, <1>8
  <2>2. \A p \in Place : contents[p] \ excl = after
    BY <1>3, <2>1
  <2>3. add \subseteq after /\ excl \cap after = {}
    BY <1>3
  <2>4. changed'[w] <=> modified[w] \/ excl \cap contents[Store] # {}
    BY <1>1, <1>3, <1>6, <2>1
  <2> HIDE DEF after
  <2> QED BY <1>1, <1>5, <2>2, <2>3, <2>4
<1>9. HidingInv' /\ ContentsInv' /\ OutcomeInv'
  BY <1>5, <1>7, <1>8, BusyFrame
<1> QED BY <1>5, <1>9 DEF MutatorInv

\* All changes are complete in every place: the version that hides nothing is the
\* whole transaction.
LEMMA MutBeginEmpty ==
    ASSUME MutatorInv, TypeOK', NEW w \in Writer, BeginEmpty(w)
    PROVE  MutatorInv'
<1> DEFINE C == committed[currentVersion]
           add == objectsToAdd[w]
           rem == objectsToRemove[w]
           after == (C \ rem) \cup add
<1>1. /\ wpc[w] \in {"removing", "adding"} /\ wpc' = [wpc EXCEPT ![w] = "drainEmpty"]
      /\ wpc[w] \notin Draining \cup {"idle"} /\ "drainEmpty" \in Draining
      /\ {} \in SUBSET Object /\ after \in SUBSET Object
      /\ IncrementVersion(w, {}, FALSE, after)
      /\ torn' \in {torn, torn \cup {currentVersion + 1}}
      /\ UNCHANGED <<contents, writeLocked, writeMutex, objectsToAdd, objectsToRemove,
                     modified, readerVars>>
      /\ Store \in Place
      /\ \A p \in Place : todo[w][p] = {}
  BY DEF BeginEmpty, NothingTodo, InheritTorn, MutatorInv, TypeOK, Draining, Applied, Place
<1>2. /\ currentVersion' = currentVersion + 1
      /\ currentVersion' \notin torn' => currentVersion \notin torn
  BY DEF BeginEmpty, InheritTorn, IncrementVersion
<1>3. ASSUME currentVersion \notin torn
      PROVE  /\ \A p \in Place : contents[p] = after
             /\ modified[w] <=> changed[w] \/ after # C
  <2>1. CASE wpc[w] = "removing"
    <3>1. /\ \A p \in Place : contents[p] \ todo[w][p] = C
          /\ add \subseteq C /\ rem \cap C = {}
          /\ changed[w] <=> modified[w] \/ rem \cap contents[Store] # {}
      BY <1>3, <2>1 DEF MutatorInv, ContentsInv, OutcomeInv
    <3>2. (\A p \in Place : contents[p] = C) /\ after = C
      BY <1>1, <3>1
    <3> QED BY <1>1, <3>1, <3>2
  <2>2. CASE wpc[w] = "adding"
    <3>1. /\ \A p \in Place : contents[p] = C \cup (add \ todo[w][p])
          /\ ~changed[w]
          /\ modified[w] <=> ~(add \ todo[w][Store] \subseteq C)
          /\ rem = {}
      BY <1>3, <2>2 DEF BeginEmpty, MutatorInv, ContentsInv, OutcomeInv
    <3> QED BY <1>1, <3>1
  <2> QED BY <1>1, <2>1, <2>2
<1>4. /\ MutexInv' /\ LockInv' /\ ReadableInv' /\ IterationInv' /\ ReadsBounded'
      /\ \A v \in lazyExclude' : 1 < v /\ v <= currentVersion'
      /\ \A u \in Writer : wpc'[u] = IF u = w THEN "drainEmpty" ELSE "idle"
      /\ \A u \in Writer : objectsToAdd'[u] \cap objectsToRemove'[u] = {}
      /\ objectsToExclude'[currentVersion'] = {}
      /\ committed'[currentVersion'] = after
      /\ currentVersion' \notin lazyExclude'
      /\ writeMutex' # NoWriter
  <2> DEFINE excl == {}
  <2>1. /\ \A p \in Place : currentVersion + 1 \notin torn' => contents[p] \ excl = after \ excl
        /\ excl \in SUBSET Object /\ IncrementVersion(w, excl, FALSE, after)
    BY <1>1, <1>2, <1>3
  <2>2. excl = {}
    OBVIOUS
  <2>3. /\ wpc[w] \notin Draining \cup {"idle"} /\ "drainEmpty" \in Draining
        /\ wpc' = [wpc EXCEPT ![w] = "drainEmpty"]
        /\ after \in SUBSET Object
        /\ torn' \in {torn, torn \cup {currentVersion + 1}}
        /\ UNCHANGED <<contents, writeLocked, writeMutex, objectsToAdd, objectsToRemove,
                       readerVars>>
    BY <1>1
  <2> HIDE DEF excl, after
  <2>4. /\ MutexInv' /\ LockInv' /\ ReadableInv' /\ IterationInv' /\ ReadsBounded'
        /\ \A v \in lazyExclude' : 1 < v /\ v <= currentVersion'
        /\ \A u \in Writer : wpc'[u] = IF u = w THEN "drainEmpty" ELSE "idle"
        /\ \A u \in Writer : objectsToAdd'[u] \cap objectsToRemove'[u] = {}
        /\ objectsToExclude'[currentVersion'] = excl
        /\ committed'[currentVersion'] = after
        /\ currentVersion' \notin lazyExclude'
        /\ writeMutex' # NoWriter
    BY <2>1, <2>3, PublishEager
  <2> QED BY <2>2, <2>4
<1>5. changed'[w] <=> changed[w] \/ after # C
  <2>1. /\ changed' = [changed EXCEPT
                         ![w] = @ \/ committed'[currentVersion'] # committed[currentVersion]]
        /\ changed \in [Writer -> BOOLEAN]
    BY DEF BeginEmpty, MutatorInv, TypeOK
  <2>2. changed'[w] = (changed[w] \/ committed'[currentVersion'] # C)
    BY <2>1
  <2> QED BY <1>4, <2>2
<1>6. HidingInv!3!(w)'
  BY <1>4
<1>7. ASSUME currentVersion' \notin torn'
      PROVE  ContentsInv!2!2!(w)' /\ OutcomeInv!2!(w)'
  <2> HIDE DEF after
  <2> QED BY <1>1, <1>2, <1>3, <1>4, <1>5, <1>7
<1>8. HidingInv' /\ ContentsInv' /\ OutcomeInv'
  BY <1>4, <1>6, <1>7, BusyFrame
<1> QED BY <1>4, <1>8 DEF MutatorInv

\* After a failure nothing stays hidden; what the version stands for is not known.
LEMMA MutRestore ==
    ASSUME MutatorInv, TypeOK', NEW w \in Writer, RestoreEmptyVersionAfterFailure(w)
    PROVE  MutatorInv'
<1> DEFINE excl == {}
           after == committed[currentVersion]
<1>1. /\ wpc[w] = "failed" /\ wpc' = [wpc EXCEPT ![w] = "drainRestore"]
      /\ wpc[w] \notin Draining \cup {"idle"} /\ "drainRestore" \in Draining
      /\ excl \in SUBSET Object /\ after \in SUBSET Object
      /\ IncrementVersion(w, excl, FALSE, after)
      /\ torn' = torn \cup {currentVersion + 1}
      /\ UNCHANGED <<contents, writeLocked, writeMutex, objectsToAdd, objectsToRemove,
                     readerVars>>
  BY DEF RestoreEmptyVersionAfterFailure, MutatorInv, TypeOK, Draining
<1>2. currentVersion' \in torn' /\ excl = {}
  BY <1>1 DEF IncrementVersion
<1>3. /\ MutexInv' /\ LockInv' /\ ReadableInv' /\ IterationInv' /\ ReadsBounded'
      /\ \A v \in lazyExclude' : 1 < v /\ v <= currentVersion'
      /\ \A u \in Writer : wpc'[u] = IF u = w THEN "drainRestore" ELSE "idle"
      /\ \A u \in Writer : objectsToAdd'[u] \cap objectsToRemove'[u] = {}
      /\ objectsToExclude'[currentVersion'] = excl
      /\ writeMutex' # NoWriter
  <2> HIDE DEF excl, after
  <2> QED BY <1>1, PublishEager
<1>4. HidingInv!3!(w)'
  BY <1>2, <1>3
<1>5. HidingInv' /\ ContentsInv' /\ OutcomeInv'
  BY <1>2, <1>3, <1>4, BusyFrame
<1> QED BY <1>3, <1>5 DEF MutatorInv

\* A step of a mutator that publishes nothing and changes nothing.
LEMMA MutPlain ==
    ASSUME MutatorInv, TypeOK', NEW w \in Writer,
           UpdateReturnsEarly(w) \/ Fail(w) \/ Return(w)
    PROVE  MutatorInv'
<1>1. /\ wpc[w] # "idle" /\ wpc \in [Writer -> WriterPC]
      /\ \A u \in Writer : u # w => wpc[u] = "idle" /\ wpc'[u] = "idle"
      /\ writeMutex = w /\ w # NoWriter
      /\ UNCHANGED <<contents, versionVars, writeLocked, todo, readerVars>>
  BY OthersIdle, NullAssumption
  DEF MutatorInv, TypeOK, MutexInv, UpdateReturnsEarly, Fail, Return
<1>2. /\ \A v \in lazyExclude' : 1 < v /\ v <= currentVersion'
      /\ \A u \in Writer : objectsToAdd[u] \cap objectsToRemove[u] = {}
  BY <1>1 DEF MutatorInv, HidingInv
<1>3. ReadableInv' /\ IterationInv' /\ ReadsBounded'
  BY <1>1, VersionsKeep DEF MutatorInv, IterationInv
<1>4. CASE UpdateReturnsEarly(w)
  <2>1. /\ wpc[w] = "entered" /\ wpc'[w] = "returning"
        /\ UNCHANGED <<writeMutex, objectsToAdd, objectsToRemove, modified, changed>>
    BY <1>1, <1>4 DEF UpdateReturnsEarly
  <2>2. MutexInv' /\ LockInv'
    BY <1>1, <2>1 DEF MutatorInv, MutexInv, LockInv, Draining
  <2>3. HidingInv!3!(w)'
    BY <1>1, <1>2, <2>1 DEF MutatorInv, HidingInv
  <2>4. currentVersion' \notin torn' => ContentsInv!2!2!(w)' /\ OutcomeInv!2!(w)'
    BY <1>1, <2>1 DEF MutatorInv, ContentsInv, OutcomeInv
  <2>5. HidingInv' /\ ContentsInv' /\ OutcomeInv'
    BY <1>1, <1>2, <2>1, <2>3, <2>4, BusyFrame
  <2> QED BY <1>3, <2>2, <2>5 DEF MutatorInv
<1>5. CASE Fail(w)
  <2>1. /\ wpc[w] \in {"adding", "removing"} /\ wpc'[w] = "failed"
        /\ UNCHANGED <<writeMutex, objectsToAdd, objectsToRemove, modified, changed>>
    BY <1>1, <1>5 DEF Fail
  <2>2. MutexInv' /\ LockInv'
    BY <1>1, <2>1 DEF MutatorInv, MutexInv, LockInv, Draining
  <2>3. HidingInv!3!(w)'
    BY <1>1, <1>2, <2>1 DEF MutatorInv, HidingInv
  <2>4. currentVersion' \notin torn' => ContentsInv!2!2!(w)' /\ OutcomeInv!2!(w)'
    BY <1>1, <2>1 DEF MutatorInv, ContentsInv, OutcomeInv
  <2>5. HidingInv' /\ ContentsInv' /\ OutcomeInv'
    BY <1>1, <1>2, <2>1, <2>3, <2>4, BusyFrame
  <2> QED BY <1>3, <2>2, <2>5 DEF MutatorInv
<1>6. CASE Return(w)
  <2>1. /\ wpc[w] \in {"returning", "throwing"} /\ \A u \in Writer : wpc'[u] = "idle"
        /\ writeMutex' = NoWriter
        /\ \A u \in Writer : objectsToAdd'[u] \cap objectsToRemove'[u] = {}
    BY <1>1, <1>2, <1>6 DEF Return, MutatorInv, TypeOK
  <2>2. MutexInv' /\ LockInv'
    BY <1>1, <2>1, NullAssumption DEF MutatorInv, MutexInv, LockInv, Draining
  <2>3. HidingInv'
    BY <1>1, <1>2, <2>1 DEF MutatorInv, HidingInv
  <2>4. ContentsInv' /\ OutcomeInv'
    BY <1>1, <2>1 DEF MutatorInv, ContentsInv, OutcomeInv
  <2> QED BY <1>3, <2>2, <2>3, <2>4 DEF MutatorInv
<1> QED BY <1>4, <1>5, <1>6

\* The writer gets the write lock: only the current version can be read from now on,
\* and the whole batch is still to be done in every place.
LEMMA MutDrain ==
    ASSUME MutatorInv, TypeOK', NEW w \in Writer, Drain(w)
    PROVE  MutatorInv'
<1>1. /\ wpc[w] \in Draining
      /\ \A u \in Writer : u # w => wpc[u] = "idle" /\ wpc'[u] = "idle"
      /\ wpc'[w] \in {"adding", "removing", "returning", "throwing"}
      /\ wpc'[w] = "adding" => wpc[w] = "drainAdd"
      /\ wpc'[w] = "removing" => wpc[w] = "drainRemove"
      /\ wpc'[w] = "returning" => wpc[w] = "drainEmpty"
      /\ wpc'[w] = "throwing" => wpc[w] = "drainRestore"
  BY OthersIdle DEF Drain, Proceed, Draining, MutatorInv, TypeOK
<1>2. /\ UNCHANGED <<contents, versionVars, writeMutex, objectsToAdd, objectsToRemove,
                     previousVersion, changed, modified, readerVars>>
      /\ writeLocked' = writeLocked \cup {previousVersion[w]}
  BY DEF Drain, Proceed
<1>3. /\ wpc'[w] = "adding" => \A p \in Place : todo'[w][p] = objectsToAdd[w]
      /\ wpc'[w] = "removing" => \A p \in Place : todo'[w][p] = objectsToRemove[w]
  BY <1>1 DEF Drain, Proceed, MutatorInv, TypeOK
<1>4. MutexInv' /\ writeMutex' # NoWriter
  BY <1>1, <1>2, NullAssumption DEF Draining, MutatorInv, MutexInv
<1>5. LockInv'
  <2>1. /\ currentVersion \in Nat /\ previousVersion[w] \in Nat
        /\ previousVersion[w] + 1 = currentVersion
    BY <1>1, BoundAssumption DEF MutatorInv, LockInv, TypeOK, VersionNumber
  <2>2. \A v \in writeLocked' : v < currentVersion'
    BY <1>2, <2>1 DEF MutatorInv, LockInv
  <2>3. \A u \in Writer : wpc'[u] \notin Draining
    BY <1>1 DEF Draining
  <2>4. ASSUME NEW v \in 1 .. currentVersion', v \notin writeLocked'
        PROVE  v = currentVersion'
    BY <2>4, <1>1, <1>2 DEF Draining, MutatorInv, LockInv
  <2> QED BY <2>2, <2>3, <2>4 DEF LockInv
<1>6. ReadableInv' /\ IterationInv' /\ ReadsBounded'
  <2>1. \A r \in Reader : rpc[r] \in Reading => thisVersion[r] \notin writeLocked'
    BY DEF Drain, Proceed, HoldsReadLock, Reading, MutatorInv, IterationInv
  <2> QED BY <1>2, <2>1, VersionsKeep
<1>7. HidingInv!3!(w)'
  BY <1>1, <1>2, <1>3 DEF MutatorInv, HidingInv
<1>8. ASSUME currentVersion' \notin torn'
      PROVE  ContentsInv!2!2!(w)' /\ OutcomeInv!2!(w)'
  <2>1. Store \in Place /\ currentVersion \notin torn
    BY <1>2, <1>8 DEF Place
  <2>2. CASE wpc'[w] = "adding"
    <3>1. /\ \A p \in Place : contents[p] = committed[currentVersion]
          /\ ~modified[w] /\ ~changed[w]
      BY <1>1, <2>1, <2>2 DEF MutatorInv, ContentsInv, OutcomeInv
    <3>2. \A p \in Place : objectsToAdd[w] \ todo'[w][p] = {}
      BY <1>3, <2>2
    <3> QED BY <1>2, <2>1, <2>2, <3>1, <3>2
  <2>3. CASE wpc'[w] = "removing"
    <3>1. /\ \A p \in Place : contents[p] \ objectsToRemove[w] = committed[currentVersion]
          /\ objectsToAdd[w] \subseteq committed[currentVersion]
          /\ objectsToRemove[w] \cap committed[currentVersion] = {}
          /\ changed[w] <=> modified[w] \/ objectsToRemove[w] \cap contents[Store] # {}
      BY <1>1, <2>1, <2>3 DEF MutatorInv, ContentsInv, OutcomeInv
    <3> QED BY <1>2, <1>3, <2>3, <3>1
  <2>4. CASE wpc'[w] \in {"returning", "throwing"}
    BY <1>1, <1>2, <2>1, <2>4 DEF MutatorInv, ContentsInv, OutcomeInv
  <2> QED BY <1>1, <2>2, <2>3, <2>4
<1>9. HidingInv' /\ ContentsInv' /\ OutcomeInv'
  <2>1. /\ \A u \in Writer : objectsToAdd'[u] \cap objectsToRemove'[u] = {}
        /\ \A v \in lazyExclude' : 1 < v /\ v <= currentVersion'
    BY <1>2 DEF MutatorInv, HidingInv
  <2> QED BY <1>1, <1>4, <1>7, <1>8, <2>1, BusyFrame
<1> QED BY <1>4, <1>5, <1>6, <1>9 DEF MutatorInv

\* One object is added or removed in one place: only the current version can be read,
\* and it excludes the object.
LEMMA ChangeHidden ==
    ASSUME MutatorInv, NEW w \in Writer, NEW p \in Place, NEW o \in Object,
           ChangeOne(w, p, o)
    PROVE  /\ o \in objectsToExclude[currentVersion]
           /\ \A v \in 1 .. currentVersion : v \notin writeLocked => v = currentVersion
           /\ \A q \in Place :
                  contents'[q] \ objectsToExclude[currentVersion]
                    = contents[q] \ objectsToExclude[currentVersion]
<1>1. /\ wpc[w] \in {"adding", "removing"} /\ o \in todo[w][p]
      /\ \A u \in Writer : u # w => wpc[u] = "idle"
  BY OthersIdle DEF ChangeOne, MayChange, MutatorInv
<1>2. o \in objectsToExclude[currentVersion]
  BY <1>1 DEF MutatorInv, HidingInv
<1>3. \A v \in 1 .. currentVersion : v \notin writeLocked => v = currentVersion
  BY <1>1 DEF MutatorInv, LockInv, Draining
<1>4. /\ contents'[p] = IF wpc[w] = "adding" THEN contents[p] \cup {o} ELSE contents[p] \ {o}
      /\ \A q \in Place : q # p => contents'[q] = contents[q]
  BY DEF ChangeOne, MutatorInv, TypeOK
<1> QED BY <1>2, <1>3, <1>4

\* doAddAll and doRemoveAll, one object in one place at a time.
LEMMA MutChangeOne ==
    ASSUME MutatorInv, TypeOK', NEW w \in Writer, NEW p \in Place, NEW o \in Object,
           ChangeOne(w, p, o)
    PROVE  MutatorInv'
<1>1. /\ wpc[w] \in {"adding", "removing"} /\ wpc' = wpc
      /\ o \in todo[w][p] /\ Store \in Place
      /\ \A u \in Writer : u # w => wpc[u] = "idle"
      /\ writeMutex # NoWriter
      /\ UNCHANGED <<versionVars, writeLocked, writeMutex, objectsToAdd, objectsToRemove,
                     previousVersion, changed, readerVars>>
  BY OthersIdle, NullAssumption DEF ChangeOne, MayChange, MutatorInv, MutexInv, Place
<1>2. /\ contents'[p] = IF wpc[w] = "adding" THEN contents[p] \cup {o} ELSE contents[p] \ {o}
      /\ todo'[w][p] = todo[w][p] \ {o}
      /\ \A q \in Place : q # p => contents'[q] = contents[q] /\ todo'[w][q] = todo[w][q]
  BY DEF ChangeOne, MutatorInv, TypeOK
<1>3. modified'[w] <=> modified[w] \/ (p = Store /\ contents'[p] # contents[p])
  BY DEF ChangeOne, MutatorInv, TypeOK
<1>4. MutexInv' /\ LockInv'
  BY <1>1 DEF MutatorInv, MutexInv, LockInv
<1>5. ReadableInv' /\ IterationInv' /\ ReadsBounded'
  <2>1. \A r \in Reader : rpc[r] \in Reading => thisVersion[r] \notin writeLocked'
    BY <1>1 DEF MutatorInv, IterationInv
  <2>2. currentVersion \in lazyExclude => \A q \in Place : contents'[q] \subseteq contents[q]
    <3>1. currentVersion \in lazyExclude => wpc[w] = "removing"
      BY <1>1 DEF MutatorInv, HidingInv
    <3> QED BY <1>2, <3>1
  <2> QED BY <1>1, <2>1, <2>2, ChangeHidden, VersionsKeep
<1>6. /\ wpc[w] = "adding" => \A q \in Place : todo[w][q] \subseteq objectsToAdd[w]
      /\ wpc[w] = "removing" => \A q \in Place : todo[w][q] \subseteq objectsToRemove[w]
  BY DEF MutatorInv, HidingInv
<1>7. HidingInv!3!(w)'
  <2>1. \A q \in Place : todo'[w][q] \subseteq todo[w][q]
    BY <1>2
  <2> QED BY <1>1, <1>6, <2>1 DEF MutatorInv, HidingInv
<1>8. ASSUME currentVersion' \notin torn'
      PROVE  ContentsInv!2!2!(w)' /\ OutcomeInv!2!(w)'
  <2> DEFINE C == committed[currentVersion]
             add == objectsToAdd[w]
             rem == objectsToRemove[w]
  <2>1. currentVersion \notin torn
    BY <1>1, <1>8
  <2>2. CASE wpc[w] = "adding"
    <3>1. /\ \A q \in Place : contents[q] = C \cup (add \ todo[w][q])
          /\ ~changed[w] /\ (modified[w] <=> ~(add \ todo[w][Store] \subseteq C))
      BY <2>1, <2>2 DEF MutatorInv, ContentsInv, OutcomeInv
    <3>2. o \in add
      BY <1>1, <1>6, <2>2
    <3>3. ASSUME NEW q \in Place
          PROVE  contents'[q] = C \cup (add \ todo'[w][q])
      <4>1. CASE q = p
        BY <1>1, <1>2, <2>2, <3>1, <3>2, <4>1
      <4>2. CASE q # p
        BY <1>2, <3>1, <4>2
      <4> QED BY <4>1, <4>2
    <3>4. modified'[w] <=> ~(add \ todo'[w][Store] \subseteq C)
      <4>1. CASE p = Store
        <5>1. contents'[Store] # contents[Store] <=> o \notin C
          <6>1. contents[Store] = C \cup (add \ todo[w][Store])
            BY <1>1, <3>1
          <6>2. o \in todo[w][Store] /\ contents'[Store] = contents[Store] \cup {o}
            BY <1>1, <1>2, <2>2, <4>1
          <6> QED BY <6>1, <6>2
        <5>2. add \ todo'[w][Store] = (add \ todo[w][Store]) \cup {o}
          BY <1>1, <1>2, <3>2, <4>1
        <5> QED BY <1>3, <3>1, <4>1, <5>1, <5>2
      <4>2. CASE p # Store
        BY <1>1, <1>2, <1>3, <3>1, <4>2
      <4> QED BY <4>1, <4>2
    <3> QED BY <1>1, <2>2, <3>1, <3>3, <3>4
  <2>3. CASE wpc[w] = "removing"
    <3>1. /\ \A q \in Place : contents[q] \ todo[w][q] = C
          /\ add \subseteq C /\ rem \cap C = {}
          /\ changed[w] <=> modified[w] \/ rem \cap contents[Store] # {}
      BY <2>1, <2>3 DEF MutatorInv, ContentsInv, OutcomeInv
    <3>2. o \in rem
      BY <1>1, <1>6, <2>3
    <3>3. ASSUME NEW q \in Place
          PROVE  contents'[q] \ todo'[w][q] = C
      <4>1. CASE q = p
        BY <1>1, <1>2, <2>3, <3>1, <3>2, <4>1
      <4>2. CASE q # p
        BY <1>2, <3>1, <4>2
      <4> QED BY <4>1, <4>2
    <3>4. changed[w] <=> modified'[w] \/ rem \cap contents'[Store] # {}
      <4>1. CASE p = Store
        <5>1. contents'[Store] = contents[Store] \ {o}
          BY <1>2, <2>3, <4>1
        <5> QED BY <1>3, <3>1, <3>2, <4>1, <5>1
      <4>2. CASE p # Store
        BY <1>1, <1>2, <1>3, <3>1, <4>2
      <4> QED BY <4>1, <4>2
    <3> QED BY <1>1, <2>3, <3>1, <3>3, <3>4
  <2> QED BY <1>1, <2>2, <2>3
<1>9. HidingInv' /\ ContentsInv' /\ OutcomeInv'
  <2>1. /\ \A u \in Writer : objectsToAdd'[u] \cap objectsToRemove'[u] = {}
        /\ \A v \in lazyExclude' : 1 < v /\ v <= currentVersion'
    BY <1>1 DEF MutatorInv, HidingInv
  <2>2. \A u \in Writer : u # w => wpc'[u] = "idle"
    BY <1>1
  <2>3. writeMutex' # NoWriter
    BY <1>1
  <2> QED BY <1>7, <1>8, <2>1, <2>2, <2>3, BusyFrame
<1> QED BY <1>4, <1>5, <1>9 DEF MutatorInv

-----------------------------------------------------------------------------
(* Readers                                                                 *)

\* A reader's step can only disturb what is said about that reader.
LEMMA MutReaderFrame ==
    ASSUME MutatorInv, TypeOK', NEW r \in Reader,
           UNCHANGED <<collectionVars, versionVars, writeLocked, writeMutex, writerVars>>,
           \A q \in Reader : q # r =>
               /\ rpc'[q] = rpc[q] /\ thisVersion'[q] = thisVersion[q]
               /\ filtering'[q] = filtering[q] /\ unvisited'[q] = unvisited[q]
               /\ fetched'[q] = fetched[q] /\ result'[q] = result[q],
           IterationInv!(r)', ReadsBounded!(r)'
    PROVE  MutatorInv'
<1>1. MutexInv' /\ LockInv' /\ HidingInv' /\ ContentsInv' /\ ReadableInv' /\ OutcomeInv'
  BY DEF MutatorInv, MutexInv, LockInv, HidingInv, ContentsInv, ReadableInv, OutcomeInv
<1>2. \A q \in Reader : q # r => Possible(thisVersion[q])' = Possible(thisVersion[q])
  BY DEF Possible
<1>3. IterationInv'
  BY <1>2 DEF MutatorInv, IterationInv
<1>4. ReadsBounded'
  BY <1>2 DEF MutatorInv, ReadsBounded
<1> QED BY <1>1, <1>3, <1>4 DEF MutatorInv

\* What a reader finds in any place while it holds the read lock of a sound version.
LEMMA LockedBounded ==
    ASSUME MutatorInv, NEW r \in Reader, rpc[r] \in Reading, thisVersion[r] \notin torn,
           NEW p \in Place
    PROVE  LET v == thisVersion[r] IN
           /\ contents[p] \ objectsToExclude[v] = committed[v] \ objectsToExclude[v]
           /\ v \in lazyExclude => contents[p] \subseteq committed[v - 1]
<1>1. thisVersion[r] \in 1 .. currentVersion /\ thisVersion[r] \notin writeLocked
  BY BoundAssumption DEF MutatorInv, TypeOK, VersionNumber, IterationInv
<1> QED BY <1>1 DEF MutatorInv, ReadableInv

\* Reading currentVersion, and tryLock.
LEMMA MutLock ==
    ASSUME MutatorInv, TypeOK', NEW r \in Reader, ReadCurrentVersion(r) \/ TryReadLock(r)
    PROVE  MutatorInv'
<1>1. /\ UNCHANGED <<collectionVars, versionVars, writeLocked, writeMutex, writerVars,
                     place, filtering, unvisited, fetched, result>>
      /\ \A q \in Reader : q # r => rpc'[q] = rpc[q] /\ thisVersion'[q] = thisVersion[q]
      /\ rpc[r] \in {"idle", "tryLock"}
      /\ \/ rpc'[r] = "tryLock" /\ thisVersion'[r] = currentVersion
         \/ /\ rpc'[r] = "locked" /\ thisVersion'[r] = thisVersion[r]
            /\ thisVersion[r] \notin writeLocked
      /\ currentVersion <= currentVersion
  <2>1. CASE ReadCurrentVersion(r)
    BY <2>1, CurrentIsNumber DEF ReadCurrentVersion, MutatorInv, TypeOK
  <2>2. CASE TryReadLock(r)
    BY <2>2, CurrentIsNumber DEF TryReadLock, MutatorInv, TypeOK
  <2> QED BY <2>1, <2>2
<1>2. IterationInv!(r)' /\ ReadsBounded!(r)'
  BY <1>1 DEF MutatorInv, IterationInv, Reading
<1> QED BY <1>1, <1>2, MutReaderFrame

\* Whether to filter is decided once.  The exclusion of an update() does not change
\* while it can be read; that of retainAll() may be empty by then.
LEMMA MutRetrieve ==
    ASSUME MutatorInv, TypeOK', NEW r \in Reader, NEW p \in Place, Retrieve(r, p)
    PROVE  MutatorInv'
<1>1. /\ rpc[r] = "locked" /\ rpc'[r] = "iterating" /\ unvisited'[r] = Object
      /\ result[r] = {} /\ fetched[r] = NoObject
  BY DEF Retrieve, MutatorInv, TypeOK, IterationInv
<1>2. thisVersion[r] \notin lazyExclude =>
          (filtering'[r] <=> objectsToExclude[thisVersion[r]] # {})
  <2>1. filtering'[r] = \E o \in Object : Excluded(thisVersion[r], o)
    BY DEF Retrieve, MutatorInv, TypeOK
  <2>2. objectsToExclude[thisVersion[r]] \in SUBSET Object
    BY DEF MutatorInv, TypeOK
  <2> QED BY <2>1, <2>2 DEF Excluded
<1>3. IterationInv!(r)'
  BY <1>1, <1>2, NullAssumption DEF Retrieve, MutatorInv, IterationInv, Reading
<1>4. ReadsBounded!(r)'
  BY <1>1 DEF Retrieve
<1> QED BY <1>3, <1>4, MutReaderFrame DEF Retrieve, MutatorInv, TypeOK

\* An object that is passed over does not belong to the version, or is excluded; one
\* that is fetched belongs to it, or is excluded, or is about to be removed.
LEMMA MutFetch ==
    ASSUME MutatorInv, TypeOK', NEW r \in Reader, NEW o \in Object, Fetch(r, o)
    PROVE  MutatorInv'
<1> DEFINE v == thisVersion[r]
<1>1. /\ rpc[r] = "iterating" /\ o \in unvisited[r] /\ unvisited'[r] = unvisited[r] \ {o}
      /\ result[r] \cap unvisited[r] = {} /\ fetched[r] = NoObject
      /\ rpc[r] \in Reading /\ place[r] \in Place
      /\ UNCHANGED <<collectionVars, versionVars, writeLocked, writeMutex, writerVars,
                     thisVersion, place, filtering, result>>
      /\ \A q \in Reader : q # r =>
             /\ rpc'[q] = rpc[q] /\ unvisited'[q] = unvisited[q] /\ fetched'[q] = fetched[q]
  BY DEF Fetch, MutatorInv, TypeOK, IterationInv, Reading
<1>2. v \notin torn =>
          /\ contents[place[r]] \ objectsToExclude[v] = committed[v] \ objectsToExclude[v]
          /\ v \in lazyExclude => contents[place[r]] \subseteq committed[v - 1]
  BY <1>1, LockedBounded
<1>3. CASE o \in contents[place[r]]
  <2>1. fetched'[r] = o /\ rpc'[r] = "filtering"
    BY <1>3 DEF Fetch, MutatorInv, TypeOK
  <2>2. v \notin torn => o \in Possible(v) \cup (IF v \in lazyExclude THEN {} ELSE objectsToExclude[v])
    BY <1>2, <1>3 DEF Possible
  <2>3. Possible(v)' = Possible(v)
    BY <1>1 DEF Possible
  <2>4. IterationInv!(r)'
    BY <1>1, <1>3, <2>1, <2>2, <2>3, NullAssumption DEF MutatorInv, IterationInv, Reading
  <2>5. ReadsBounded!(r)'
    BY <1>1, <2>1, <2>3, NullAssumption DEF MutatorInv, ReadsBounded
  <2> QED BY <1>1, <2>4, <2>5, MutReaderFrame
<1>4. CASE o \notin contents[place[r]]
  <2>1. rpc' = rpc /\ fetched' = fetched
    BY <1>4 DEF Fetch
  <2>2. Possible(v)' = Possible(v)
    BY <1>1 DEF Possible
  <2>3. IterationInv!(r)'
    BY <1>1, <2>1, <2>2 DEF MutatorInv, IterationInv, Reading
  <2>4. ReadsBounded!(r)'
    BY <1>1, <1>2, <1>4, <2>1, <2>2, NullAssumption DEF MutatorInv, ReadsBounded
  <2> QED BY <1>1, <2>1, <2>3, <2>4, MutReaderFrame
<1> QED BY <1>3, <1>4

\* isValid() drops only excluded objects and lets through only possible ones.
LEMMA MutFilter ==
    ASSUME MutatorInv, TypeOK', NEW r \in Reader, Filter(r)
    PROVE  MutatorInv'
<1> DEFINE v == thisVersion[r]
           o == fetched[r]
<1>1. /\ rpc[r] = "filtering" /\ rpc'[r] = "iterating" /\ rpc[r] \in Reading
      /\ o \in Object /\ fetched'[r] = NoObject /\ o \notin result[r] \cup unvisited[r]
      /\ result[r] \cap unvisited[r] = {}
      /\ UNCHANGED <<collectionVars, versionVars, writeLocked, writeMutex, writerVars,
                     thisVersion, place, filtering, unvisited>>
      /\ \A q \in Reader : q # r =>
             /\ rpc'[q] = rpc[q] /\ result'[q] = result[q] /\ fetched'[q] = fetched[q]
  BY DEF Filter, MutatorInv, TypeOK, IterationInv, Reading
<1>2. result'[r] = IF filtering[r] /\ Excluded(v, o) THEN result[r] ELSE result[r] \cup {o}
  BY DEF Filter, MutatorInv, TypeOK
<1>3. Possible(v)' = Possible(v)
  BY <1>1 DEF Possible
<1>4. ASSUME v \notin torn
      PROVE  /\ o \notin objectsToExclude[v] => o \in result'[r]
             /\ o \in result'[r] => o \in Possible(v)
  <2>1. o \notin objectsToExclude[v] => o \in result'[r]
    BY <1>2 DEF Excluded
  <2>2. o \in Possible(v) \cup (IF v \in lazyExclude THEN {} ELSE objectsToExclude[v])
    BY <1>1, <1>4 DEF MutatorInv, IterationInv
  <2>3. ASSUME v \notin lazyExclude, o \in objectsToExclude[v]
        PROVE  o \notin result'[r]
    <3>1. filtering[r]
      BY <1>1, <2>3 DEF MutatorInv, IterationInv
    <3> QED BY <1>1, <1>2, <2>3, <3>1 DEF Excluded
  <2> QED BY <2>1, <2>2, <2>3
<1>5. IterationInv!(r)'
  <2>1. result'[r] \subseteq result[r] \cup {o}
    BY <1>2
  <2>2. fetched'[r] \notin unvisited'[r] \cup result'[r]
    BY <1>1, <2>1, NullAssumption DEF MutatorInv, TypeOK
  <2> QED BY <1>1, <1>3, <2>1, <2>2 DEF MutatorInv, IterationInv, Reading
<1>6. ReadsBounded!(r)'
  <2> SUFFICES ASSUME v \notin torn, NEW x \in Object \ unvisited[r]
               PROVE  /\ x \in committed[v] \ objectsToExclude[v] => x \in result'[r]
                      /\ x \in result'[r] => x \in Possible(v)
    BY <1>1, <1>3
  <2>1. CASE x = o
    BY <1>4, <2>1
  <2>2. CASE x # o
    <3>1. x \in result'[r] <=> x \in result[r]
      BY <1>2, <2>2
    <3>2. /\ x \in committed[v] \ objectsToExclude[v] => x \in result[r]
          /\ x \in result[r] => x \in Possible(v)
      BY <1>1, <2>2 DEF MutatorInv, ReadsBounded
    <3> QED BY <3>1, <3>2
  <2> QED BY <2>1, <2>2
<1> QED BY <1>1, <1>5, <1>6, MutReaderFrame

\* A closed ResultSet leaves nothing behind.
LEMMA MutClose ==
    ASSUME MutatorInv, TypeOK', NEW r \in Reader, Close(r)
    PROVE  MutatorInv'
<1>1. /\ rpc'[r] = "idle" /\ thisVersion'[r] = 1 /\ result'[r] = {} /\ unvisited'[r] = {}
      /\ fetched'[r] = NoObject /\ 1 <= currentVersion
  BY CurrentIsNumber DEF Close, Forget, MutatorInv, TypeOK
<1>2. UNCHANGED <<collectionVars, versionVars, writeLocked, writeMutex, writerVars>>
  BY DEF Close, Forget
<1>3. IterationInv!(r)' /\ ReadsBounded!(r)'
  BY <1>1, <1>2 DEF Reading
<1>4. \A q \in Reader : q # r =>
             /\ rpc'[q] = rpc[q] /\ thisVersion'[q] = thisVersion[q]
             /\ filtering'[q] = filtering[q] /\ unvisited'[q] = unvisited[q]
             /\ fetched'[q] = fetched[q] /\ result'[q] = result[q]
  BY DEF Close, Forget, MutatorInv, TypeOK
<1> QED BY <1>2, <1>3, <1>4, MutReaderFrame

-----------------------------------------------------------------------------
(* The theorems: no condition on the mutators in use                       *)

\* The invariant holds of an idle collection.
LEMMA MutInit == Init => MutatorInv
<1> SUFFICES ASSUME Init
             PROVE  MutatorInv
  OBVIOUS
<1>1. /\ currentVersion = 1 /\ 1 .. currentVersion = {1} /\ 1 \in VersionNumber
      /\ objectsToExclude[1] = {} /\ lazyExclude = {} /\ writeLocked = {}
  BY BoundAssumption DEF Init, VersionNumber
<1>2. MutexInv /\ LockInv /\ HidingInv /\ OutcomeInv
  BY <1>1, NullAssumption DEF Init, MutexInv, LockInv, HidingInv, OutcomeInv, Draining
<1>3. \A p \in Place : contents[p] = committed[1]
  <2>1. PICK S \in SUBSET Object :
            /\ contents = [p \in Place |-> S]
            /\ committed = [v \in VersionNumber |-> IF v = 1 THEN S ELSE {}]
    BY DEF Init
  <2> QED BY <1>1, <2>1
<1>4. ContentsInv /\ ReadableInv
  BY <1>1, <1>3 DEF Init, ContentsInv, ReadableInv
<1>5. IterationInv /\ ReadsBounded
  BY <1>1 DEF Init, IterationInv, ReadsBounded, Reading
<1> QED BY <1>2, <1>4, <1>5, TypeInit DEF MutatorInv

\* Every step of every mutator and of the readers preserves the invariant.
LEMMA MutNext == MutatorInv /\ [Next]_vars => MutatorInv'
<1> SUFFICES ASSUME MutatorInv, [Next]_vars
             PROVE  MutatorInv'
  OBVIOUS
<1>1. TypeOK'
  BY TypeNext DEF MutatorInv
<1>2. ASSUME NEW w \in Writer, Call(w)
      PROVE  MutatorInv'
  BY <1>1, <1>2, MutUpdate, MutRetainAll, CallCases
<1>3. ASSUME NEW w \in Writer, WriterStep(w) \/ Fail(w)
      PROVE  MutatorInv'
  BY <1>1, <1>3, MutPlain, MutBeginAdd, MutBeginRemove, MutBeginEmpty, MutDrain, MutChangeOne,
     MutRestore DEF WriterStep
<1>4. ASSUME NEW r \in Reader, ReadCurrentVersion(r) \/ ReaderStep(r)
      PROVE  MutatorInv'
  BY <1>1, <1>4, MutLock, MutRetrieve, MutFetch, MutFilter, MutClose DEF ReaderStep
<1>5. CASE UNCHANGED vars
  <2>1. UNCHANGED <<collectionVars, versionVars, writeLocked, writeMutex, writerVars, readerVars>>
    BY <1>5 DEF vars
  <2>2. MutexInv' /\ LockInv' /\ HidingInv' /\ ContentsInv' /\ ReadableInv' /\ OutcomeInv'
    BY <2>1 DEF MutatorInv, MutexInv, LockInv, HidingInv, ContentsInv, ReadableInv, OutcomeInv
  <2>3. IterationInv' /\ ReadsBounded'
    BY <2>1 DEF MutatorInv, IterationInv, ReadsBounded, Possible
  <2> QED BY <1>1, <2>2, <2>3 DEF MutatorInv
<1> QED BY <1>2, <1>3, <1>4, <1>5 DEF Next

\* For any number of threads, objects, indexes and versions, any mix of mutators,
\* and even if mutations fail: the inductive invariant of the collection.
THEOREM MutatorsInductive == Spec => []MutatorInv
BY MutInit, MutNext, PTL DEF Spec

\* A reader misses nothing but what the running transaction is about, and is given
\* nothing that is neither there nor being removed by retainAll().
THEOREM EveryReadBounded == Spec => []ReadsBounded
<1>1. MutatorInv => ReadsBounded
  BY DEF MutatorInv
<1> QED BY <1>1, MutatorsInductive, PTL

\* The version a reader picks is never write-locked: reads are lock-free, whichever
\* mutator is running.
THEOREM ReadsLockFree == Spec => []CurrentVersionUncontended
<1>1. MutatorInv => CurrentVersionUncontended
  BY BoundAssumption
  DEF MutatorInv, LockInv, CurrentVersionUncontended, TypeOK, VersionNumber
<1> QED BY <1>1, MutatorsInductive, PTL

\* Between mutations, none of which has failed, the store and all indexes hold what
\* the transactions have left, also where retainAll()'s lazy set was the argument.
THEOREM QuiescentAgreement == Spec => []QuiescentCollection
<1>1. MutatorInv => QuiescentCollection
  BY DEF MutatorInv, ContentsInv, QuiescentCollection
<1> QED BY <1>1, MutatorsInductive, PTL

\* No mutation, failed or not, leaves objects hidden behind it.
THEOREM ExclusionsEnd == Spec => []NothingHiddenWhenIdle
<1>1. MutatorInv => NothingHiddenWhenIdle
  BY DEF MutatorInv, HidingInv, NothingHiddenWhenIdle
<1> QED BY <1>1, MutatorsInductive, PTL

\* update() and retainAll() return true exactly if they have changed the collection,
\* even though only the store reports changes, one object at a time and in two phases,
\* and although some of the objects to be added may be there already.
THEOREM ReturnValue == Spec => []ReturnValueTruthful
<1>1. MutatorInv => ReturnValueTruthful
  <2> SUFFICES ASSUME MutatorInv, NEW w \in Writer, wpc[w] = "returning",
                      currentVersion \notin torn
               PROVE  modified[w] = changed[w]
    BY DEF ReturnValueTruthful
  <2>1. modified[w] \in BOOLEAN /\ changed[w] \in BOOLEAN
    BY DEF MutatorInv, TypeOK
  <2>2. changed[w] <=> modified[w]
    BY DEF MutatorInv, OutcomeInv
  <2> QED BY <2>1, <2>2
<1> QED BY <1>1, MutatorsInductive, PTL

\* Only doAddAll and doRemoveAll change places, and no step changes the exclusion of a
\* version that has been published.
LEMMA OnlyChangeOneChanges ==
    ASSUME MutatorInv, [Next]_vars
    PROVE  /\ \/ contents' = contents
              \/ \E w \in Writer, p \in Place, o \in Object : ChangeOne(w, p, o)
           /\ \A v \in 1 .. currentVersion :
                  /\ objectsToExclude'[v] = objectsToExclude[v]
                  /\ v \in lazyExclude' <=> v \in lazyExclude
<1> DEFINE Goal == /\ \/ contents' = contents
                      \/ \E w \in Writer, p \in Place, o \in Object : ChangeOne(w, p, o)
                   /\ \A v \in 1 .. currentVersion :
                          /\ objectsToExclude'[v] = objectsToExclude[v]
                          /\ v \in lazyExclude' <=> v \in lazyExclude
<1>1. currentVersion \in Nat /\ objectsToExclude \in [VersionNumber -> SUBSET Object]
  BY CurrentIsNumber DEF MutatorInv, TypeOK
<1>2. ASSUME NEW w \in Writer, NEW excl, NEW isLazy, NEW after,
             IncrementVersion(w, excl, isLazy, after)
      PROVE  \A v \in 1 .. currentVersion :
                 /\ objectsToExclude'[v] = objectsToExclude[v]
                 /\ v \in lazyExclude' <=> v \in lazyExclude
  BY <1>1, <1>2 DEF IncrementVersion, VersionNumber
<1>3. ASSUME NEW w \in Writer, Call(w)
      PROVE  Goal
  <2>1. ASSUME NEW rem \in SUBSET Object, NEW add \in SUBSET Object,
               NEW iterables \in SUBSET {"adding", "removing"}, Update(w, rem, add, iterables)
        PROVE  Goal
    BY <2>1 DEF Update
  <2>2. ASSUME NEW retain \in SUBSET Object, RetainAll(w, retain)
        PROVE  Goal
    BY <1>2, <2>2 DEF RetainAll
  <2> QED BY <1>3, <2>1, <2>2, CallCases
<1>4. ASSUME NEW w \in Writer, WriterStep(w) \/ Fail(w)
      PROVE  Goal
  <2>1. CASE UpdateReturnsEarly(w) \/ Return(w) \/ Fail(w)
    BY <2>1 DEF UpdateReturnsEarly, Return, Fail
  <2>2. CASE BeginAdd(w) \/ BeginRemove(w) \/ BeginEmpty(w) \/ RestoreEmptyVersionAfterFailure(w)
    BY <1>2, <2>2 DEF BeginAdd, BeginRemove, BeginEmpty, RestoreEmptyVersionAfterFailure
  <2>3. CASE Drain(w)
    BY <2>3 DEF Drain, Proceed
  <2>4. ASSUME NEW p \in Place, NEW o \in Object, ChangeOne(w, p, o)
        PROVE  Goal
    <3>1. UNCHANGED <<objectsToExclude, lazyExclude>>
      BY <2>4 DEF ChangeOne
    <3> QED BY <2>4, <3>1
  <2> QED BY <1>4, <2>1, <2>2, <2>3, <2>4 DEF WriterStep
<1>5. ASSUME NEW r \in Reader, ReadCurrentVersion(r) \/ ReaderStep(r)
      PROVE  Goal
  BY <1>5 DEF ReadCurrentVersion, ReaderStep, TryReadLock, Retrieve, Fetch, Filter, Close, Forget
<1>6. CASE UNCHANGED vars
  BY <1>6 DEF vars
<1> QED BY <1>3, <1>4, <1>5, <1>6 DEF Next

\* While a reader holds the read lock of a version, no step changes what the version
\* shows of any place, but for what retainAll() has removed from the store and not yet
\* from an index: the wait of incrementVersion covers every mutator.
THEOREM LockedViewsStable == Spec => ViewsStable
<1> DEFINE Gone(v, p) == IF v \in lazyExclude /\ p # Store
                         THEN objectsToExclude[v] \ contents'[Store] ELSE {}
           Stable ==
             \A r \in Reader, v \in VersionNumber, p \in Place :
                 HoldsReadLock(r, v) =>
                     Shown(v, p)' \ Gone(v, p) = Shown(v, p) \ Gone(v, p)
<1>1. MutatorInv /\ [Next]_vars => [Stable]_vars
  <2> SUFFICES ASSUME MutatorInv, [Next]_vars,
                      NEW r \in Reader, NEW v \in VersionNumber, NEW p \in Place,
                      HoldsReadLock(r, v)
               PROVE  Shown(v, p)' \ Gone(v, p) = Shown(v, p) \ Gone(v, p)
    OBVIOUS
  <2> DEFINE Hidden(x) == x \in objectsToExclude[v] /\ (v \in lazyExclude => x \in contents[Store])
             HiddenNext(x) ==
                 x \in objectsToExclude[v] /\ (v \in lazyExclude => x \in contents'[Store])
  <2>1. v \in 1 .. currentVersion /\ v \notin writeLocked
    BY BoundAssumption
    DEF HoldsReadLock, Reading, MutatorInv, TypeOK, VersionNumber, IterationInv
  <2>2. objectsToExclude'[v] = objectsToExclude[v] /\ (v \in lazyExclude' <=> v \in lazyExclude)
    BY <2>1, OnlyChangeOneChanges
  <2>3. /\ Shown(v, p) = {x \in contents[p] : ~Hidden(x)}
        /\ Shown(v, p)' = {x \in contents'[p] : ~HiddenNext(x)}
    BY <2>2 DEF Shown, Excluded
  <2>4. CASE contents' = contents
    BY <2>3, <2>4
  <2>5. ASSUME NEW w \in Writer, NEW q \in Place, NEW o \in Object, ChangeOne(w, q, o)
        PROVE  Shown(v, p)' \ Gone(v, p) = Shown(v, p) \ Gone(v, p)
    <3>1. v = currentVersion /\ o \in objectsToExclude[v]
      BY <2>1, <2>5, ChangeHidden
    <3>2. \A x \in Object : x # o =>
              \A d \in Place : x \in contents'[d] <=> x \in contents[d]
      BY <2>5 DEF ChangeOne, MutatorInv, TypeOK
    <3>3. contents \in [Place -> SUBSET Object] /\ contents' \in [Place -> SUBSET Object]
      BY <2>5 DEF ChangeOne, MutatorInv, TypeOK
    <3>4. \A x \in Object : x # o =>
              (x \in Shown(v, p)' <=> x \in Shown(v, p))
      BY <2>3, <3>2 DEF Place
    <3>5. o \in Shown(v, p)' <=> o \in contents'[p] /\ v \in lazyExclude /\ o \notin contents'[Store]
      BY <2>3, <3>1
    <3>6. o \in Shown(v, p) <=> o \in contents[p] /\ v \in lazyExclude /\ o \notin contents[Store]
      BY <2>3, <3>1
    <3>7. v \in lazyExclude /\ o \notin contents[Store] => o \notin contents'[Store]
      <4>1. v \in lazyExclude => wpc[w] = "removing"
        BY <2>5, <3>1 DEF ChangeOne, MutatorInv, HidingInv
      <4> QED BY <2>5, <4>1 DEF ChangeOne, MutatorInv, TypeOK, Place
    <3>8. o \in Shown(v, p)' \ Gone(v, p) <=> o \in Shown(v, p) \ Gone(v, p)
      BY <3>1, <3>5, <3>6, <3>7
    <3>9. Shown(v, p)' \subseteq Object /\ Shown(v, p) \subseteq Object
      BY <2>3, <3>3
    <3> QED BY <3>4, <3>8, <3>9
  <2> QED BY <2>4, <2>5, OnlyChangeOneChanges
<1> QED BY <1>1, MutatorsInductive, PTL DEF Spec, ViewsStable
=============================================================================
