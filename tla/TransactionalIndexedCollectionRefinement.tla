-------------- MODULE TransactionalIndexedCollectionRefinement --------------
(***************************************************************************)
(* TransactionalIndexedCollection implements ReadCommittedCollection, for  *)
(* any number of objects, indexes, readers, writers and versions: as long  *)
(* as no mutation fails, every step of the versions, locks and exclusions  *)
(* is a step of the abstract collection or one that its users do not see.  *)
(***************************************************************************)
EXTENDS TransactionalIndexedCollectionProofs

USE DEF collectionVars, versionVars, writerVars, readerVars

\* No index and no store throws, so that update() always runs to its end.
Unfailing ==
    /\ torn = {}
    /\ \A w \in Writer : wpc[w] \notin {"failed", "drainRestore", "throwing"}

RefinementInv == IndInv /\ Unfailing

\* An idle collection has not failed.
LEMMA RefinementInit == Init => RefinementInv
BY IndInit DEF Init, RefinementInv, Unfailing

\* Without a throwing index or store no step leads to a failed mutation.
LEMMA UnfailingNext ==
    ASSUME UpdateOnly, MayFail = FALSE, RefinementInv, [Next]_vars
    PROVE  Unfailing'
<1>1. torn = {} /\ wpc \in [Writer -> WriterPC]
  BY DEF RefinementInv, Unfailing, IndInv, TypeOK
<1>2. \A w \in Writer : wpc[w] \notin {"failed", "drainRestore", "throwing"}
  BY DEF RefinementInv, Unfailing
<1>3. ASSUME NEW w \in Writer, Call(w)
      PROVE  Unfailing'
  BY <1>1, <1>2, <1>3, CallCases DEF Update, RetainAll, UpdateOnly, Unfailing
<1>4. ASSUME NEW w \in Writer, WriterStep(w) \/ Fail(w)
      PROVE  Unfailing'
  <2>1. CASE UpdateReturnsEarly(w)
    BY <1>1, <1>2, <2>1 DEF UpdateReturnsEarly, Unfailing
  <2>2. CASE BeginAdd(w)
    BY <1>1, <1>2, <2>2 DEF BeginAdd, InheritTorn, Unfailing
  <2>3. CASE BeginRemove(w)
    BY <1>1, <1>2, <2>3 DEF BeginRemove, InheritTorn, Unfailing
  <2>4. CASE BeginEmpty(w)
    BY <1>1, <1>2, <2>4 DEF BeginEmpty, InheritTorn, Unfailing
  <2>5. CASE Drain(w)
    <3>1. /\ wpc' = [wpc EXCEPT ![w] = CASE @ = "drainAdd" -> "adding"
                                         [] @ = "drainRemove" -> "removing"
                                         [] @ = "drainEmpty" -> "returning"
                                         [] OTHER -> "throwing"]
          /\ wpc[w] \in {"drainAdd", "drainRemove", "drainEmpty"}
          /\ torn' = torn
      BY <1>2, <2>5 DEF Drain, Proceed
    <3> QED BY <1>1, <1>2, <3>1 DEF Unfailing
  <2>6. ASSUME NEW p \in Place, NEW o \in Object, ChangeOne(w, p, o)
        PROVE  Unfailing'
    BY <1>1, <1>2, <2>6 DEF ChangeOne, Unfailing
  <2>7. CASE RestoreEmptyVersionAfterFailure(w)
    BY <1>2, <2>7 DEF RestoreEmptyVersionAfterFailure
  <2>8. CASE Return(w)
    BY <1>1, <1>2, <2>8 DEF Return, Unfailing
  <2>9. CASE Fail(w)
    BY <2>9 DEF Fail
  <2> QED BY <1>4, <2>1, <2>2, <2>3, <2>4, <2>5, <2>6, <2>7, <2>8, <2>9 DEF WriterStep
<1>5. ASSUME NEW r \in Reader, ReadCurrentVersion(r) \/ ReaderStep(r)
      PROVE  Unfailing'
  BY <1>1, <1>2, <1>5 DEF ReadCurrentVersion, ReaderStep, TryReadLock, Retrieve, Fetch,
     Filter, Close, Forget, Unfailing
<1>6. CASE UNCHANGED vars
  BY <1>1, <1>2, <1>6 DEF vars, Unfailing
<1> QED BY <1>3, <1>4, <1>5, <1>6 DEF Next

\* The current version shows the collection it stands for.
ShowsCommitted == Visible = committed[currentVersion]

\* While a version can be read, every place holds what it stands for and, besides,
\* only what it excludes; so does the store, for the current version.
LEMMA VisibleIsCommitted == RefinementInv => ShowsCommitted
BY CurrentHolds DEF RefinementInv, Unfailing, ShowsCommitted, Visible, Place

\* The same after a step.
LEMMA VisibleIsCommittedNext == RefinementInv' => ShowsCommitted'
BY VisibleIsCommitted, PTL

\* A step of a writer leaves alone what readers see, if the versions so far keep
\* what they stand for.
LEMMA ReadersSeeTheSame ==
    ASSUME RefinementInv, UNCHANGED readerVars,
           \A v \in 1 .. currentVersion : committed'[v] = committed[v]
    PROVE  UNCHANGED <<Opening, View, Pending, result>>
<1>1. \A r \in Reader : thisVersion[r] \in 1 .. currentVersion
  BY BoundAssumption DEF RefinementInv, IndInv, ReaderInv, TypeOK, VersionNumber
<1>2. \A r \in Reader : committed'[thisVersion'[r]] = committed[thisVersion[r]]
  BY <1>1
<1> QED BY <1>2 DEF Opening, View, Pending

\* incrementVersion leaves the earlier versions alone.
LEMMA EarlierVersions ==
    ASSUME TypeOK, NEW w \in Writer, NEW excl \in SUBSET Object, NEW after \in SUBSET Object,
           IncrementVersion(w, excl, FALSE, after)
    PROVE  /\ \A v \in 1 .. currentVersion : committed'[v] = committed[v]
           /\ committed'[currentVersion'] = after
<1>1. /\ currentVersion \in Nat /\ currentVersion' = currentVersion + 1
      /\ currentVersion' \in VersionNumber
      /\ 1 .. currentVersion \subseteq VersionNumber
  BY BoundAssumption DEF TypeOK, VersionNumber, IncrementVersion
<1> QED BY <1>1 DEF TypeOK, IncrementVersion

\* update() enters writeMutex: a transaction is requested.
LEMMA UpdateIsRequest ==
    ASSUME RefinementInv, RefinementInv', NEW w \in Writer,
           NEW rem \in SUBSET Object, NEW add \in SUBSET Object,
           NEW iterables \in SUBSET {"adding", "removing"},
           Update(w, rem, add, iterables)
    PROVE  RC!Request(w, rem, add)
<1>1. \A u \in Writer : wpc[u] = "idle" /\ wpc'[u] = IF u = w THEN "entered" ELSE "idle"
  BY NullAssumption DEF Update, RefinementInv, IndInv, MutexInv, TypeOK
<1>2. /\ \A u \in Writer : Phase[u] = "idle"
      /\ Phase' = [Phase EXCEPT ![w] = "requested"]
  BY <1>1 DEF Phase
<1>3. UNCHANGED <<Opening, View, Pending, result>>
  BY ReadersSeeTheSame DEF Update
<1>4. Visible' = Visible
  BY DEF Update, Visible
<1>5. objectsToRemove' = [objectsToRemove EXCEPT ![w] = rem]
      /\ objectsToAdd' = [objectsToAdd EXCEPT ![w] = add]
  BY DEF Update
<1> QED BY <1>2, <1>3, <1>4, <1>5 DEF RC!Request, RC!readerVars

\* An update() that returns early has committed nothing, or was turned down.
LEMMA ReturnsEarlyIsCommitOrReject ==
    ASSUME RefinementInv, NEW w \in Writer, UpdateReturnsEarly(w)
    PROVE  RC!Commit(w) \/ RC!Reject(w)
<1>1. wpc[w] = "entered" /\ wpc' = [wpc EXCEPT ![w] = "returning"]
      /\ wpc \in [Writer -> WriterPC]
  BY DEF UpdateReturnsEarly, RefinementInv, IndInv, TypeOK
<1>2. /\ Phase[w] = "requested"
      /\ Phase' = [Phase EXCEPT ![w] = "done"]
  BY <1>1 DEF Phase
<1>3. UNCHANGED <<Opening, View, Pending, result>>
  BY ReadersSeeTheSame DEF UpdateReturnsEarly
<1>4. Visible' = Visible /\ Visible = contents[Store]
  BY <1>1 DEF UpdateReturnsEarly, Visible, RefinementInv, IndInv, ExclusionInv
<1>5. UNCHANGED <<objectsToRemove, objectsToAdd>>
  BY DEF UpdateReturnsEarly
<1>6. CASE objectsToAdd[w] = {} /\ objectsToRemove[w] = {}
  BY <1>2, <1>3, <1>4, <1>5, <1>6 DEF RC!Commit, RC!readerVars
<1>7. CASE ~(objectsToRemove[w] \subseteq contents[Store])
  BY <1>2, <1>3, <1>4, <1>5, <1>7 DEF RC!Reject, RC!readerVars
<1> QED BY <1>6, <1>7 DEF UpdateReturnsEarly

\* Hiding what is not there yet changes nothing for readers.
LEMMA BeginAddIsUnseen ==
    ASSUME RefinementInv, RefinementInv', NEW w \in Writer, BeginAdd(w)
    PROVE  UNCHANGED RC!vars
<1>1. wpc[w] = "entered" /\ wpc' = [wpc EXCEPT ![w] = "drainAdd"]
      /\ wpc \in [Writer -> WriterPC]
  BY DEF BeginAdd, RefinementInv, IndInv, TypeOK
<1>2. Phase' = Phase
  BY <1>1 DEF Phase
<1>3. /\ IncrementVersion(w, objectsToAdd[w], FALSE, committed[currentVersion])
      /\ objectsToAdd[w] \in SUBSET Object /\ committed[currentVersion] \in SUBSET Object
      /\ TypeOK
  BY DEF BeginAdd, RefinementInv, IndInv, TypeOK
<1>4. /\ \A v \in 1 .. currentVersion : committed'[v] = committed[v]
      /\ committed'[currentVersion'] = committed[currentVersion]
  BY <1>3, EarlierVersions
<1>5. UNCHANGED <<Opening, View, Pending, result>>
  BY <1>4, ReadersSeeTheSame DEF BeginAdd
<1>6. Visible' = Visible
  BY <1>4, VisibleIsCommitted, VisibleIsCommittedNext DEF ShowsCommitted
<1> QED BY <1>2, <1>5, <1>6 DEF RC!vars, RC!writerVars, RC!readerVars, BeginAdd

\* Publishing the version that shows the additions and hides the removals, or the
\* empty one after additions alone, is the commit.
LEMMA PublishIsCommit ==
    ASSUME RefinementInv, RefinementInv', NEW w \in Writer,
           wpc[w] \in {"entered", "adding"},
           NEW pc \in {"drainRemove", "drainEmpty"}, wpc' = [wpc EXCEPT ![w] = pc],
           NEW excl \in SUBSET Object, IncrementVersion(w, excl, FALSE, Applied(w)),
           UNCHANGED <<objectsToAdd, objectsToRemove, readerVars>>
    PROVE  RC!Commit(w)
<1>1. /\ Phase[w] = "requested"
      /\ Phase' = [Phase EXCEPT ![w] = "done"]
  <2>1. wpc \in [Writer -> WriterPC]
    BY DEF RefinementInv, IndInv, TypeOK
  <2> QED BY <2>1 DEF Phase
<1>2. Applied(w) \in SUBSET Object /\ TypeOK
  BY DEF Applied, RefinementInv, IndInv, TypeOK
<1>3. /\ \A v \in 1 .. currentVersion : committed'[v] = committed[v]
      /\ committed'[currentVersion'] = Applied(w)
  BY <1>2, EarlierVersions
<1>4. UNCHANGED <<Opening, View, Pending, result>>
  BY <1>3, ReadersSeeTheSame
<1>5. Visible' = (Visible \ objectsToRemove[w]) \cup objectsToAdd[w]
  BY <1>3, VisibleIsCommitted, VisibleIsCommittedNext DEF ShowsCommitted, Applied
<1> QED BY <1>1, <1>4, <1>5 DEF RC!Commit, RC!readerVars

\* The final empty version after removals shows what the one before has shown.
LEMMA BeginEmptyAfterRemoving ==
    ASSUME RefinementInv, RefinementInv', NEW w \in Writer, BeginEmpty(w),
           wpc[w] = "removing"
    PROVE  UNCHANGED RC!vars
<1>1. wpc' = [wpc EXCEPT ![w] = "drainEmpty"] /\ wpc \in [Writer -> WriterPC]
  BY DEF BeginEmpty, RefinementInv, IndInv, TypeOK
<1>2. Phase' = Phase
  BY <1>1 DEF Phase
<1>3. Applied(w) = committed[currentVersion]
  <2>1. Visible = committed[currentVersion]
    BY VisibleIsCommitted DEF ShowsCommitted
  <2>2. committed[currentVersion] \cap objectsToRemove[w] = {}
    BY <2>1 DEF Visible, RefinementInv, IndInv, ExclusionInv
  <2>3. objectsToAdd[w] \subseteq committed[currentVersion]
    BY DEF RefinementInv, Unfailing, IndInv, ProgressInv
  <2> QED BY <2>2, <2>3 DEF Applied
<1>4. /\ IncrementVersion(w, {}, FALSE, Applied(w))
      /\ Applied(w) \in SUBSET Object /\ TypeOK
  BY DEF BeginEmpty, Applied, RefinementInv, IndInv, TypeOK
<1>5. /\ \A v \in 1 .. currentVersion : committed'[v] = committed[v]
      /\ committed'[currentVersion'] = Applied(w)
  BY <1>4, EarlierVersions
<1>6. UNCHANGED <<Opening, View, Pending, result>>
  BY <1>5, ReadersSeeTheSame DEF BeginEmpty
<1>7. Visible' = Visible
  BY <1>3, <1>5, VisibleIsCommitted, VisibleIsCommittedNext DEF ShowsCommitted
<1> QED BY <1>2, <1>6, <1>7 DEF RC!vars, RC!writerVars, RC!readerVars, BeginEmpty

\* Waiting for readers is not seen.
LEMMA DrainIsUnseen ==
    ASSUME RefinementInv, RefinementInv', NEW w \in Writer, Drain(w)
    PROVE  UNCHANGED RC!vars
<1>1. /\ wpc' = [wpc EXCEPT ![w] = CASE @ = "drainAdd" -> "adding"
                                     [] @ = "drainRemove" -> "removing"
                                     [] @ = "drainEmpty" -> "returning"
                                     [] OTHER -> "throwing"]
      /\ wpc[w] \in {"drainAdd", "drainRemove", "drainEmpty", "drainRestore"}
      /\ wpc \in [Writer -> WriterPC]
  BY DEF Drain, Proceed, RefinementInv, IndInv, TypeOK
<1>2. Phase' = Phase
  BY <1>1 DEF Phase
<1>3. UNCHANGED <<Opening, View, Pending, result>>
  BY ReadersSeeTheSame DEF Drain, Proceed
<1>4. Visible' = Visible
  BY DEF Drain, Proceed, Visible
<1> QED BY <1>2, <1>3, <1>4 DEF RC!vars, RC!writerVars, RC!readerVars, Drain, Proceed

\* Neither is the change of one object in one place.
LEMMA ChangeOneIsUnseen ==
    ASSUME RefinementInv, RefinementInv', NEW w \in Writer, NEW p \in Place, NEW o \in Object,
           ChangeOne(w, p, o)
    PROVE  UNCHANGED RC!vars
<1>1. Phase' = Phase
  BY DEF ChangeOne, Phase
<1>2. UNCHANGED <<Opening, View, Pending, result>>
  BY ReadersSeeTheSame DEF ChangeOne
<1>3. Visible' = Visible
  BY VisibleIsCommitted, VisibleIsCommittedNext DEF ShowsCommitted, ChangeOne
<1> QED BY <1>1, <1>2, <1>3 DEF RC!vars, RC!writerVars, RC!readerVars, ChangeOne

\* update() returns.
LEMMA ReturnIsReturn ==
    ASSUME RefinementInv, RefinementInv', NEW w \in Writer, Return(w)
    PROVE  RC!Return(w)
<1>1. /\ wpc[w] \in {"returning", "throwing"} /\ wpc' = [wpc EXCEPT ![w] = "idle"]
      /\ wpc \in [Writer -> WriterPC]
  BY DEF Return, RefinementInv, IndInv, TypeOK
<1>2. Phase[w] = "done" /\ Phase' = [Phase EXCEPT ![w] = "idle"]
  BY <1>1 DEF Phase
<1>3. UNCHANGED <<Opening, View, Pending, result>>
  BY ReadersSeeTheSame DEF Return
<1>4. Visible' = Visible
  BY DEF Return, Visible
<1> QED BY <1>2, <1>3, <1>4 DEF RC!Return, RC!readerVars, Return

-----------------------------------------------------------------------------
(* Readers                                                                 *)

\* A step of a reader leaves the collection and the transactions alone, and the
\* other readers as well.
LEMMA WritersSeeTheSame ==
    ASSUME UNCHANGED <<collectionVars, versionVars, writeLocked, writeMutex, writerVars>>
    PROVE  UNCHANGED <<Visible, RC!writerVars>>
BY DEF Visible, Phase, RC!writerVars

\* What is known of the version that a reader has locked.
LEMMA LockedView ==
    ASSUME RefinementInv, NEW r \in Reader
    PROVE  /\ committed[thisVersion[r]] \in SUBSET Object
           /\ rpc[r] \in Reading =>
                 \A p \in Place : contents[p] \ objectsToExclude[thisVersion[r]]
                                    = committed[thisVersion[r]]
BY LockedHolds DEF RefinementInv, Unfailing, IndInv, TypeOK

\* Reading currentVersion, for the first time or again, settles on its collection.
LEMMA ReadIsSnapshot ==
    ASSUME RefinementInv, NEW r \in Reader, rpc[r] \in {"idle", "tryLock"},
           rpc' = [rpc EXCEPT ![r] = "tryLock"],
           thisVersion' = [thisVersion EXCEPT ![r] = currentVersion],
           UNCHANGED <<collectionVars, versionVars, writeLocked, writeMutex, writerVars,
                       unvisited, fetched, result>>
    PROVE  RC!Snapshot(r)
<1>1. rpc \in [Reader -> ReaderPC] /\ thisVersion \in [Reader -> VersionNumber]
  BY DEF RefinementInv, IndInv, TypeOK
<1>2. /\ Opening[r] \in {"no", "opening"}
      /\ Opening' = [Opening EXCEPT ![r] = "opening"]
  BY <1>1 DEF Opening
<1>3. View' = [View EXCEPT ![r] = Visible]
  <2>1. Visible = committed[currentVersion]
    BY VisibleIsCommitted DEF ShowsCommitted
  <2> QED BY <1>1, <2>1 DEF View
<1>4. Pending' = Pending
  BY <1>1 DEF Pending
<1>5. UNCHANGED <<Visible, RC!writerVars>>
  BY WritersSeeTheSame
<1> QED BY <1>2, <1>3, <1>4, <1>5 DEF RC!Snapshot

\* With the lock, retrieve() no longer changes its mind.
LEMMA LockIsOpen ==
    ASSUME RefinementInv, NEW r \in Reader, TryReadLock(r), thisVersion[r] \notin writeLocked
    PROVE  RC!Open(r)
<1>1. /\ rpc \in [Reader -> ReaderPC]
      /\ rpc[r] = "tryLock" /\ rpc' = [rpc EXCEPT ![r] = "locked"]
      /\ UNCHANGED <<thisVersion, committed, unvisited, fetched, result>>
  BY DEF TryReadLock, RefinementInv, IndInv, TypeOK
<1>2. Opening[r] = "opening" /\ Opening' = [Opening EXCEPT ![r] = "open"]
  BY <1>1 DEF Opening
<1>3. View' = View
  BY <1>1 DEF View
<1>4. Pending' = [Pending EXCEPT ![r] = View[r]]
  BY <1>1 DEF Pending, View
<1>5. UNCHANGED <<Visible, RC!writerVars>>
  BY WritersSeeTheSame DEF TryReadLock
<1> QED BY <1>1, <1>2, <1>3, <1>4, <1>5 DEF RC!Open

\* The query is answered from some index, which the user of the ResultSet cannot tell.
LEMMA RetrieveIsUnseen ==
    ASSUME RefinementInv, NEW r \in Reader, NEW p \in Place, Retrieve(r, p)
    PROVE  UNCHANGED RC!vars
<1>1. /\ rpc \in [Reader -> ReaderPC] /\ unvisited \in [Reader -> SUBSET Object]
      /\ rpc[r] = "locked" /\ rpc' = [rpc EXCEPT ![r] = "iterating"]
      /\ unvisited' = [unvisited EXCEPT ![r] = Object]
      /\ UNCHANGED <<thisVersion, committed, fetched, result>>
  BY DEF Retrieve, RefinementInv, IndInv, TypeOK
<1>2. Opening' = Opening
  BY <1>1 DEF Opening
<1>3. View' = View
  BY <1>1 DEF View
<1>4. committed[thisVersion[r]] \cap (Object \cup {fetched[r]}) = committed[thisVersion[r]]
  BY LockedView
<1>5. Pending' = Pending
  BY <1>1, <1>4 DEF Pending
<1>6. UNCHANGED <<Visible, RC!writerVars>>
  BY WritersSeeTheSame DEF Retrieve
<1> QED BY <1>1, <1>2, <1>3, <1>5, <1>6 DEF RC!vars, RC!readerVars

\* Neither can it tell that the iterator comes by a slot: an object that is passed
\* over is not in the view.
LEMMA FetchIsUnseen ==
    ASSUME RefinementInv, NEW r \in Reader, NEW o \in Object, Fetch(r, o)
    PROVE  UNCHANGED RC!vars
<1> DEFINE S == committed[thisVersion[r]]
<1>1. /\ rpc \in [Reader -> ReaderPC] /\ unvisited \in [Reader -> SUBSET Object]
      /\ fetched \in [Reader -> Object \cup {NoObject}] /\ place[r] \in Place
      /\ rpc[r] = "iterating" /\ rpc[r] \in Reading
      /\ unvisited' = [unvisited EXCEPT ![r] = @ \ {o}] /\ o \in unvisited[r]
      /\ fetched[r] = NoObject
      /\ UNCHANGED <<thisVersion, committed, result>>
  BY DEF Fetch, RefinementInv, IndInv, TypeOK, ReaderInv, Reading
<1>2. S \in SUBSET Object /\ (o \notin contents[place[r]] => o \notin S)
  BY <1>1, LockedView
<1>3. UNCHANGED <<Visible, RC!writerVars>>
  BY WritersSeeTheSame DEF Fetch
<1>4. CASE o \in contents[place[r]]
  <2>1. fetched' = [fetched EXCEPT ![r] = o] /\ rpc' = [rpc EXCEPT ![r] = "filtering"]
    BY <1>4 DEF Fetch
  <2>2. S \cap ((unvisited[r] \ {o}) \cup {o}) = S \cap (unvisited[r] \cup {fetched[r]})
    BY <1>1, <1>2, NullAssumption
  <2>3. Pending' = Pending
    BY <1>1, <2>1, <2>2 DEF Pending
  <2>4. Opening' = Opening /\ View' = View
    BY <1>1, <2>1 DEF Opening, View
  <2> QED BY <1>1, <1>3, <2>3, <2>4 DEF RC!vars, RC!readerVars
<1>5. CASE o \notin contents[place[r]]
  <2>1. UNCHANGED <<fetched, rpc>>
    BY <1>5 DEF Fetch
  <2>2. S \cap ((unvisited[r] \ {o}) \cup {fetched[r]}) = S \cap (unvisited[r] \cup {fetched[r]})
    BY <1>1, <1>2, <1>5
  <2>3. Pending' = Pending
    BY <1>1, <2>1, <2>2 DEF Pending
  <2>4. Opening' = Opening /\ View' = View
    BY <1>1, <2>1 DEF Opening, View
  <2> QED BY <1>1, <1>3, <2>3, <2>4 DEF RC!vars, RC!readerVars
<1> QED BY <1>4, <1>5

\* isValid() delivers an object of the view, or drops one that is not in it.
LEMMA FilterIsDeliver ==
    ASSUME RefinementInv, NEW r \in Reader, Filter(r)
    PROVE  (\E o \in Object : RC!Deliver(r, o)) \/ UNCHANGED RC!vars
<1> DEFINE S == committed[thisVersion[r]]
           o == fetched[r]
           hidden == o \in objectsToExclude[thisVersion[r]]
<1>1. /\ rpc \in [Reader -> ReaderPC] /\ fetched \in [Reader -> Object \cup {NoObject}]
      /\ result \in [Reader -> SUBSET Object]
      /\ rpc[r] = "filtering" /\ rpc[r] \in Reading
      /\ rpc' = [rpc EXCEPT ![r] = "iterating"]
      /\ o \in Object /\ fetched' = [fetched EXCEPT ![r] = NoObject]
      /\ o \notin unvisited[r]
      /\ UNCHANGED <<thisVersion, committed, unvisited>>
  BY DEF Filter, RefinementInv, IndInv, TypeOK, Reading, ReaderInv
<1>2. result' = [result EXCEPT ![r] = IF hidden THEN result[r] ELSE result[r] \cup {o}]
  <2>1. Excluded(thisVersion[r], o) <=> hidden
    BY DEF Excluded, RefinementInv, IndInv, ExclusionInv
  <2>2. hidden => filtering[r]
    BY <1>1 DEF RefinementInv, IndInv, ReaderInv
  <2> QED BY <1>1, <2>1, <2>2 DEF Filter
<1>3. /\ S \in SUBSET Object
      /\ hidden <=> o \notin S
  <2>1. contents[Store] \ objectsToExclude[thisVersion[r]] = S
    BY <1>1, LockedView DEF Place
  <2>2. o \in S \cup objectsToExclude[thisVersion[r]]
    BY <1>1 DEF RefinementInv, Unfailing, IndInv, ReaderInv
  <2> QED BY <2>1, <2>2, LockedView
<1>4. UNCHANGED <<Visible, RC!writerVars>>
  BY WritersSeeTheSame DEF Filter
<1>5. Opening' = Opening /\ View' = View /\ Opening[r] = "open"
  BY <1>1 DEF Opening, View
<1>6. Pending' = [Pending EXCEPT ![r] = S \cap (unvisited[r] \cup {NoObject})]
  BY <1>1 DEF Pending
<1>7. Pending[r] = S \cap (unvisited[r] \cup {o})
  BY <1>1 DEF Pending
<1>8. S \cap (unvisited[r] \cup {NoObject}) = Pending[r] \ {o}
  BY <1>1, <1>3, <1>7, NullAssumption
<1> HIDE DEF S, o, hidden
<1>9. CASE hidden
  <2>1. Pending[r] \ {o} = Pending[r]
    BY <1>3, <1>7, <1>9
  <2>2. Pending' = Pending
    BY <1>6, <1>8, <2>1 DEF Pending
  <2>3. result' = result
    BY <1>1, <1>2, <1>9
  <2> QED BY <1>4, <1>5, <2>2, <2>3 DEF RC!vars, RC!readerVars
<1>10. CASE ~hidden
  <2>1. o \in Pending[r]
    BY <1>3, <1>7, <1>10
  <2>2. Pending' = [Pending EXCEPT ![r] = @ \ {o}]
    BY <1>6, <1>8
  <2>3. result' = [result EXCEPT ![r] = @ \cup {o}]
    BY <1>2, <1>10
  <2>4. RC!Deliver(r, o)
    BY <1>4, <1>5, <2>1, <2>2, <2>3 DEF RC!Deliver
  <2> QED BY <1>1, <2>4
<1> QED BY <1>9, <1>10

\* Closing the ResultSet.
LEMMA CloseIsClose ==
    ASSUME RefinementInv, NEW r \in Reader, Close(r)
    PROVE  RC!Close(r)
<1>1. /\ rpc \in [Reader -> ReaderPC]
      /\ rpc[r] \in {"locked", "iterating", "filtering"}
      /\ rpc' = [rpc EXCEPT ![r] = "idle"]
      /\ thisVersion' = [thisVersion EXCEPT ![r] = 1] /\ thisVersion \in [Reader -> VersionNumber]
      /\ unvisited' = [unvisited EXCEPT ![r] = {}] /\ unvisited \in [Reader -> SUBSET Object]
      /\ fetched' = [fetched EXCEPT ![r] = NoObject]
      /\ fetched \in [Reader -> Object \cup {NoObject}]
      /\ result' = [result EXCEPT ![r] = {}]
      /\ committed' = committed
  BY DEF Close, Forget, RefinementInv, IndInv, TypeOK
<1>2. Opening[r] = "open" /\ Opening' = [Opening EXCEPT ![r] = "no"]
  BY <1>1 DEF Opening
<1>3. View' = [View EXCEPT ![r] = {}]
  BY <1>1 DEF View
<1>4. Pending' = [Pending EXCEPT ![r] = {}]
  BY <1>1 DEF Pending
<1>5. UNCHANGED <<Visible, RC!writerVars>>
  BY WritersSeeTheSame DEF Close, Forget
<1> QED BY <1>1, <1>2, <1>3, <1>4, <1>5 DEF RC!Close

-----------------------------------------------------------------------------
(* The whole                                                               *)

\* An idle collection is an idle abstract collection.
LEMMA InitImplements == Init => RC!Init
<1> SUFFICES ASSUME Init
             PROVE  RC!Init
  OBVIOUS
<1>1. Visible \in SUBSET Object
  BY TypeInit DEF TypeOK, Visible, Place
<1>2. /\ Phase = [w \in Writer |-> "idle"]
      /\ Opening = [r \in Reader |-> "no"]
      /\ View = [r \in Reader |-> {}]
      /\ Pending = [r \in Reader |-> {}]
  BY DEF Init, Phase, Opening, View, Pending
<1> QED BY <1>1, <1>2 DEF Init, RC!Init

\* A step of a writer is a step of the abstract one, or is not seen.
LEMMA WriterImplements ==
    ASSUME UpdateOnly, MayFail = FALSE, RefinementInv, RefinementInv',
           NEW w \in Writer, Call(w) \/ WriterStep(w) \/ Fail(w)
    PROVE  [RC!Next]_(RC!vars)
<1>1. CASE Call(w)
  <2>1. PICK rem \in SUBSET Object, add \in SUBSET Object,
             iterables \in SUBSET {"adding", "removing"} : Update(w, rem, add, iterables)
    BY <1>1, CallCases DEF RetainAll, UpdateOnly
  <2>2. RC!Request(w, rem, add)
    BY <2>1, UpdateIsRequest
  <2> QED BY <2>2 DEF RC!Next
<1>2. CASE UpdateReturnsEarly(w)
  BY <1>2, ReturnsEarlyIsCommitOrReject DEF RC!Next
<1>3. CASE BeginAdd(w)
  BY <1>3, BeginAddIsUnseen
<1>4. CASE BeginRemove(w)
  <2>1. /\ wpc[w] \in {"entered", "adding"} /\ wpc' = [wpc EXCEPT ![w] = "drainRemove"]
        /\ objectsToRemove[w] \in SUBSET Object
        /\ IncrementVersion(w, objectsToRemove[w], FALSE, Applied(w))
        /\ UNCHANGED <<objectsToAdd, objectsToRemove, readerVars>>
    BY <1>4 DEF BeginRemove, RefinementInv, IndInv, TypeOK
  <2> QED BY <2>1, PublishIsCommit DEF RC!Next
<1>5. CASE BeginEmpty(w)
  <2>1. CASE wpc[w] = "removing"
    BY <1>5, <2>1, BeginEmptyAfterRemoving
  <2>2. CASE wpc[w] # "removing"
    <3>1. /\ wpc[w] \in {"entered", "adding"} /\ wpc' = [wpc EXCEPT ![w] = "drainEmpty"]
          /\ IncrementVersion(w, {}, FALSE, Applied(w))
          /\ UNCHANGED <<objectsToAdd, objectsToRemove, readerVars>>
      BY <1>5, <2>2 DEF BeginEmpty
    <3>2. {} \in SUBSET Object
      OBVIOUS
    <3> QED BY <3>1, <3>2, PublishIsCommit DEF RC!Next
  <2> QED BY <2>1, <2>2
<1>6. CASE Drain(w)
  BY <1>6, DrainIsUnseen
<1>7. ASSUME NEW p \in Place, NEW o \in Object, ChangeOne(w, p, o)
      PROVE  UNCHANGED RC!vars
  BY <1>7, ChangeOneIsUnseen
<1>8. CASE RestoreEmptyVersionAfterFailure(w)
  BY <1>8 DEF RestoreEmptyVersionAfterFailure, RefinementInv, Unfailing
<1>9. CASE Return(w)
  BY <1>9, ReturnIsReturn DEF RC!Next
<1>10. CASE Fail(w)
  BY <1>10 DEF Fail
<1> QED BY <1>1, <1>2, <1>3, <1>4, <1>5, <1>6, <1>7, <1>8, <1>9, <1>10 DEF WriterStep

\* So is a step of a reader.
LEMMA ReaderImplements ==
    ASSUME RefinementInv, NEW r \in Reader, ReadCurrentVersion(r) \/ ReaderStep(r)
    PROVE  [RC!Next]_(RC!vars)
<1>1. CASE ReadCurrentVersion(r)
  <2>1. RC!Snapshot(r)
    BY <1>1, ReadIsSnapshot DEF ReadCurrentVersion
  <2> QED BY <2>1 DEF RC!Next
<1>2. CASE TryReadLock(r)
  <2>1. CASE thisVersion[r] \in writeLocked
    <3>1. /\ rpc[r] = "tryLock" /\ rpc' = rpc /\ rpc \in [Reader -> ReaderPC]
          /\ thisVersion' = [thisVersion EXCEPT ![r] = currentVersion]
          /\ UNCHANGED <<collectionVars, versionVars, writeLocked, writeMutex, writerVars,
                         unvisited, fetched, result>>
      BY <1>2, <2>1 DEF TryReadLock, RefinementInv, IndInv, TypeOK
    <3>2. rpc' = [rpc EXCEPT ![r] = "tryLock"]
      BY <3>1
    <3>3. RC!Snapshot(r)
      BY <3>1, <3>2, ReadIsSnapshot
    <3> QED BY <3>3 DEF RC!Next
  <2>2. CASE thisVersion[r] \notin writeLocked
    BY <1>2, <2>2, LockIsOpen DEF RC!Next
  <2> QED BY <2>1, <2>2
<1>3. ASSUME NEW p \in Place, Retrieve(r, p)
      PROVE  UNCHANGED RC!vars
  BY <1>3, RetrieveIsUnseen
<1>4. ASSUME NEW o \in Object, Fetch(r, o)
      PROVE  UNCHANGED RC!vars
  BY <1>4, FetchIsUnseen
<1>5. CASE Filter(r)
  BY <1>5, FilterIsDeliver DEF RC!Next
<1>6. CASE Close(r)
  BY <1>6, CloseIsClose DEF RC!Next
<1> QED BY <1>1, <1>2, <1>3, <1>4, <1>5, <1>6 DEF ReaderStep

\* Every step keeps the invariant of the refinement.
LEMMA RefinementInvNext ==
    ASSUME UpdateOnly, MayFail = FALSE
    PROVE  RefinementInv /\ [Next]_vars => RefinementInv'
BY IndNext, UnfailingNext DEF RefinementInv

\* Every step is one of the abstract collection, or is not seen by its users.
LEMMA NextImplements ==
    ASSUME UpdateOnly, MayFail = FALSE
    PROVE  RefinementInv /\ RefinementInv' /\ [Next]_vars => [RC!Next]_(RC!vars)
<1> SUFFICES ASSUME RefinementInv, RefinementInv', [Next]_vars
             PROVE  [RC!Next]_(RC!vars)
  OBVIOUS
<1>1. CASE UNCHANGED vars
  BY <1>1 DEF vars, RC!vars, RC!writerVars, RC!readerVars, Visible, Phase, Opening, View,
     Pending
<1> QED BY <1>1, WriterImplements, ReaderImplements DEF Next

\* As long as nothing throws and nothing is added that is there already, update() is
\* seen to take effect in one step between its call and its return, by every reader
\* of every index, and retrieve() to be answered from one state of the collection.
THEOREM Refinement ==
    ASSUME UpdateOnly, MayFail = FALSE
    PROVE  Spec => ImplementsReadCommittedCollection
BY RefinementInit, RefinementInvNext, InitImplements, NextImplements, PTL
DEF Spec, ImplementsReadCommittedCollection, RC!Spec
=============================================================================
