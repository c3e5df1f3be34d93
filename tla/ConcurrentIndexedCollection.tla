-------------------- MODULE ConcurrentIndexedCollection --------------------
(***************************************************************************)
(* The mutators of an on-heap ConcurrentIndexedCollection and of its       *)
(* subclass ObjectLockingIndexedCollection, with one index that keeps its  *)
(* entries the way AbstractMapBasedAttributeIndex (HashIndex,              *)
(* NavigableIndex) does: a concurrent map from attribute values to         *)
(* concurrent sets of objects, whose entries are created on demand and     *)
(* dropped when their set becomes empty.  The index may be added while     *)
(* other threads use the collection.                                       *)
(*                                                                         *)
(* A step is one operation on one of the concurrent data structures, which *)
(* is as much as java.util.concurrent makes atomic.                        *)
(***************************************************************************)
EXTENDS Naturals, FiniteSets

CONSTANTS
    Object, AttributeValue,
    Values,          \* [Object -> SUBSET AttributeValue]: getValues() of the attribute
    Thread, NoThread,
    Stripe,          \* the locks of the StripedLock
    StripeOf,        \* [Object -> Stripe]: getLockForObject()
    ValueSet,        \* the identities of the index's StoredResultSets
    NoValueSet,      \* null, in indexMap
    ObjectLocking,   \* is it an ObjectLockingIndexedCollection?
    Calls,           \* the mutators in use: a subset of Mutators
    Overlap          \* calls that the application lets run concurrently, unless
                     \* both lock: "any", "objects" (those on different objects),
                     \* "values" (those on objects that share no attribute value);
                     \* nothing but add() is called during addIndex()

Mutators == {"add", "remove", "update", "retainAll", "clear", "addIndex"}

ASSUME ValuesAssumption == Values \in [Object -> SUBSET AttributeValue]
ASSUME StripeAssumption == StripeOf \in [Object -> Stripe] /\ NoThread \notin Thread
ASSUME ValueSetAssumption == NoValueSet \notin ValueSet
ASSUME CallsAssumption ==
    /\ ObjectLocking \in BOOLEAN
    /\ Calls \subseteq Mutators
    /\ Overlap \in {"any", "objects", "values"}

VARIABLES
    store,                   \* the object store
    registered,              \* BOOLEAN: is the index among the engine's attributeIndexes?
    indexMap,                \* [AttributeValue -> ValueSet \cup {NoValueSet}]
    valueSet,                \* [ValueSet -> SUBSET Object]
    locks,                   \* [Stripe -> Thread \cup {NoThread}]
    pc, call, locking,       \* a thread's position, its mutator, does that lock?
    batch,                   \* the objects the call is about
    storeTodo,               \* objects not yet added to or removed from the store
    indexTodo,               \* <<object, value>> pairs not yet indexed or unindexed
    entry, ref               \* the pair at hand and the StoredResultSet looked up

threadVars == <<pc, call, locking, batch, storeTodo, indexTodo, entry, ref>>
vars == <<store, registered, indexMap, valueSet, locks, threadVars>>

PC == {"idle", "init", "lock", "store", "forEachIndex", "index", "put", "apply", "isEmpty", "drop",
       "clearMap", "storeAgain"}
Entries(c) == {e \in c \X AttributeValue : e[2] \in Values[e[1]]}
NoEntry == <<>>

TypeOK ==
    /\ store \subseteq Object
    /\ registered \in BOOLEAN
    /\ indexMap \in [AttributeValue -> ValueSet \cup {NoValueSet}]
    /\ valueSet \in [ValueSet -> SUBSET Object]
    /\ locks \in [Stripe -> Thread \cup {NoThread}]
    /\ pc \in [Thread -> PC]
    /\ call \in [Thread -> {"add", "remove", "clear", "addIndex"}]
    /\ locking \in [Thread -> BOOLEAN]
    /\ batch \in [Thread -> SUBSET Object]
    /\ storeTodo \in [Thread -> SUBSET Object]
    /\ indexTodo \in [Thread -> SUBSET Entries(Object)]
    /\ entry \in [Thread -> Entries(Object) \cup {NoEntry}]
    /\ ref \in [Thread -> ValueSet \cup {NoValueSet}]

Init ==
    /\ store = {}
    /\ registered = ("addIndex" \notin Calls)
    /\ indexMap = [a \in AttributeValue |-> NoValueSet]
    /\ valueSet = [s \in ValueSet |-> {}]
    /\ locks = [s \in Stripe |-> NoThread]
    /\ pc = [t \in Thread |-> "idle"]
    /\ call = [t \in Thread |-> "add"]
    /\ locking = [t \in Thread |-> FALSE]
    /\ batch = [t \in Thread |-> {}]
    /\ storeTodo = [t \in Thread |-> {}]
    /\ indexTodo = [t \in Thread |-> {}]
    /\ entry = [t \in Thread |-> NoEntry]
    /\ ref = [t \in Thread |-> NoValueSet]

-----------------------------------------------------------------------------
(* Calls                                                                   *)

ValuesIn(c) == UNION {Values[o] : o \in c}

\* The application's part: may a call on the objects c start now?
MayOverlap(t, m, c, takesLock) ==
    \A u \in Thread \ {t} :
        \/ pc[u] = "idle"
        \/ Overlap = "any"
        \/ takesLock /\ locking[u]
        \/ {m, call[u]} = {"add", "addIndex"}
        \/ /\ batch[u] \cap c = {}
           /\ Overlap = "values" => ValuesIn(batch[u]) \cap ValuesIn(c) = {}

\* A thread calls a mutator that is about the objects c.
Begin(t, m, c, takesLock) ==
    /\ pc[t] = "idle"
    /\ MayOverlap(t, m, c, takesLock)
    /\ pc' = [pc EXCEPT ![t] = IF takesLock THEN "lock" ELSE "store"]
    /\ call' = [call EXCEPT ![t] = m]
    /\ locking' = [locking EXCEPT ![t] = takesLock]
    /\ batch' = [batch EXCEPT ![t] = c]
    /\ storeTodo' = [storeTodo EXCEPT ![t] = c]
    /\ indexTodo' = [indexTodo EXCEPT ![t] = Entries(c)]
    /\ UNCHANGED <<store, registered, indexMap, valueSet, locks, entry, ref>>

\* ObjectLockingIndexedCollection.add() and remove(); its addAll() and removeAll()
\* call these object by object.
LockingCall(t, m, o) ==
    /\ ObjectLocking
    /\ m \in {"add", "remove"} \cap Calls
    /\ Begin(t, m, {o}, TRUE)

\* ConcurrentIndexedCollection's add(), addAll(), remove(), removeAll(), and
\* update(), which is removeAll() and then addAll(); of these, only update() is
\* not overridden by ObjectLockingIndexedCollection.
PlainCall(t, m, c) ==
    /\ m \in {"add", "remove"}
    /\ "update" \in Calls \/ (~ObjectLocking /\ m \in Calls)
    /\ c # {}
    /\ Begin(t, m, c, FALSE)

\* One round of retainAll(): the iterator has returned an object not to be retained.
RetainAllRound(t, o) ==
    /\ "retainAll" \in Calls
    /\ o \in store
    /\ Begin(t, "remove", {o}, FALSE)

ClearCall(t) ==
    /\ "clear" \in Calls
    /\ Begin(t, "clear", Object, FALSE)

\* addIndex(): the index is registered first, and then filled from the store.
AddIndex(t) ==
    /\ "addIndex" \in Calls
    /\ ~registered
    /\ pc[t] = "idle"
    /\ MayOverlap(t, "addIndex", Object, FALSE)
    /\ registered' = TRUE
    /\ pc' = [pc EXCEPT ![t] = "init"]
    /\ call' = [call EXCEPT ![t] = "addIndex"]
    /\ batch' = [batch EXCEPT ![t] = Object]
    /\ storeTodo' = [storeTodo EXCEPT ![t] = Object]
    /\ UNCHANGED <<store, indexMap, valueSet, locks, locking, indexTodo, entry, ref>>

-----------------------------------------------------------------------------
(* Steps                                                                   *)

\* init(): the iterator over the store comes by o, if the store contains it by then.
InitVisit(t, o) ==
    /\ pc[t] = "init"
    /\ o \in storeTodo[t]
    /\ storeTodo' = [storeTodo EXCEPT ![t] = @ \ {o}]
    /\ indexTodo' = [indexTodo EXCEPT ![t] = IF o \in store THEN Entries({o}) ELSE {}]
    /\ pc' = [pc EXCEPT ![t] = "index"]
    /\ UNCHANGED <<store, registered, indexMap, valueSet, locks, call, locking, batch,
                   entry, ref>>

\* All entries of an object have been added: on to the next object.
InitNext(t) ==
    /\ pc[t] = "index" /\ call[t] = "addIndex"
    /\ indexTodo[t] = {} /\ storeTodo[t] # {}
    /\ pc' = [pc EXCEPT ![t] = "init"]
    /\ UNCHANGED <<store, registered, indexMap, valueSet, locks, call, locking, batch,
                   storeTodo, indexTodo, entry, ref>>

\* Mutant: lock() does not exclude the other threads.
LockShared(t, o) ==
    /\ pc[t] = "lock"
    /\ batch[t] = {o}
    /\ locks' = [locks EXCEPT ![StripeOf[o]] = t]
    /\ pc' = [pc EXCEPT ![t] = "store"]
    /\ UNCHANGED <<store, registered, indexMap, valueSet, call, locking, batch, storeTodo, indexTodo,
                   entry, ref>>

\* getLockForObject(o).lock().
Lock(t, o) ==
    /\ pc[t] = "lock"
    /\ batch[t] = {o}
    /\ locks[StripeOf[o]] = NoThread
    /\ locks' = [locks EXCEPT ![StripeOf[o]] = t]
    /\ pc' = [pc EXCEPT ![t] = "store"]
    /\ UNCHANGED <<store, registered, indexMap, valueSet, call, locking, batch, storeTodo, indexTodo,
                   entry, ref>>

\* The object store first (for clear(), again at the end, by way of the fallback
\* index, which is the last that forEachIndexDo visits), then the index.
StoreStep(t, o) ==
    /\ pc[t] \in {"store", "storeAgain"}
    /\ o \in storeTodo[t]
    /\ store' = IF call[t] = "add" THEN store \cup {o} ELSE store \ {o}
    /\ storeTodo' = [storeTodo EXCEPT ![t] = @ \ {o}]
    /\ pc' = [pc EXCEPT ![t] = CASE storeTodo'[t] # {} \/ @ = "storeAgain" -> @
                                 [] OTHER -> "forEachIndex"]
    /\ UNCHANGED <<registered, indexMap, valueSet, locks, call, locking, batch, indexTodo, entry, ref>>

\* forEachIndexDo(): the index is visited if it is registered by now.
ForEachIndexDo(t) ==
    /\ pc[t] = "forEachIndex"
    /\ pc' = [pc EXCEPT ![t] = IF call[t] = "clear" THEN "clearMap" ELSE "index"]
    /\ indexTodo' = IF registered THEN indexTodo ELSE [indexTodo EXCEPT ![t] = {}]
    /\ UNCHANGED <<store, registered, indexMap, valueSet, locks, call, locking, batch,
                   storeTodo, entry, ref>>

\* addAll and removeAll of the index: look up the set for the attribute value.
Lookup(t, e) ==
    LET s == indexMap[e[2]] IN
    /\ pc[t] = "index"
    /\ e \in indexTodo[t]
    /\ indexTodo' = [indexTodo EXCEPT ![t] = @ \ {e}]
    /\ \/ /\ s = NoValueSet /\ call[t] = "remove"
          /\ UNCHANGED <<pc, entry, ref>>
       \/ /\ s = NoValueSet /\ call[t] # "remove"
          /\ entry' = [entry EXCEPT ![t] = e]
          /\ pc' = [pc EXCEPT ![t] = "put"]
          /\ UNCHANGED ref
       \/ /\ s # NoValueSet
          /\ entry' = [entry EXCEPT ![t] = e]
          /\ ref' = [ref EXCEPT ![t] = s]
          /\ pc' = [pc EXCEPT ![t] = "apply"]
    /\ UNCHANGED <<store, registered, indexMap, valueSet, locks, call, locking, batch, storeTodo>>

\* Sets that neither the map nor a thread refers to any more.
Unreferenced ==
    {s \in ValueSet : (\A a \in AttributeValue : indexMap[a] # s)
                      /\ (\A t \in Thread : ref[t] # s)}

\* putIfAbsent of a set just created, or the one another thread has put meanwhile.
PutIfAbsent(t, s) ==
    LET a == entry[t][2] IN
    /\ pc[t] = "put"
    /\ \/ /\ indexMap[a] # NoValueSet
          /\ s = indexMap[a]
          /\ UNCHANGED <<indexMap, valueSet>>
       \/ /\ indexMap[a] = NoValueSet
          /\ s \in Unreferenced
          /\ indexMap' = [indexMap EXCEPT ![a] = s]
          /\ valueSet' = [valueSet EXCEPT ![s] = {}]
    /\ ref' = [ref EXCEPT ![t] = s]
    /\ pc' = [pc EXCEPT ![t] = "apply"]
    /\ UNCHANGED <<store, registered, locks, call, locking, batch, storeTodo, indexTodo, entry>>

\* On to the next object and attribute value.
NextEntry(t) ==
    /\ entry' = [entry EXCEPT ![t] = NoEntry]
    /\ ref' = [ref EXCEPT ![t] = NoValueSet]
    /\ pc' = [pc EXCEPT ![t] = "index"]

\* valueSet.add() or valueSet.remove(), on the set that was looked up earlier.
ApplyAdd(t) ==
    /\ pc[t] = "apply" /\ call[t] # "remove"
    /\ valueSet' = [valueSet EXCEPT ![ref[t]] = @ \cup {entry[t][1]}]
    /\ NextEntry(t)
    /\ UNCHANGED <<store, registered, indexMap, locks, call, locking, batch, storeTodo, indexTodo>>

ApplyRemove(t) ==
    /\ pc[t] = "apply" /\ call[t] = "remove"
    /\ valueSet' = [valueSet EXCEPT ![ref[t]] = @ \ {entry[t][1]}]
    /\ pc' = [pc EXCEPT ![t] = "isEmpty"]
    /\ UNCHANGED <<store, registered, indexMap, locks, call, locking, batch, storeTodo, indexTodo,
                   entry, ref>>

\* Mutant: sets that have become empty stay in the map.
NeverEmpty(t) ==
    /\ pc[t] = "isEmpty"
    /\ NextEntry(t)
    /\ UNCHANGED <<store, registered, indexMap, valueSet, locks, call, locking, batch, storeTodo, indexTodo>>

IsEmpty(t) ==
    /\ pc[t] = "isEmpty"
    /\ IF valueSet[ref[t]] = {}
       THEN pc' = [pc EXCEPT ![t] = "drop"] /\ UNCHANGED <<entry, ref>>
       ELSE NextEntry(t)
    /\ UNCHANGED <<store, registered, indexMap, valueSet, locks, call, locking, batch, storeTodo, indexTodo>>

\* indexMap.remove(attributeValue), whatever it maps to by now.
Drop(t) ==
    /\ pc[t] = "drop"
    /\ indexMap' = [indexMap EXCEPT ![entry[t][2]] = NoValueSet]
    /\ NextEntry(t)
    /\ UNCHANGED <<store, registered, valueSet, locks, call, locking, batch, storeTodo, indexTodo>>

\* clear() of the index empties the map value by value, ...
ClearKey(t, a) ==
    /\ pc[t] = "clearMap"
    /\ \E e \in indexTodo[t] : e[2] = a
    /\ indexMap' = [indexMap EXCEPT ![a] = NoValueSet]
    /\ indexTodo' = [indexTodo EXCEPT ![t] = {e \in @ : e[2] # a}]
    /\ UNCHANGED <<store, registered, valueSet, locks, pc, call, locking, batch, storeTodo, entry, ref>>

\* ... and then the fallback index clears the object store once more.
ClearFallback(t) ==
    /\ pc[t] = "clearMap"
    /\ indexTodo[t] = {}
    /\ storeTodo' = [storeTodo EXCEPT ![t] = Object]
    /\ pc' = [pc EXCEPT ![t] = "storeAgain"]
    /\ UNCHANGED <<store, registered, indexMap, valueSet, locks, call, locking, batch, indexTodo, entry, ref>>

\* The stripe this call holds, if it locks, is unlocked.
Unlock(t) == locks' = [s \in Stripe |-> IF locks[s] = t THEN NoThread ELSE locks[s]]

Return(t) ==
    /\ \/ pc[t] = "index" /\ indexTodo[t] = {} /\ storeTodo[t] = {}
       \/ pc[t] = "storeAgain" /\ storeTodo[t] = {}
    /\ Unlock(t)
    /\ pc' = [pc EXCEPT ![t] = "idle"]
    /\ call' = [call EXCEPT ![t] = "add"]
    /\ locking' = [locking EXCEPT ![t] = FALSE]
    /\ batch' = [batch EXCEPT ![t] = {}]
    /\ UNCHANGED <<store, registered, indexMap, valueSet, storeTodo, indexTodo, entry, ref>>

-----------------------------------------------------------------------------
Call(t) ==
    \/ \E m \in Calls, o \in Object : LockingCall(t, m, o)
    \/ \E m \in {"add", "remove"}, c \in SUBSET Object : PlainCall(t, m, c)
    \/ \E o \in Object : RetainAllRound(t, o)
    \/ ClearCall(t)
    \/ AddIndex(t)

Step(t) ==
    \/ \E o \in Object : Lock(t, o) \/ StoreStep(t, o) \/ InitVisit(t, o)
    \/ InitNext(t) \/ ForEachIndexDo(t)
    \/ \E e \in Entries(Object) : Lookup(t, e)
    \/ \E s \in ValueSet : PutIfAbsent(t, s)
    \/ ApplyAdd(t) \/ ApplyRemove(t) \/ IsEmpty(t) \/ Drop(t)
    \/ \E a \in AttributeValue : ClearKey(t, a)
    \/ ClearFallback(t)
    \/ Return(t)

Next == \E t \in Thread : Call(t) \/ Step(t)

Spec == Init /\ [][Next]_vars

-----------------------------------------------------------------------------
(* What the collection promises                                            *)

\* The objects that a query for the attribute value a gets from the index.
RetrieveEqual(a) == IF indexMap[a] = NoValueSet THEN {} ELSE valueSet[indexMap[a]]

\* No call about o is in progress.
Settled(o) == \A t \in Thread : o \notin batch[t]

\* As soon as no call is about o, the index returns o under its attribute values
\* exactly if the collection contains it, whatever other objects are being added
\* to or removed from the same sets, and also if the index was added while o was
\* being added.
SettledObjectsIndexed ==
    \A o \in Object : registered /\ Settled(o) =>
        \A a \in Values[o] : o \in store <=> o \in RetrieveEqual(a)

\* removeAll drops the entries of the map that it has emptied: a value that no
\* object in the collection has is not among the index's distinct keys.
NoEmptyValueSets ==
    \A a \in AttributeValue :
        (\A o \in Object : a \in Values[o] => Settled(o)) =>
            (indexMap[a] # NoValueSet => valueSet[indexMap[a]] # {})

-----------------------------------------------------------------------------
(* Why this holds when calls that overlap share no attribute value, or     *)
(* share the lock: the inductive invariant.                                *)

\* How far a call has come.
LocalInv ==
    \A t \in Thread :
        /\ pc[t] = "idle" =>
              /\ call[t] = "add" /\ ~locking[t] /\ batch[t] = {}
              /\ storeTodo[t] = {} /\ indexTodo[t] = {}
        /\ pc[t] # "idle" => batch[t] # {} \/ Object = {}
        /\ storeTodo[t] \subseteq batch[t] /\ indexTodo[t] \subseteq Entries(batch[t])
        /\ pc[t] \in {"lock", "store", "forEachIndex"} =>
              call[t] # "addIndex" /\ indexTodo[t] = Entries(batch[t])
        /\ pc[t] \in {"init", "storeAgain"} => indexTodo[t] = {}
        /\ pc[t] \notin {"lock", "store", "storeAgain"} /\ call[t] # "addIndex" => storeTodo[t] = {}
        /\ pc[t] = "lock" => locking[t] /\ storeTodo[t] = batch[t]
        /\ pc[t] \in {"clearMap", "storeAgain"} => call[t] = "clear"
        /\ call[t] = "clear" =>
              batch[t] = Object /\ pc[t] \in {"store", "forEachIndex", "clearMap", "storeAgain"}
        /\ pc[t] = "init" => call[t] = "addIndex"
        /\ call[t] = "addIndex" =>
              batch[t] = Object /\ registered /\ pc[t] \in {"init", "index", "put", "apply"}
        /\ pc[t] = "put" => call[t] # "remove"
        /\ pc[t] \in {"isEmpty", "drop"} => call[t] = "remove"
        /\ IF pc[t] \in {"put", "apply", "isEmpty", "drop"}
           THEN entry[t] \in Entries(batch[t])
           ELSE entry[t] = NoEntry
        /\ ref[t] # NoValueSet <=> pc[t] \in {"apply", "isEmpty", "drop"}

\* A call that locks is about one object, whose stripe it holds until it returns.
LockInv ==
    \A t \in Thread :
        locking[t] =>
            /\ ObjectLocking /\ call[t] \in {"add", "remove"}
            /\ \E o \in Object : /\ batch[t] = {o}
                                 /\ pc[t] # "lock" => locks[StripeOf[o]] = t

\* Two calls are about different objects and attribute values.
Apart(t, u) ==
    /\ batch[t] \cap batch[u] = {}
    /\ ValuesIn(batch[t]) \cap ValuesIn(batch[u]) = {}

\* Which calls overlap.
OverlapInv ==
    \A t, u \in Thread :
        t # u /\ pc[t] # "idle" /\ pc[u] # "idle" =>
            \/ locking[t] /\ locking[u]
            \/ {call[t], call[u]} = {"add", "addIndex"}
            \/ Apart(t, u)

\* The set that a call has looked up is still the one in the map when it is used, and
\* still empty when it is dropped.  Nothing is in the map before the index is registered.
MapInv ==
    /\ \A a, b \in AttributeValue :
          indexMap[a] = indexMap[b] /\ indexMap[a] # NoValueSet => a = b
    /\ \A t \in Thread :
          /\ ref[t] # NoValueSet => ref[t] = indexMap[entry[t][2]]
          /\ pc[t] = "drop" => valueSet[ref[t]] = {}
    /\ ~registered =>
          /\ \A a \in AttributeValue : indexMap[a] = NoValueSet
          /\ \A t \in Thread : /\ entry[t] = NoEntry
                               /\ pc[t] \in {"index", "clearMap"} => indexTodo[t] = {}

\* What the store contains of the objects a call is about.
StoreInv ==
    \A t \in Thread :
        pc[t] \notin {"idle", "lock"} =>
            /\ call[t] \in {"remove", "clear"} =>
                  batch[t] \cap store \subseteq IF pc[t] = "store" THEN storeTodo[t] ELSE {}
            /\ call[t] = "add" => batch[t] \subseteq store \cup storeTodo[t]
            /\ call[t] = "addIndex" =>
                  \A e \in indexTodo[t] \cup {entry[t]} : e = NoEntry \/ e[1] \in store

\* The call of t is still to apply the entry e to the index ...
Pending(t, e) == e \in indexTodo[t] \/ (pc[t] \in {"put", "apply"} /\ entry[t] = e)

\* ... to remove it, or to add it; addIndex() also what the iterator is still to visit.
Unindexing(t, e) == call[t] \in {"remove", "clear"} /\ Pending(t, e)
Indexing(t, e) ==
    \/ call[t] \in {"add", "addIndex"} /\ Pending(t, e)
    \/ call[t] = "addIndex" /\ e[1] \in storeTodo[t]

\* It has put an empty set into the map, or emptied the set that is there.
Emptying(t, a) ==
    /\ entry[t] # NoEntry /\ entry[t][2] = a
    /\ \/ pc[t] = "apply" /\ call[t] # "remove"
       \/ pc[t] \in {"isEmpty", "drop"}

\* What the index holds and the store does not is still to be removed from the index.
UnindexInv ==
    \A o \in Object : \A a \in Values[o] :
        o \in RetrieveEqual(a) \ store => \E t \in Thread : Unindexing(t, <<o, a>>)

\* What the store holds and the index does not is still to be added to the index.
IndexInv ==
    \A o \in Object : \A a \in Values[o] :
        registered /\ o \in store \ RetrieveEqual(a) =>
            \E t \in Thread : Indexing(t, <<o, a>>)

\* An empty set in the map is about to be filled or to be dropped.
EmptyInv ==
    \A a \in AttributeValue :
        indexMap[a] # NoValueSet /\ valueSet[indexMap[a]] = {} =>
            \E t \in Thread : Emptying(t, a)

IndInv ==
    /\ TypeOK /\ LocalInv /\ LockInv /\ OverlapInv
    /\ MapInv /\ StoreInv /\ UnindexInv /\ IndexInv /\ EmptyInv
=============================================================================
