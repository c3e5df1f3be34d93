----------------- MODULE ConcurrentIndexedCollectionProofs -----------------
(***************************************************************************)
(* Proofs about ConcurrentIndexedCollection: if calls that overlap share   *)
(* no attribute value, or share the lock, the index agrees with the store. *)
(***************************************************************************)
EXTENDS ConcurrentIndexedCollection, TLAPS

USE DEF threadVars

\* The application keeps calls on objects that share an attribute value apart, and so
\* do the stripes of an ObjectLockingIndexedCollection.
ValuesApart ==
    /\ Overlap = "values"
    /\ ObjectLocking =>
          \A o, q \in Object : Values[o] \cap Values[q] # {} => StripeOf[o] = StripeOf[q]

-----------------------------------------------------------------------------
(* Entries                                                                 *)

\* An entry is an object with one of its attribute values.
LEMMA EntryShape ==
    ASSUME NEW c \in SUBSET Object
    PROVE  /\ \A e \in Entries(c) :
                 /\ e = <<e[1], e[2]>> /\ e[1] \in c /\ e[2] \in AttributeValue
                 /\ e[2] \in Values[e[1]] /\ e # NoEntry
           /\ \A o \in c : \A a \in Values[o] :
                 <<o, a>> \in Entries(c) /\ <<o, a>>[1] = o /\ <<o, a>>[2] = a
BY ValuesAssumption DEF Entries, NoEntry

\* More objects, more entries.
LEMMA EntriesMonotone ==
    ASSUME NEW c \in SUBSET Object
    PROVE  Entries(c) \subseteq Entries(Object)
BY ValuesAssumption DEF Entries

\* The attribute values of a set of objects.
LEMMA ValuesInShape ==
    ASSUME NEW c \in SUBSET Object
    PROVE  \A a : a \in ValuesIn(c) <=> \E o \in c : a \in Values[o]
BY DEF ValuesIn

-----------------------------------------------------------------------------
(* Types                                                                   *)

LEMMA TypeInit == Init => TypeOK
<1> SUFFICES ASSUME Init
             PROVE  TypeOK
  OBVIOUS
<1>1. registered \in BOOLEAN
  BY DEF Init
<1> QED BY <1>1 DEF Init, TypeOK, PC

\* The start of a call.
LEMMA TypeBegin ==
    ASSUME TypeOK, NEW t \in Thread, NEW m \in {"add", "remove", "clear"},
           NEW c \in SUBSET Object, NEW takesLock \in BOOLEAN, Begin(t, m, c, takesLock)
    PROVE  TypeOK'
<1>1. Entries(c) \subseteq Entries(Object)
  BY EntriesMonotone
<1> QED BY <1>1 DEF TypeOK, Begin, PC

\* The steps of a call.
LEMMA TypeStep ==
    ASSUME TypeOK, LocalInv, NEW t \in Thread, Step(t)
    PROVE  TypeOK'
<1>1. CASE \E o \in Object : Lock(t, o)
  BY <1>1, StripeAssumption DEF Lock, TypeOK, PC
<1>2. ASSUME NEW o \in Object, StoreStep(t, o)
      PROVE  TypeOK'
  <2>1. pc' = [pc EXCEPT ![t] = pc[t]] \/ pc' = [pc EXCEPT ![t] = "forEachIndex"]
    BY <1>2 DEF StoreStep
  <2>2. pc' \in [Thread -> PC]
    BY <2>1 DEF TypeOK, PC
  <2> QED BY <1>2, <2>2 DEF StoreStep, TypeOK
<1>3. ASSUME NEW o \in Object, InitVisit(t, o)
      PROVE  TypeOK'
  <2>1. Entries({o}) \subseteq Entries(Object)
    BY EntriesMonotone
  <2> QED BY <1>3, <2>1 DEF InitVisit, TypeOK, PC
<1>4. CASE InitNext(t) \/ ForEachIndexDo(t)
  BY <1>4 DEF InitNext, ForEachIndexDo, TypeOK, PC
<1>5. ASSUME NEW e \in Entries(Object), Lookup(t, e)
      PROVE  TypeOK'
  <2>1. e[2] \in AttributeValue
    BY EntryShape
  <2>2. indexMap[e[2]] \in ValueSet \cup {NoValueSet}
    BY <2>1 DEF TypeOK
  <2>3. /\ entry' = entry \/ entry' = [entry EXCEPT ![t] = e]
        /\ ref' = ref \/ ref' = [ref EXCEPT ![t] = indexMap[e[2]]]
        /\ pc' = pc \/ pc' = [pc EXCEPT ![t] = "put"] \/ pc' = [pc EXCEPT ![t] = "apply"]
        /\ indexTodo' = [indexTodo EXCEPT ![t] = @ \ {e}]
        /\ UNCHANGED <<store, registered, indexMap, valueSet, locks, call, locking, batch, storeTodo>>
    BY <1>5 DEF Lookup
  <2> QED BY <2>2, <2>3 DEF TypeOK, PC
<1>6. ASSUME NEW s \in ValueSet, PutIfAbsent(t, s)
      PROVE  TypeOK'
  <2>1. /\ indexMap' = indexMap \/ indexMap' = [indexMap EXCEPT ![entry[t][2]] = s]
        /\ valueSet' = valueSet \/ valueSet' = [valueSet EXCEPT ![s] = {}]
    BY <1>6 DEF PutIfAbsent
  <2> QED BY <1>6, <2>1 DEF PutIfAbsent, TypeOK, PC
<1>7. CASE ApplyAdd(t)
  <2>1. entry[t][1] \in Object
    BY <1>7, EntryShape DEF LocalInv, ApplyAdd, TypeOK
  <2> QED BY <1>7, <2>1 DEF ApplyAdd, NextEntry, TypeOK, PC
<1>8. CASE ApplyRemove(t)
  BY <1>8 DEF ApplyRemove, TypeOK, PC
<1>9. CASE IsEmpty(t)
  <2>1. /\ pc' = [pc EXCEPT ![t] = "drop"] \/ pc' = [pc EXCEPT ![t] = "index"]
        /\ entry' = entry \/ entry' = [entry EXCEPT ![t] = NoEntry]
        /\ ref' = ref \/ ref' = [ref EXCEPT ![t] = NoValueSet]
    BY <1>9 DEF IsEmpty, NextEntry
  <2> QED BY <1>9, <2>1 DEF IsEmpty, TypeOK, PC
<1>10. CASE Drop(t)
  BY <1>10 DEF Drop, NextEntry, TypeOK, PC
<1>11. CASE \E a \in AttributeValue : ClearKey(t, a)
  BY <1>11 DEF ClearKey, TypeOK
<1>12. CASE ClearFallback(t)
  BY <1>12 DEF ClearFallback, TypeOK, PC
<1>13. CASE Return(t)
  <2>1. locks' \in [Stripe -> Thread \cup {NoThread}]
    BY <1>13 DEF Return, Unlock, TypeOK
  <2> QED BY <1>13, <2>1 DEF Return, TypeOK, PC
<1> QED BY <1>1, <1>2, <1>3, <1>4, <1>5, <1>6, <1>7, <1>8, <1>9, <1>10, <1>11, <1>12, <1>13
        DEF Step

-----------------------------------------------------------------------------
(* Calls that overlap                                                      *)

\* Two calls that have got past their locks are about different objects and attribute
\* values, but for addIndex() and an add().
LEMMA Exclusion ==
    ASSUME ValuesApart, TypeOK, LockInv, OverlapInv,
           NEW t \in Thread, NEW u \in Thread, t # u,
           pc[t] \notin {"idle", "lock"}, pc[u] \notin {"idle", "lock"}
    PROVE  {call[t], call[u]} = {"add", "addIndex"} \/ Apart(t, u)
<1>1. CASE locking[t] /\ locking[u]
  <2>1. PICK o \in Object : batch[t] = {o} /\ locks[StripeOf[o]] = t
    BY <1>1 DEF LockInv
  <2>2. PICK q \in Object : batch[u] = {q} /\ locks[StripeOf[q]] = u
    BY <1>1 DEF LockInv
  <2>3. StripeOf[o] # StripeOf[q]
    BY <2>1, <2>2
  <2>4. Values[o] \cap Values[q] = {}
    BY <1>1, <2>3 DEF ValuesApart, LockInv
  <2>5. batch[t] \cap batch[u] = {}
    BY <2>1, <2>2, <2>3
  <2>6. ValuesIn(batch[t]) = Values[o] /\ ValuesIn(batch[u]) = Values[q]
    BY <2>1, <2>2, ValuesInShape DEF ValuesIn
  <2> QED BY <2>4, <2>5, <2>6 DEF Apart
<1>2. CASE ~(locking[t] /\ locking[u])
  BY <1>2 DEF OverlapInv
<1> QED BY <1>1, <1>2

\* A call that removes has its objects and their attribute values to itself.
LEMMA Alone ==
    ASSUME ValuesApart, TypeOK, LockInv, OverlapInv,
           NEW t \in Thread, NEW u \in Thread, t # u,
           pc[t] \notin {"idle", "lock"}, pc[u] \notin {"idle", "lock"},
           call[t] \in {"remove", "clear"}
    PROVE  /\ batch[t] \cap batch[u] = {}
           /\ \A e \in Entries(batch[t]), f \in Entries(batch[u]) : e[2] # f[2]
<1>1. Apart(t, u)
  BY Exclusion
<1>2. batch[t] \subseteq Object /\ batch[u] \subseteq Object
  BY DEF TypeOK
<1>3. ASSUME NEW e \in Entries(batch[t]), NEW f \in Entries(batch[u])
      PROVE  e[2] # f[2]
  <2>1. e[1] \in batch[t] /\ e[2] \in Values[e[1]] /\ f[1] \in batch[u] /\ f[2] \in Values[f[1]]
    BY <1>2, EntryShape
  <2>2. e[2] \in ValuesIn(batch[t]) /\ f[2] \in ValuesIn(batch[u])
    BY <1>2, <2>1, ValuesInShape
  <2> QED BY <1>1, <2>2 DEF Apart
<1> QED BY <1>1, <1>3 DEF Apart

-----------------------------------------------------------------------------
(* Control: LocalInv, LockInv, OverlapInv                                  *)

ControlInv == TypeOK /\ LocalInv /\ LockInv /\ OverlapInv

\* The locals of the other threads do not change.
OthersSame(t) ==
    \A u \in Thread : u # t =>
        /\ pc'[u] = pc[u] /\ call'[u] = call[u] /\ (locking'[u] <=> locking[u])
        /\ batch'[u] = batch[u] /\ storeTodo'[u] = storeTodo[u] /\ indexTodo'[u] = indexTodo[u]
        /\ entry'[u] = entry[u] /\ ref'[u] = ref[u]

\* A step other than the return from the call.
Going(t) ==
    /\ OthersSame(t)
    /\ UNCHANGED <<registered, call, locking, batch>>
    /\ pc[t] # "idle" /\ pc'[t] \notin {"idle", "lock"}

LEMMA LocalLock ==
    ASSUME TypeOK, LocalInv, NEW t \in Thread, NEW o \in Object, Lock(t, o)
    PROVE  Going(t) /\ LocalInv!(t)'
<1>1. Going(t)
  BY DEF Lock, Going, OthersSame, TypeOK
<1> QED BY <1>1 DEF Lock, LocalInv, TypeOK

LEMMA LocalStore ==
    ASSUME TypeOK, LocalInv, NEW t \in Thread, NEW o \in Object, StoreStep(t, o)
    PROVE  Going(t) /\ LocalInv!(t)'
<1>1. /\ storeTodo'[t] = storeTodo[t] \ {o}
      /\ pc' = [pc EXCEPT ![t] = IF storeTodo'[t] # {} \/ pc[t] = "storeAgain" THEN pc[t]
                                 ELSE "forEachIndex"]
  BY DEF StoreStep, TypeOK
<1>2. pc'[t] = IF storeTodo'[t] # {} \/ pc[t] = "storeAgain" THEN pc[t] ELSE "forEachIndex"
  BY <1>1 DEF TypeOK
<1>3. Going(t)
  BY <1>1, <1>2 DEF StoreStep, Going, OthersSame, TypeOK
<1>4. /\ indexTodo'[t] = indexTodo[t] /\ entry'[t] = entry[t] /\ ref'[t] = ref[t]
      /\ pc[t] \in {"store", "storeAgain"}
  BY DEF StoreStep
<1> QED BY <1>1, <1>2, <1>3, <1>4 DEF LocalInv, Going

LEMMA LocalInitVisit ==
    ASSUME TypeOK, LocalInv, NEW t \in Thread, NEW o \in Object, InitVisit(t, o)
    PROVE  Going(t) /\ LocalInv!(t)'
<1>1. Going(t)
  BY DEF InitVisit, Going, OthersSame, TypeOK
<1>2. /\ pc[t] = "init" /\ pc'[t] = "index" /\ entry'[t] = entry[t] /\ ref'[t] = ref[t]
      /\ storeTodo'[t] = storeTodo[t] \ {o} /\ o \in storeTodo[t]
      /\ indexTodo'[t] = IF o \in store THEN Entries({o}) ELSE {}
  BY DEF InitVisit, TypeOK
<1>3. Entries({o}) \subseteq Entries(Object)
  BY EntriesMonotone
<1> QED BY <1>1, <1>2, <1>3 DEF LocalInv, Going

LEMMA LocalInitNext ==
    ASSUME TypeOK, LocalInv, NEW t \in Thread, InitNext(t)
    PROVE  Going(t) /\ LocalInv!(t)'
<1>1. Going(t)
  BY DEF InitNext, Going, OthersSame, TypeOK
<1> QED BY <1>1 DEF InitNext, LocalInv, TypeOK

LEMMA LocalForEach ==
    ASSUME TypeOK, LocalInv, NEW t \in Thread, ForEachIndexDo(t)
    PROVE  Going(t) /\ LocalInv!(t)'
<1>1. /\ pc[t] = "forEachIndex" /\ pc'[t] = IF call[t] = "clear" THEN "clearMap" ELSE "index"
      /\ indexTodo'[t] = IF registered THEN indexTodo[t] ELSE {}
      /\ entry'[t] = entry[t] /\ ref'[t] = ref[t] /\ storeTodo'[t] = storeTodo[t]
      /\ \A u \in Thread : u # t => indexTodo'[u] = indexTodo[u] /\ pc'[u] = pc[u]
  BY DEF ForEachIndexDo, TypeOK
<1>2. Going(t)
  BY <1>1 DEF ForEachIndexDo, Going, OthersSame, TypeOK
<1> QED BY <1>1, <1>2 DEF LocalInv, Going

LEMMA LocalLookup ==
    ASSUME TypeOK, LocalInv, NEW t \in Thread, NEW e \in Entries(Object), Lookup(t, e)
    PROVE  Going(t) /\ LocalInv!(t)'
<1>1. /\ pc[t] = "index" /\ e \in indexTodo[t] /\ e \in Entries(batch[t])
      /\ indexTodo' = [indexTodo EXCEPT ![t] = @ \ {e}]
      /\ UNCHANGED <<registered, call, locking, batch, storeTodo>>
      /\ entry[t] = NoEntry /\ ref[t] = NoValueSet
  BY DEF Lookup, LocalInv
<1>2. \/ indexMap[e[2]] = NoValueSet /\ call[t] = "remove" /\ UNCHANGED <<pc, entry, ref>>
      \/ /\ indexMap[e[2]] = NoValueSet /\ call[t] # "remove"
         /\ entry' = [entry EXCEPT ![t] = e] /\ pc' = [pc EXCEPT ![t] = "put"] /\ UNCHANGED ref
      \/ /\ indexMap[e[2]] # NoValueSet
         /\ entry' = [entry EXCEPT ![t] = e] /\ pc' = [pc EXCEPT ![t] = "apply"]
         /\ ref' = [ref EXCEPT ![t] = indexMap[e[2]]]
  BY DEF Lookup
<1>3. Going(t)
  BY <1>1, <1>2 DEF Going, OthersSame, TypeOK
<1>4. /\ indexTodo'[t] = indexTodo[t] \ {e}
      /\ \/ pc'[t] = "index" /\ entry'[t] = NoEntry /\ ref'[t] = NoValueSet
         \/ pc'[t] = "put" /\ entry'[t] = e /\ ref'[t] = NoValueSet /\ call[t] # "remove"
         \/ pc'[t] = "apply" /\ entry'[t] = e /\ ref'[t] # NoValueSet
  BY <1>1, <1>2 DEF TypeOK
<1>5. call[t] # "clear"
  BY <1>1 DEF LocalInv
<1> QED BY <1>1, <1>3, <1>4, <1>5 DEF LocalInv, Going

LEMMA LocalPut ==
    ASSUME TypeOK, LocalInv, NEW t \in Thread, NEW s \in ValueSet, PutIfAbsent(t, s)
    PROVE  Going(t) /\ LocalInv!(t)'
<1>1. Going(t)
  BY DEF PutIfAbsent, Going, OthersSame, TypeOK
<1>2. /\ pc[t] = "put" /\ pc'[t] = "apply" /\ ref'[t] = s /\ s # NoValueSet
      /\ entry'[t] = entry[t] /\ indexTodo'[t] = indexTodo[t] /\ storeTodo'[t] = storeTodo[t]
  BY ValueSetAssumption DEF PutIfAbsent, TypeOK
<1> QED BY <1>1, <1>2 DEF LocalInv, Going

LEMMA LocalNextEntry ==
    ASSUME TypeOK, LocalInv, NEW t \in Thread, NextEntry(t), pc[t] \in {"apply", "isEmpty", "drop"},
           UNCHANGED <<registered, call, locking, batch, storeTodo, indexTodo>>
    PROVE  Going(t) /\ LocalInv!(t)'
<1>1. Going(t)
  BY DEF NextEntry, Going, OthersSame, TypeOK
<1>2. pc'[t] = "index" /\ entry'[t] = NoEntry /\ ref'[t] = NoValueSet
  BY DEF NextEntry, TypeOK
<1> QED BY <1>1, <1>2 DEF LocalInv, Going

LEMMA LocalApplyRemove ==
    ASSUME TypeOK, LocalInv, NEW t \in Thread, ApplyRemove(t)
    PROVE  Going(t) /\ LocalInv!(t)'
<1>1. Going(t)
  BY DEF ApplyRemove, Going, OthersSame, TypeOK
<1>2. /\ pc[t] = "apply" /\ call[t] = "remove" /\ pc'[t] = "isEmpty"
      /\ UNCHANGED <<entry, ref, indexTodo, storeTodo>>
  BY DEF ApplyRemove, TypeOK
<1> QED BY <1>1, <1>2 DEF LocalInv, Going

LEMMA LocalIsEmpty ==
    ASSUME TypeOK, LocalInv, NEW t \in Thread, IsEmpty(t)
    PROVE  Going(t) /\ LocalInv!(t)'
<1>1. CASE NextEntry(t)
  BY <1>1, LocalNextEntry DEF IsEmpty
<1>2. CASE pc' = [pc EXCEPT ![t] = "drop"] /\ UNCHANGED <<entry, ref>>
  <2>1. Going(t)
    BY <1>2 DEF IsEmpty, Going, OthersSame, TypeOK
  <2>2. /\ pc[t] = "isEmpty" /\ pc'[t] = "drop" /\ UNCHANGED <<entry, ref, indexTodo, storeTodo>>
    BY <1>2 DEF IsEmpty, TypeOK
  <2> QED BY <2>1, <2>2 DEF LocalInv, Going
<1> QED BY <1>1, <1>2 DEF IsEmpty

LEMMA LocalClear ==
    ASSUME TypeOK, LocalInv, NEW t \in Thread,
           ClearFallback(t) \/ \E a \in AttributeValue : ClearKey(t, a)
    PROVE  Going(t) /\ LocalInv!(t)'
<1>1. Going(t)
  BY DEF ClearFallback, ClearKey, Going, OthersSame, TypeOK
<1>2. /\ pc[t] = "clearMap" /\ UNCHANGED <<entry, ref>>
      /\ \/ /\ pc'[t] = "clearMap" /\ indexTodo'[t] \subseteq indexTodo[t]
            /\ UNCHANGED storeTodo
         \/ /\ pc'[t] = "storeAgain" /\ indexTodo'[t] = {} /\ storeTodo'[t] = Object
  BY DEF ClearFallback, ClearKey, TypeOK
<1> QED BY <1>1, <1>2 DEF LocalInv, Going

\* A step that is not the return keeps the control invariants.
LEMMA GoingControl ==
    ASSUME ControlInv, TypeOK', NEW t \in Thread, Going(t), LocalInv!(t)',
           \A s \in Stripe : locks[s] # NoThread => locks'[s] = locks[s],
           locking[t] => \A o \in Object : batch[t] = {o} => locks'[StripeOf[o]] = t
    PROVE  ControlInv'
<1>1. LocalInv'
  BY DEF ControlInv, LocalInv, Going, OthersSame
<1>2. LockInv'
  <2> SUFFICES ASSUME NEW u \in Thread, locking[u]
               PROVE  LockInv!(u)!2'
    BY DEF LockInv, Going
  <2>1. ObjectLocking /\ call[u] \in {"add", "remove"}
    BY DEF ControlInv, LockInv
  <2>2. PICK o \in Object : batch[u] = {o} /\ (pc[u] # "lock" => locks[StripeOf[o]] = u)
    BY DEF ControlInv, LockInv
  <2>3. pc'[u] # "lock" => locks'[StripeOf[o]] = u
    <3>1. CASE u = t
      BY <2>2, <3>1
    <3>2. CASE u # t
      BY <2>2, <3>2, StripeAssumption DEF Going, OthersSame
    <3> QED BY <3>1, <3>2
  <2> QED BY <2>1, <2>2, <2>3 DEF Going
<1>3. OverlapInv'
  BY DEF ControlInv, OverlapInv, Going, OthersSame, Apart
<1> QED BY <1>1, <1>2, <1>3 DEF ControlInv

\* A call begins.  The content of the collection does not change.
LEMMA BeginControl ==
    ASSUME ValuesApart, ControlInv, TypeOK', NEW t \in Thread, NEW m \in {"add", "remove", "clear"},
           NEW c \in SUBSET Object, NEW takesLock \in BOOLEAN, Begin(t, m, c, takesLock),
           c # {} \/ Object = {}, m = "clear" => c = Object /\ ~takesLock,
           takesLock => ObjectLocking /\ \E o \in Object : c = {o}
    PROVE  ControlInv' /\ OthersSame(t)
<1>1. OthersSame(t)
  BY DEF ControlInv, Begin, OthersSame, TypeOK
<1>2. /\ pc[t] = "idle" /\ pc'[t] = IF takesLock THEN "lock" ELSE "store"
      /\ call'[t] = m /\ (locking'[t] <=> takesLock) /\ batch'[t] = c /\ storeTodo'[t] = c
      /\ indexTodo'[t] = Entries(c) /\ UNCHANGED <<registered, locks, entry, ref>>
  BY DEF ControlInv, Begin, TypeOK
<1>3. LocalInv'
  <2>1. LocalInv!(t)'
    BY <1>2 DEF ControlInv, LocalInv
  <2> QED BY <1>1, <1>2, <2>1 DEF ControlInv, LocalInv, OthersSame
<1>4. LockInv'
  <2>1. ASSUME NEW u \in Thread, u # t
        PROVE  LockInv!(u)'
    BY <1>1, <1>2, <2>1 DEF ControlInv, LockInv, OthersSame
  <2>2. LockInv!(t)'
    BY <1>2
  <2> QED BY <2>1, <2>2 DEF LockInv
<1>5. ASSUME NEW u \in Thread, u # t, pc[u] # "idle"
      PROVE  /\ OverlapInv!(t, u)!2'
             /\ OverlapInv!(u, t)!2'
  <2>1. \/ locking'[t] /\ locking[u]
        \/ {m, call[u]} = {"add", "addIndex"}
        \/ batch[u] \cap c = {} /\ ValuesIn(batch[u]) \cap ValuesIn(c) = {}
    BY <1>2, <1>5 DEF Begin, MayOverlap, ValuesApart
  <2>2. call'[u] = call[u] /\ batch'[u] = batch[u] /\ (locking'[u] <=> locking[u])
    BY <1>1, <1>5 DEF OthersSame
  <2> QED BY <1>2, <2>1, <2>2 DEF Apart
<1>6. OverlapInv'
  <2>1. ASSUME NEW u \in Thread, NEW v \in Thread, u # t, v # t
        PROVE  OverlapInv!(u, v)'
    BY <1>1, <2>1 DEF ControlInv, OverlapInv, OthersSame, Apart
  <2> QED BY <1>1, <1>5, <2>1, SMTT(30) DEF OverlapInv, OthersSame
<1> QED BY <1>1, <1>3, <1>4, <1>6 DEF ControlInv

\* The calls but for addIndex().
LEMMA CallCases ==
    ASSUME TypeOK, NEW t \in Thread, Call(t)
    PROVE  \/ AddIndex(t)
           \/ \E m \in {"add", "remove", "clear"}, c \in SUBSET Object, takesLock \in BOOLEAN :
                 /\ Begin(t, m, c, takesLock)
                 /\ c # {} \/ Object = {}
                 /\ m = "clear" => c = Object /\ ~takesLock
                 /\ takesLock => ObjectLocking /\ \E o \in Object : c = {o}
<1>1. ASSUME NEW m \in Calls, NEW o \in Object, LockingCall(t, m, o)
      PROVE  /\ Begin(t, m, {o}, TRUE) /\ {o} \in SUBSET Object /\ {o} # {} /\ ObjectLocking
             /\ m \in {"add", "remove"}
  BY <1>1 DEF LockingCall
<1>2. ASSUME NEW m \in {"add", "remove"}, NEW c \in SUBSET Object, PlainCall(t, m, c)
      PROVE  Begin(t, m, c, FALSE) /\ c # {}
  BY <1>2 DEF PlainCall
<1>3. ASSUME NEW o \in Object, RetainAllRound(t, o)
      PROVE  Begin(t, "remove", {o}, FALSE) /\ {o} \in SUBSET Object /\ {o} # {}
  BY <1>3 DEF RetainAllRound
<1>4. ASSUME ClearCall(t)
      PROVE  Begin(t, "clear", Object, FALSE) /\ Object \in SUBSET Object
  BY <1>4 DEF ClearCall
<1> QED BY <1>1, <1>2, <1>3, <1>4 DEF Call

\* addIndex() begins when nothing but add() is in progress.
LEMMA AddIndexControl ==
    ASSUME ValuesApart, ControlInv, TypeOK', NEW t \in Thread, AddIndex(t)
    PROVE  ControlInv' /\ OthersSame(t)
<1>1. OthersSame(t)
  BY DEF ControlInv, AddIndex, OthersSame, TypeOK
<1>2. /\ pc[t] = "idle" /\ pc'[t] = "init" /\ registered' = TRUE
      /\ call'[t] = "addIndex" /\ ~locking'[t] /\ batch'[t] = Object /\ storeTodo'[t] = Object
      /\ indexTodo'[t] = {} /\ UNCHANGED <<locks, entry, ref>>
  BY DEF ControlInv, LocalInv, AddIndex, TypeOK
<1>3. LocalInv'
  <2>1. LocalInv!(t)'
    BY <1>2 DEF ControlInv, LocalInv
  <2> QED BY <1>1, <1>2, <2>1 DEF ControlInv, LocalInv, OthersSame
<1>4. LockInv'
  BY <1>1, <1>2 DEF ControlInv, LockInv, OthersSame
<1>5. ASSUME NEW u \in Thread, u # t, pc[u] # "idle"
      PROVE  \/ {"addIndex", call[u]} = {"add", "addIndex"}
             \/ batch[u] \cap Object = {} /\ ValuesIn(batch[u]) \cap ValuesIn(Object) = {}
  BY <1>2, <1>5 DEF AddIndex, MayOverlap, ValuesApart
<1>6. OverlapInv'
  BY <1>1, <1>2, <1>5, SMTT(30) DEF ControlInv, OverlapInv, OthersSame, Apart
<1> QED BY <1>1, <1>3, <1>4, <1>6 DEF ControlInv

\* A call returns and unlocks its stripe.
LEMMA ReturnControl ==
    ASSUME ControlInv, TypeOK', NEW t \in Thread, Return(t)
    PROVE  ControlInv' /\ OthersSame(t)
<1>1. OthersSame(t)
  BY DEF ControlInv, Return, OthersSame, TypeOK
<1>2. /\ pc[t] \in {"index", "storeAgain"} /\ pc'[t] = "idle"
      /\ call'[t] = "add" /\ ~locking'[t] /\ batch'[t] = {} /\ storeTodo[t] = {}
      /\ indexTodo[t] = {}
      /\ UNCHANGED <<registered, storeTodo, indexTodo, entry, ref>>
      /\ \A s \in Stripe : locks[s] # t => locks'[s] = locks[s]
  BY DEF ControlInv, LocalInv, Return, Unlock, TypeOK
<1>3. LocalInv'
  <2>1. LocalInv!(t)'
    BY <1>2 DEF ControlInv, LocalInv
  <2> QED BY <1>1, <1>2, <2>1 DEF ControlInv, LocalInv, OthersSame
<1>4. LockInv'
  <2> SUFFICES ASSUME NEW u \in Thread, locking'[u]
               PROVE  LockInv!(u)!2'
    BY DEF LockInv
  <2>1. u # t /\ locking[u]
    BY <1>1, <1>2 DEF OthersSame
  <2>2. PICK o \in Object : batch[u] = {o} /\ (pc[u] # "lock" => locks[StripeOf[o]] = u)
    BY <2>1 DEF ControlInv, LockInv
  <2>3. pc'[u] # "lock" => locks'[StripeOf[o]] = u
    BY <1>1, <1>2, <2>1, <2>2, StripeAssumption DEF OthersSame
  <2> QED BY <1>1, <2>1, <2>2, <2>3 DEF ControlInv, LockInv, OthersSame
<1>5. OverlapInv'
  BY <1>1, <1>2 DEF ControlInv, OverlapInv, OthersSame, Apart
<1> QED BY <1>1, <1>3, <1>4, <1>5 DEF ControlInv

\* The other steps of a call.
LEMMA StepControl ==
    ASSUME ControlInv, NEW t \in Thread, Step(t), ~Return(t)
    PROVE  ControlInv' /\ Going(t)
<1>1. TypeOK'
  BY TypeStep DEF ControlInv
<1>2. Going(t) /\ LocalInv!(t)'
  <2>1. CASE \E o \in Object : Lock(t, o) \/ StoreStep(t, o) \/ InitVisit(t, o)
    BY <2>1, LocalLock, LocalStore, LocalInitVisit DEF ControlInv
  <2>2. CASE InitNext(t) \/ ForEachIndexDo(t)
    BY <2>2, LocalInitNext, LocalForEach DEF ControlInv
  <2>3. CASE \E e \in Entries(Object) : Lookup(t, e)
    BY <2>3, LocalLookup DEF ControlInv
  <2>4. CASE \E s \in ValueSet : PutIfAbsent(t, s)
    BY <2>4, LocalPut DEF ControlInv
  <2>5. CASE ApplyAdd(t) \/ Drop(t)
    BY <2>5, LocalNextEntry DEF ControlInv, ApplyAdd, Drop
  <2>6. CASE ApplyRemove(t) \/ IsEmpty(t)
    BY <2>6, LocalApplyRemove, LocalIsEmpty DEF ControlInv
  <2>7. CASE ClearFallback(t) \/ \E a \in AttributeValue : ClearKey(t, a)
    BY <2>7, LocalClear DEF ControlInv
  <2> QED BY <2>1, <2>2, <2>3, <2>4, <2>5, <2>6, <2>7 DEF Step
<1>3. CASE \E o \in Object : Lock(t, o)
  <2>1. PICK o \in Object : Lock(t, o)
    BY <1>3
  <2>2. /\ \A s \in Stripe : locks[s] # NoThread => locks'[s] = locks[s]
        /\ locks'[StripeOf[o]] = t /\ batch[t] = {o}
    BY <2>1, StripeAssumption DEF ControlInv, Lock, TypeOK
  <2>3. \A q \in Object : batch[t] = {q} => locks'[StripeOf[q]] = t
    BY <2>2
  <2> QED BY <1>1, <1>2, <2>2, <2>3, GoingControl
<1>4. CASE ~\E o \in Object : Lock(t, o)
  <2>1. UNCHANGED locks /\ pc[t] # "lock"
    BY <1>4 DEF Step, StoreStep, InitVisit, InitNext, ForEachIndexDo, Lookup, PutIfAbsent, ApplyAdd,
       ApplyRemove, IsEmpty, Drop, ClearKey, ClearFallback
  <2>2. locking[t] => \A o \in Object : batch[t] = {o} => locks'[StripeOf[o]] = t
    BY <2>1 DEF ControlInv, LockInv
  <2> QED BY <1>1, <1>2, <2>1, <2>2, GoingControl
<1> QED BY <1>3, <1>4

-----------------------------------------------------------------------------
(* Contents: what the store and the index hold                             *)

ContentInv == MapInv /\ StoreInv /\ UnindexInv /\ IndexInv /\ EmptyInv

\* A thread's work on the contents is its own.
LEMMA OthersWork ==
    ASSUME NEW t \in Thread, NEW u \in Thread, OthersSame(t), u # t
    PROVE  /\ \A e : (Unindexing(u, e)' <=> Unindexing(u, e)) /\ (Indexing(u, e)' <=> Indexing(u, e))
           /\ \A a : Emptying(u, a)' <=> Emptying(u, a)
BY DEF OthersSame, Unindexing, Indexing, Emptying, Pending

\* What is out of step between store and index is accounted for by the thread that
\* takes the step, or was so before by another.
LEMMA WorkFrame ==
    ASSUME UnindexInv, IndexInv, EmptyInv, NEW t \in Thread, OthersSame(t),
           \A o \in Object : \A a \in Values[o] :
               /\ (o \in RetrieveEqual(a) \ store)' =>
                     \/ Unindexing(t, <<o, a>>)'
                     \/ o \in RetrieveEqual(a) \ store /\ ~Unindexing(t, <<o, a>>)
               /\ (registered /\ o \in store \ RetrieveEqual(a))' =>
                     \/ Indexing(t, <<o, a>>)'
                     \/ registered /\ o \in store \ RetrieveEqual(a) /\ ~Indexing(t, <<o, a>>),
           \A a \in AttributeValue :
               (indexMap[a] # NoValueSet /\ valueSet[indexMap[a]] = {})' =>
                     \/ Emptying(t, a)'
                     \/ indexMap[a] # NoValueSet /\ valueSet[indexMap[a]] = {} /\ ~Emptying(t, a)
    PROVE  UnindexInv' /\ IndexInv' /\ EmptyInv'
<1>1. ASSUME NEW o \in Object, NEW a \in Values[o], o \in RetrieveEqual(a)' \ store'
      PROVE  \E u \in Thread : Unindexing(u, <<o, a>>)'
  <2>1. CASE Unindexing(t, <<o, a>>)'
    BY <2>1
  <2>2. CASE o \in RetrieveEqual(a) \ store /\ ~Unindexing(t, <<o, a>>)
    <3>1. PICK u \in Thread : Unindexing(u, <<o, a>>)
      BY <2>2 DEF UnindexInv
    <3>2. u # t
      BY <2>2, <3>1
    <3> QED BY <3>1, <3>2, OthersWork
  <2> QED BY <1>1, <2>1, <2>2
<1>2. ASSUME NEW o \in Object, NEW a \in Values[o], registered', o \in store' \ RetrieveEqual(a)'
      PROVE  \E u \in Thread : Indexing(u, <<o, a>>)'
  <2>1. CASE Indexing(t, <<o, a>>)'
    BY <2>1
  <2>2. CASE registered /\ o \in store \ RetrieveEqual(a) /\ ~Indexing(t, <<o, a>>)
    <3>1. PICK u \in Thread : Indexing(u, <<o, a>>)
      BY <2>2 DEF IndexInv
    <3>2. u # t
      BY <2>2, <3>1
    <3> QED BY <3>1, <3>2, OthersWork
  <2> QED BY <1>2, <2>1, <2>2
<1>3. ASSUME NEW a \in AttributeValue, (indexMap[a] # NoValueSet /\ valueSet[indexMap[a]] = {})'
      PROVE  \E u \in Thread : Emptying(u, a)'
  <2>1. CASE Emptying(t, a)'
    BY <2>1
  <2>2. CASE indexMap[a] # NoValueSet /\ valueSet[indexMap[a]] = {} /\ ~Emptying(t, a)
    <3>1. PICK u \in Thread : Emptying(u, a)
      BY <2>2 DEF EmptyInv
    <3>2. u # t
      BY <2>2, <3>1
    <3> QED BY <3>1, <3>2, OthersWork
  <2> QED BY <1>3, <2>1, <2>2
<1> QED BY <1>1, <1>2, <1>3 DEF UnindexInv, IndexInv, EmptyInv

\* A step that changes neither store nor index.
LEMMA QuietContent ==
    ASSUME ContentInv, NEW t \in Thread, OthersSame(t),
           UNCHANGED <<store, registered, indexMap, valueSet>>,
           \A o \in Object : \A a \in Values[o] :
               /\ o \in RetrieveEqual(a) /\ Unindexing(t, <<o, a>>) => Unindexing(t, <<o, a>>)'
               /\ registered /\ o \in store /\ Indexing(t, <<o, a>>) => Indexing(t, <<o, a>>)',
           \A a \in AttributeValue :
               valueSet[indexMap[a]] = {} /\ Emptying(t, a) => Emptying(t, a)',
           ref'[t] # NoValueSet => ref'[t] = indexMap[entry'[t][2]],
           pc'[t] = "drop" => valueSet[ref'[t]] = {},
           ~registered =>
               entry'[t] = NoEntry /\ (pc'[t] \in {"index", "clearMap"} => indexTodo'[t] = {}),
           StoreInv!(t)'
    PROVE  ContentInv'
<1>1. \A a : RetrieveEqual(a)' = RetrieveEqual(a)
  BY DEF RetrieveEqual
<1>2. UnindexInv' /\ IndexInv' /\ EmptyInv'
  <2>1. \A o \in Object : \A a \in Values[o] :
               /\ (o \in RetrieveEqual(a) \ store)' =>
                     \/ Unindexing(t, <<o, a>>)'
                     \/ o \in RetrieveEqual(a) \ store /\ ~Unindexing(t, <<o, a>>)
               /\ (registered /\ o \in store \ RetrieveEqual(a))' =>
                     \/ Indexing(t, <<o, a>>)'
                     \/ registered /\ o \in store \ RetrieveEqual(a) /\ ~Indexing(t, <<o, a>>)
    BY <1>1
  <2>2. \A a \in AttributeValue :
               (indexMap[a] # NoValueSet /\ valueSet[indexMap[a]] = {})' =>
                     \/ Emptying(t, a)'
                     \/ indexMap[a] # NoValueSet /\ valueSet[indexMap[a]] = {} /\ ~Emptying(t, a)
    OBVIOUS
  <2> QED BY <2>1, <2>2, WorkFrame DEF ContentInv
<1>3. MapInv'
  BY SMTT(30) DEF ContentInv, MapInv, OthersSame
<1>4. StoreInv'
  BY DEF ContentInv, StoreInv, OthersSame
<1> QED BY <1>2, <1>3, <1>4 DEF ContentInv

\* A call begins.
LEMMA BeginContent ==
    ASSUME ControlInv, ContentInv, NEW t \in Thread, NEW m \in {"add", "remove", "clear"},
           NEW c \in SUBSET Object, NEW takesLock \in BOOLEAN, Begin(t, m, c, takesLock),
           OthersSame(t)
    PROVE  ContentInv'
<1>1. /\ UNCHANGED <<store, registered, indexMap, valueSet, entry, ref>>
      /\ pc[t] = "idle" /\ pc'[t] \in {"lock", "store"} /\ call'[t] = m /\ batch'[t] = c
      /\ storeTodo'[t] = c
  BY DEF ControlInv, Begin, TypeOK
<1>2. /\ call[t] = "add" /\ indexTodo[t] = {} /\ entry[t] = NoEntry /\ ref[t] = NoValueSet
  BY <1>1 DEF ControlInv, LocalInv
<1>3. /\ \A e : ~Unindexing(t, e) /\ ~Indexing(t, e)
      /\ \A a : ~Emptying(t, a)
  BY <1>1, <1>2 DEF Unindexing, Indexing, Emptying, Pending
<1>4. StoreInv!(t)'
  BY <1>1
<1> QED BY <1>1, <1>2, <1>3, <1>4, QuietContent

\* It returns.
LEMMA ReturnContent ==
    ASSUME ControlInv, ContentInv, NEW t \in Thread, Return(t), OthersSame(t)
    PROVE  ContentInv'
<1>1. /\ UNCHANGED <<store, registered, indexMap, valueSet, entry, ref, indexTodo, storeTodo>>
      /\ pc[t] \in {"index", "storeAgain"} /\ pc'[t] = "idle"
      /\ storeTodo[t] = {} /\ indexTodo[t] = {} /\ entry[t] = NoEntry /\ ref[t] = NoValueSet
  BY DEF ControlInv, LocalInv, Return, TypeOK
<1>2. /\ \A e : ~Unindexing(t, e) /\ ~Indexing(t, e)
      /\ \A a : ~Emptying(t, a)
  BY <1>1 DEF Unindexing, Indexing, Emptying, Pending
<1> QED BY <1>1, <1>2, QuietContent

\* It gets its lock.
LEMMA LockContent ==
    ASSUME ControlInv, ContentInv, NEW t \in Thread, NEW o \in Object, Lock(t, o), Going(t)
    PROVE  ContentInv'
<1>1. /\ UNCHANGED <<store, registered, indexMap, valueSet, entry, ref, indexTodo, storeTodo, call,
                     batch>>
      /\ pc[t] = "lock" /\ pc'[t] = "store" /\ entry[t] = NoEntry /\ ref[t] = NoValueSet
      /\ storeTodo[t] = batch[t] /\ call[t] # "addIndex" /\ OthersSame(t)
  BY DEF ControlInv, LocalInv, Lock, TypeOK, Going
<1>2. /\ \A e : (Unindexing(t, e) => Unindexing(t, e)') /\ (Indexing(t, e) => Indexing(t, e)')
      /\ \A a : ~Emptying(t, a)
  BY <1>1 DEF Unindexing, Indexing, Emptying, Pending
<1>3. StoreInv!(t)'
  BY <1>1
<1> QED BY <1>1, <1>2, <1>3, QuietContent

\* init() of a new index comes by an object: if it is in the store, its entries are next.
LEMMA InitVisitContent ==
    ASSUME ControlInv, ContentInv, NEW t \in Thread, NEW o \in Object, InitVisit(t, o), Going(t)
    PROVE  ContentInv'
<1>1. /\ UNCHANGED <<store, registered, indexMap, valueSet, entry, ref, call, batch>>
      /\ pc[t] = "init" /\ pc'[t] = "index" /\ entry[t] = NoEntry /\ ref[t] = NoValueSet
      /\ indexTodo[t] = {} /\ call[t] = "addIndex" /\ registered /\ OthersSame(t)
      /\ storeTodo'[t] = storeTodo[t] \ {o}
      /\ indexTodo'[t] = IF o \in store THEN Entries({o}) ELSE {}
  BY DEF ControlInv, LocalInv, InitVisit, TypeOK, Going
<1>2. /\ \A e : ~Unindexing(t, e)
      /\ \A a : ~Emptying(t, a)
  BY <1>1 DEF Unindexing, Emptying
<1>3. ASSUME NEW q \in Object, NEW a \in Values[q], q \in store, Indexing(t, <<q, a>>)
      PROVE  Indexing(t, <<q, a>>)'
  <2>1. <<q, a>>[1] = q /\ q \in storeTodo[t]
    BY <1>1, <1>3 DEF Indexing, Pending
  <2>2. CASE q = o
    <3>1. <<q, a>> \in Entries({o})
      BY <2>2, EntryShape
    <3> QED BY <1>1, <1>3, <2>2, <3>1 DEF Indexing, Pending
  <2>3. CASE q # o
    BY <1>1, <2>1, <2>3 DEF Indexing
  <2> QED BY <2>2, <2>3
<1>4. StoreInv!(t)'
  BY <1>1, EntryShape
<1> QED BY <1>1, <1>2, <1>3, <1>4, QuietContent

\* On to the next object.
LEMMA InitNextContent ==
    ASSUME ControlInv, ContentInv, NEW t \in Thread, InitNext(t), Going(t)
    PROVE  ContentInv'
<1>1. /\ UNCHANGED <<store, registered, indexMap, valueSet, entry, ref, indexTodo, storeTodo, call,
                     batch>>
      /\ pc[t] = "index" /\ pc'[t] = "init" /\ entry[t] = NoEntry /\ ref[t] = NoValueSet
      /\ call[t] = "addIndex" /\ registered /\ OthersSame(t)
  BY DEF ControlInv, LocalInv, InitNext, TypeOK, Going
<1>2. /\ \A e : (Unindexing(t, e) => Unindexing(t, e)') /\ (Indexing(t, e) => Indexing(t, e)')
      /\ \A a : ~Emptying(t, a)
  BY <1>1 DEF Unindexing, Indexing, Emptying, Pending
<1>3. StoreInv!(t)'
  BY <1>1 DEF ContentInv, StoreInv
<1> QED BY <1>1, <1>2, <1>3, QuietContent

\* An index that is not registered yet is passed by.
LEMMA ForEachContent ==
    ASSUME ControlInv, ContentInv, NEW t \in Thread, ForEachIndexDo(t), Going(t)
    PROVE  ContentInv'
<1>1. /\ UNCHANGED <<store, registered, indexMap, valueSet, entry, ref, storeTodo, call, batch>>
      /\ pc[t] = "forEachIndex" /\ pc'[t] \in {"index", "clearMap"} /\ entry[t] = NoEntry
      /\ ref[t] = NoValueSet
      /\ call[t] # "addIndex" /\ OthersSame(t)
      /\ registered => indexTodo'[t] = indexTodo[t]
      /\ ~registered => indexTodo'[t] = {}
  BY DEF ControlInv, LocalInv, ForEachIndexDo, TypeOK, Going
<1>2. ASSUME NEW o \in Object, NEW a \in Values[o]
      PROVE  /\ o \in RetrieveEqual(a) /\ Unindexing(t, <<o, a>>) => Unindexing(t, <<o, a>>)'
             /\ registered /\ Indexing(t, <<o, a>>) => Indexing(t, <<o, a>>)'
  <2>1. CASE registered
    BY <1>1, <2>1 DEF Unindexing, Indexing, Pending
  <2>2. CASE ~registered
    <3>1. a \in AttributeValue
      BY ValuesAssumption
    <3>2. RetrieveEqual(a) = {}
      BY <2>2, <3>1 DEF RetrieveEqual, ContentInv, MapInv
    <3> QED BY <2>2, <3>2
  <2> QED BY <2>1, <2>2
<1>3. \A a : ~Emptying(t, a)
  BY <1>1 DEF Emptying
<1>4. StoreInv!(t)'
  BY <1>1 DEF ContentInv, StoreInv
<1> QED BY <1>1, <1>2, <1>3, <1>4, QuietContent

\* The set for an attribute value is looked up; if there is none, nothing is to be removed.
LEMMA LookupContent ==
    ASSUME ControlInv, ContentInv, NEW t \in Thread, NEW e \in Entries(Object), Lookup(t, e), Going(t)
    PROVE  ContentInv'
<1>1. /\ UNCHANGED <<store, registered, indexMap, valueSet, storeTodo, call, batch>>
      /\ pc[t] = "index" /\ e \in indexTodo[t] /\ entry[t] = NoEntry /\ ref[t] = NoValueSet
      /\ indexTodo'[t] = indexTodo[t] \ {e} /\ call[t] # "clear" /\ OthersSame(t)
  BY DEF ControlInv, LocalInv, Lookup, TypeOK, Going
<1>2. \/ /\ indexMap[e[2]] = NoValueSet /\ call[t] = "remove"
         /\ pc'[t] = "index" /\ entry'[t] = NoEntry /\ ref'[t] = NoValueSet
      \/ /\ pc'[t] = "put" /\ entry'[t] = e /\ ref'[t] = NoValueSet
      \/ /\ pc'[t] = "apply" /\ entry'[t] = e /\ ref'[t] = indexMap[e[2]]
  BY <1>1 DEF ControlInv, Lookup, TypeOK
<1>3. registered
  BY <1>1 DEF ContentInv, MapInv
<1>4. ASSUME NEW o \in Object, NEW a \in Values[o]
      PROVE  /\ o \in RetrieveEqual(a) /\ Unindexing(t, <<o, a>>) => Unindexing(t, <<o, a>>)'
             /\ registered /\ o \in store /\ Indexing(t, <<o, a>>) => Indexing(t, <<o, a>>)'
  <2>1. CASE e = <<o, a>>
    <3>1. e[2] = a
      BY <2>1
    <3>2. CASE pc'[t] \in {"put", "apply"}
      BY <1>1, <1>2, <2>1, <3>2 DEF Unindexing, Indexing, Pending
    <3>3. CASE indexMap[e[2]] = NoValueSet /\ call[t] = "remove"
      BY <1>1, <3>1, <3>3 DEF RetrieveEqual, Indexing
    <3> QED BY <1>2, <3>2, <3>3
  <2>2. CASE e # <<o, a>>
    BY <1>1, <2>2 DEF Unindexing, Indexing, Pending
  <2> QED BY <2>1, <2>2
<1>5. \A a : ~Emptying(t, a)
  BY <1>1 DEF Emptying
<1>6. StoreInv!(t)'
  BY <1>1, <1>2 DEF ContentInv, StoreInv
<1> QED BY <1>1, <1>2, <1>3, <1>4, <1>5, <1>6, QuietContent

\* The set is found empty, or not.
LEMMA IsEmptyContent ==
    ASSUME ControlInv, ContentInv, NEW t \in Thread, IsEmpty(t), Going(t)
    PROVE  ContentInv'
<1>1. /\ UNCHANGED <<store, registered, indexMap, valueSet, indexTodo, storeTodo, call, batch>>
      /\ pc[t] = "isEmpty" /\ call[t] = "remove" /\ ref[t] # NoValueSet /\ OthersSame(t)
      /\ entry[t] \in Entries(batch[t]) /\ batch[t] \subseteq Object
      /\ ref[t] = indexMap[entry[t][2]]
      /\ \/ /\ valueSet[ref[t]] = {} /\ pc'[t] = "drop" /\ UNCHANGED <<entry, ref>>
         \/ /\ valueSet[ref[t]] # {} /\ pc'[t] = "index" /\ entry'[t] = NoEntry
            /\ ref'[t] = NoValueSet
  BY DEF ControlInv, LocalInv, ContentInv, MapInv, IsEmpty, NextEntry, TypeOK, Going
<1>2. entry[t] # NoEntry /\ registered
  BY <1>1, EntryShape DEF ContentInv, MapInv
<1>3. \A e : (Unindexing(t, e) => Unindexing(t, e)') /\ ~Indexing(t, e)
  BY <1>1 DEF Unindexing, Indexing, Pending
<1>4. ASSUME NEW a \in AttributeValue, valueSet[indexMap[a]] = {}, Emptying(t, a)
      PROVE  Emptying(t, a)'
  BY <1>1, <1>4 DEF Emptying
<1>5. StoreInv!(t)'
  BY <1>1 DEF ContentInv, StoreInv
<1> QED BY <1>1, <1>2, <1>3, <1>4, <1>5, QuietContent

\* clear() turns to the fallback index.
LEMMA ClearFallbackContent ==
    ASSUME ControlInv, ContentInv, NEW t \in Thread, ClearFallback(t), Going(t)
    PROVE  ContentInv'
<1>1. /\ UNCHANGED <<store, registered, indexMap, valueSet, entry, ref, indexTodo, call, batch>>
      /\ pc[t] = "clearMap" /\ pc'[t] = "storeAgain" /\ indexTodo[t] = {} /\ call[t] = "clear"
      /\ entry[t] = NoEntry /\ ref[t] = NoValueSet /\ OthersSame(t)
  BY DEF ControlInv, LocalInv, ClearFallback, TypeOK, Going
<1>2. /\ \A e : ~Unindexing(t, e) /\ ~Indexing(t, e)
      /\ \A a : ~Emptying(t, a)
  BY <1>1 DEF Unindexing, Indexing, Emptying, Pending
<1>3. StoreInv!(t)'
  BY <1>1 DEF ContentInv, StoreInv
<1> QED BY <1>1, <1>2, <1>3, QuietContent

\* One object is added to the store or removed from it; no other call is about it, but
\* for an addIndex() if it is added.
LEMMA StoreContent ==
    ASSUME ValuesApart, ControlInv, ContentInv, NEW t \in Thread, NEW o \in Object,
           StoreStep(t, o), Going(t)
    PROVE  ContentInv'
<1>1. /\ UNCHANGED <<registered, indexMap, valueSet, entry, ref, indexTodo, call, batch>>
      /\ pc[t] \in {"store", "storeAgain"} /\ pc'[t] \in {pc[t], "forEachIndex"}
      /\ o \in storeTodo[t] /\ storeTodo'[t] = storeTodo[t] \ {o}
      /\ storeTodo'[t] # {} \/ pc[t] = "storeAgain" => pc'[t] = pc[t]
      /\ store' = IF call[t] = "add" THEN store \cup {o} ELSE store \ {o}
      /\ OthersSame(t)
  BY DEF ControlInv, StoreStep, TypeOK, Going
<1>2. /\ o \in batch[t] /\ call[t] # "addIndex" /\ entry[t] = NoEntry /\ ref[t] = NoValueSet
      /\ pc[t] = "store" => indexTodo[t] = Entries(batch[t])
      /\ pc[t] = "storeAgain" => call[t] = "clear" /\ indexTodo[t] = {}
      /\ batch[t] \subseteq Object /\ call[t] \in {"add", "remove", "clear"}
  BY <1>1 DEF ControlInv, LocalInv, TypeOK
<1>3. pc[t] = "storeAgain" => store' = store
  BY <1>1, <1>2 DEF ContentInv, StoreInv
<1>4. StoreInv'
  <2>1. StoreInv!(t)'
    <3>1. CASE call[t] = "add"
      BY <1>1, <1>2, <3>1 DEF ContentInv, StoreInv
    <3>2. CASE call[t] # "add"
      BY <1>1, <1>2, <3>2 DEF ContentInv, StoreInv
    <3> QED BY <3>1, <3>2
  <2>2. ASSUME NEW u \in Thread, u # t, pc[u] \notin {"idle", "lock"}
        PROVE  StoreInv!(u)!2'
    <3>1. /\ pc'[u] = pc[u] /\ call'[u] = call[u] /\ batch'[u] = batch[u]
          /\ storeTodo'[u] = storeTodo[u] /\ indexTodo'[u] = indexTodo[u] /\ entry'[u] = entry[u]
      BY <1>1, <2>2 DEF OthersSame
    <3>2. StoreInv!(u)!2
      BY <2>2 DEF ContentInv, StoreInv
    <3>3. CASE o \notin batch[u]
      <4>1. call[u] = "addIndex" => o \in batch[u]
        BY DEF ControlInv, LocalInv
      <4> QED BY <1>1, <3>1, <3>2, <3>3, <4>1
    <3>4. CASE o \in batch[u]
      <4>1. call[t] = "add" /\ call[u] = "addIndex"
        BY <1>1, <1>2, <2>2, <3>4, Exclusion DEF ControlInv, Apart
      <4> QED BY <1>1, <3>1, <3>2, <4>1
    <3> QED BY <3>3, <3>4
  <2> QED BY <1>1, <2>1, <2>2 DEF StoreInv, OthersSame
<1>5. \A e : /\ Unindexing(t, e) <=> Unindexing(t, e)'
             /\ Indexing(t, e) <=> Indexing(t, e)'
  BY <1>1, <1>2 DEF Unindexing, Indexing, Pending
<1>6. UnindexInv' /\ IndexInv' /\ EmptyInv'
  <2>1. \A a : RetrieveEqual(a)' = RetrieveEqual(a)
    BY <1>1 DEF RetrieveEqual
  <2>2. ASSUME NEW q \in Object, NEW a \in Values[q]
        PROVE  /\ (q \in RetrieveEqual(a) \ store)' =>
                     \/ Unindexing(t, <<q, a>>)'
                     \/ q \in RetrieveEqual(a) \ store /\ ~Unindexing(t, <<q, a>>)
               /\ (registered /\ q \in store \ RetrieveEqual(a))' =>
                     \/ Indexing(t, <<q, a>>)'
                     \/ registered /\ q \in store \ RetrieveEqual(a) /\ ~Indexing(t, <<q, a>>)
    <3>1. CASE q = o /\ pc[t] = "store"
      <4>1. <<q, a>> \in indexTodo'[t]
        BY <1>1, <1>2, <3>1, EntryShape
      <4>2. CASE call[t] = "add"
        BY <1>1, <3>1, <4>1, <4>2 DEF Indexing, Pending
      <4>3. CASE call[t] \in {"remove", "clear"}
        BY <1>1, <3>1, <4>1, <4>3 DEF Unindexing, Pending
      <4> QED BY <1>2, <4>2, <4>3
    <3>2. CASE q # o \/ pc[t] = "storeAgain"
      BY <1>1, <1>3, <1>5, <2>1, <3>2
    <3> QED BY <1>1, <3>1, <3>2
  <2>3. \A a : ~Emptying(t, a)
    BY <1>1, <1>2 DEF Emptying
  <2>4. \A a \in AttributeValue :
            (indexMap[a] # NoValueSet /\ valueSet[indexMap[a]] = {})' =>
                  \/ Emptying(t, a)'
                  \/ indexMap[a] # NoValueSet /\ valueSet[indexMap[a]] = {} /\ ~Emptying(t, a)
    BY <1>1, <2>3
  <2> QED BY <1>1, <2>2, <2>4, WorkFrame DEF ContentInv
<1>7. MapInv'
  BY <1>1, <1>2 DEF ContentInv, MapInv, OthersSame
<1> QED BY <1>4, <1>6, <1>7 DEF ContentInv

\* A step that leaves the store alone.
LEMMA StoreSame ==
    ASSUME ContentInv, NEW t \in Thread, OthersSame(t), UNCHANGED store, StoreInv!(t)'
    PROVE  StoreInv'
BY DEF ContentInv, StoreInv, OthersSame

\* A new set is put into the map.
LEMMA PutContent ==
    ASSUME ControlInv, ContentInv, NEW t \in Thread, NEW s \in ValueSet, PutIfAbsent(t, s), Going(t)
    PROVE  ContentInv'
<1> DEFINE b == entry[t][2]
<1>1. /\ UNCHANGED <<store, registered, entry, indexTodo, storeTodo, call, batch>>
      /\ pc[t] = "put" /\ pc'[t] = "apply" /\ call[t] # "remove" /\ ref'[t] = s
      /\ entry[t] \in Entries(batch[t]) /\ batch[t] \subseteq Object /\ OthersSame(t)
      /\ indexMap \in [AttributeValue -> ValueSet \cup {NoValueSet}]
      /\ valueSet \in [ValueSet -> SUBSET Object] /\ s # NoValueSet
  BY ValueSetAssumption DEF ControlInv, LocalInv, PutIfAbsent, TypeOK, Going
<1>2. b \in AttributeValue /\ entry[t] # NoEntry /\ registered
  BY <1>1, EntryShape DEF ContentInv, MapInv
<1>3. \/ indexMap[b] = s /\ UNCHANGED <<indexMap, valueSet>>
      \/ /\ indexMap[b] = NoValueSet
         /\ \A a \in AttributeValue : indexMap[a] # s
         /\ \A u \in Thread : ref[u] # s
         /\ indexMap' = [indexMap EXCEPT ![b] = s]
         /\ valueSet' = [valueSet EXCEPT ![s] = {}]
  BY <1>1 DEF PutIfAbsent, Unreferenced
<1>4. /\ indexMap'[b] = s
      /\ \A a \in AttributeValue : a # b => indexMap'[a] = indexMap[a]
      /\ \A a \in AttributeValue : /\ indexMap'[a] = s => a = b
                                   /\ indexMap[a] # NoValueSet =>
                                         /\ indexMap'[a] = indexMap[a]
                                         /\ valueSet'[indexMap[a]] = valueSet[indexMap[a]]
      /\ \A u \in Thread : ref[u] \in ValueSet => valueSet'[ref[u]] = valueSet[ref[u]]
  BY <1>1, <1>2, <1>3 DEF ContentInv, MapInv
<1>5. \A a \in AttributeValue : RetrieveEqual(a)' = RetrieveEqual(a)
  <2> SUFFICES ASSUME NEW a \in AttributeValue, indexMap[a] = NoValueSet
               PROVE  RetrieveEqual(a)' = RetrieveEqual(a)
    BY <1>4 DEF RetrieveEqual
  <2>1. CASE a = b
    <3>1. valueSet'[s] = {} /\ indexMap'[b] = s
      BY <1>1, <1>3, <1>4, <2>1
    <3> QED BY <1>1, <2>1, <3>1 DEF RetrieveEqual
  <2>2. CASE a # b
    BY <1>4, <2>2 DEF RetrieveEqual
  <2> QED BY <2>1, <2>2
<1>6. MapInv'
  <2>1. \A a, c \in AttributeValue :
            indexMap'[a] = indexMap'[c] /\ indexMap'[a] # NoValueSet => a = c
    BY <1>4 DEF ContentInv, MapInv
  <2>2. ASSUME NEW u \in Thread, u # t
        PROVE  MapInv!2!(u)'
    <3>1. ref'[u] = ref[u] /\ entry'[u] = entry[u] /\ pc'[u] = pc[u]
      BY <1>1, <2>2 DEF OthersSame
    <3>2. CASE ref[u] # NoValueSet
      <4>1. ref[u] \in ValueSet /\ entry[u] \in Entries(batch[u]) /\ batch[u] \subseteq Object
        BY <3>2 DEF ControlInv, LocalInv, TypeOK
      <4>2. entry[u][2] \in AttributeValue
        BY <4>1, EntryShape
      <4>3. MapInv!2!(u)
        BY DEF ContentInv, MapInv
      <4> QED BY <1>4, <3>1, <3>2, <4>1, <4>2, <4>3
    <3>3. CASE ref[u] = NoValueSet
      BY <3>1, <3>3 DEF ControlInv, LocalInv
    <3> QED BY <3>2, <3>3
  <2>3. MapInv!2!(t)'
    BY <1>1, <1>4
  <2> QED BY <1>1, <1>2, <2>1, <2>2, <2>3 DEF MapInv
<1>7. StoreInv'
  <2>1. StoreInv!(t)'
    BY <1>1 DEF ContentInv, StoreInv
  <2> QED BY <1>1, <2>1, StoreSame
<1>8. \A e : (Unindexing(t, e) => Unindexing(t, e)') /\ (Indexing(t, e) => Indexing(t, e)')
  BY <1>1 DEF Unindexing, Indexing, Pending
<1>9. UnindexInv' /\ IndexInv' /\ EmptyInv'
  <2>1. ASSUME NEW q \in Object, NEW a \in Values[q]
        PROVE  /\ (q \in RetrieveEqual(a) \ store)' =>
                     \/ Unindexing(t, <<q, a>>)'
                     \/ q \in RetrieveEqual(a) \ store /\ ~Unindexing(t, <<q, a>>)
               /\ (registered /\ q \in store \ RetrieveEqual(a))' =>
                     \/ Indexing(t, <<q, a>>)'
                     \/ registered /\ q \in store \ RetrieveEqual(a) /\ ~Indexing(t, <<q, a>>)
    <3>1. a \in AttributeValue
      BY ValuesAssumption
    <3> QED BY <1>1, <1>5, <1>8, <3>1
  <2>2. ASSUME NEW a \in AttributeValue, (indexMap[a] # NoValueSet /\ valueSet[indexMap[a]] = {})'
        PROVE  \/ Emptying(t, a)'
               \/ indexMap[a] # NoValueSet /\ valueSet[indexMap[a]] = {} /\ ~Emptying(t, a)
    <3>1. ~Emptying(t, a)
      BY <1>1 DEF Emptying
    <3>2. CASE a = b
      BY <1>1, <1>2, <3>2 DEF Emptying
    <3>3. CASE a # b
      BY <1>4, <2>2, <3>1, <3>3
    <3> QED BY <3>2, <3>3
  <2> QED BY <1>1, <2>1, <2>2, WorkFrame DEF ContentInv
<1> QED BY <1>6, <1>7, <1>9 DEF ContentInv

\* A thread that has looked up a set is at work on the set of its attribute value, and on
\* no other value's.
LEMMA SetLookedUp ==
    ASSUME ControlInv, ContentInv, NEW t \in Thread, pc[t] \in {"apply", "isEmpty", "drop"}
    PROVE  /\ entry[t] \in Entries(batch[t]) /\ batch[t] \subseteq Object /\ entry[t] # NoEntry
           /\ entry[t] = <<entry[t][1], entry[t][2]>> /\ entry[t][1] \in batch[t]
           /\ entry[t][2] \in AttributeValue /\ entry[t][2] \in Values[entry[t][1]]
           /\ ref[t] = indexMap[entry[t][2]] /\ ref[t] \in ValueSet /\ ref[t] # NoValueSet
           /\ \A a \in AttributeValue : indexMap[a] = ref[t] => a = entry[t][2]
           /\ registered
           /\ indexMap \in [AttributeValue -> ValueSet \cup {NoValueSet}]
           /\ valueSet \in [ValueSet -> SUBSET Object]
<1>1. /\ entry[t] \in Entries(batch[t]) /\ batch[t] \subseteq Object
      /\ ref[t] \in ValueSet /\ ref[t] # NoValueSet
      /\ indexMap \in [AttributeValue -> ValueSet \cup {NoValueSet}]
      /\ valueSet \in [ValueSet -> SUBSET Object]
  BY ValueSetAssumption DEF ControlInv, LocalInv, TypeOK
<1>2. /\ entry[t] = <<entry[t][1], entry[t][2]>> /\ entry[t][1] \in batch[t] /\ entry[t] # NoEntry
      /\ entry[t][2] \in AttributeValue /\ entry[t][2] \in Values[entry[t][1]]
  BY <1>1, EntryShape
<1>3. ref[t] = indexMap[entry[t][2]] /\ registered
  BY <1>1, <1>2 DEF ContentInv, MapInv
<1>4. \A a \in AttributeValue : indexMap[a] = ref[t] => a = entry[t][2]
  BY <1>1, <1>2, <1>3 DEF ContentInv, MapInv
<1> QED BY <1>1, <1>2, <1>3, <1>4

\* While a call removes an entry with an attribute value, no other thread has looked up
\* the set of that value.
LEMMA NoOtherLookup ==
    ASSUME ValuesApart, ControlInv, ContentInv, NEW t \in Thread, NEW u \in Thread, u # t,
           pc[t] \in {"apply", "isEmpty", "drop"}, call[t] = "remove",
           pc[u] \in {"apply", "isEmpty", "drop"}
    PROVE  entry[u][2] # entry[t][2]
<1>1. entry[t] \in Entries(batch[t]) /\ entry[u] \in Entries(batch[u])
  BY SetLookedUp
<1> QED BY <1>1, Alone DEF ControlInv

\* An object that is in the store is added to its set.
LEMMA ApplyAddContent ==
    ASSUME ValuesApart, ControlInv, ContentInv, NEW t \in Thread, ApplyAdd(t), Going(t)
    PROVE  ContentInv'
<1> DEFINE o == entry[t][1]
           b == entry[t][2]
<1>1. /\ UNCHANGED <<store, registered, indexMap, indexTodo, storeTodo, call, batch>>
      /\ pc[t] = "apply" /\ pc'[t] = "index" /\ call[t] # "remove"
      /\ entry'[t] = NoEntry /\ ref'[t] = NoValueSet /\ OthersSame(t)
      /\ valueSet' = [valueSet EXCEPT ![ref[t]] = @ \cup {o}]
  BY DEF ControlInv, ApplyAdd, NextEntry, TypeOK, Going
<1>2. /\ b \in AttributeValue /\ entry[t] = <<o, b>> /\ o \in Object
      /\ indexMap[b] = ref[t] /\ ref[t] \in ValueSet /\ ref[t] # NoValueSet /\ registered
      /\ \A a \in AttributeValue : indexMap[a] = ref[t] => a = b
  BY <1>1, SetLookedUp
<1>3. call[t] \in {"add", "addIndex"} /\ o \in store
  <2>1. /\ call[t] \in {"add", "addIndex"} /\ o \in batch[t]
        /\ call[t] = "add" => storeTodo[t] = {}
    BY <1>1, SetLookedUp DEF ControlInv, LocalInv, TypeOK
  <2>2. entry[t] # NoEntry
    BY <1>1, SetLookedUp
  <2> QED BY <1>1, <2>1, <2>2 DEF ContentInv, StoreInv
<1>4. /\ valueSet'[ref[t]] = valueSet[ref[t]] \cup {o}
      /\ \A s \in ValueSet : s # ref[t] => valueSet'[s] = valueSet[s]
  BY <1>1, <1>2, SetLookedUp
<1>5. \A a \in AttributeValue :
          RetrieveEqual(a)' = IF a = b THEN RetrieveEqual(a) \cup {o} ELSE RetrieveEqual(a)
  <2>1. indexMap \in [AttributeValue -> ValueSet \cup {NoValueSet}]
    BY <1>1, SetLookedUp
  <2> QED BY <1>1, <1>2, <1>4, <2>1 DEF RetrieveEqual
<1>6. MapInv'
  <2>1. ASSUME NEW u \in Thread, u # t
        PROVE  MapInv!2!(u)'
    <3>1. ref'[u] = ref[u] /\ entry'[u] = entry[u] /\ pc'[u] = pc[u]
      BY <1>1, <2>1 DEF OthersSame
    <3>2. CASE pc[u] = "drop"
      <4>1. call[u] = "remove"
        BY <3>2 DEF ControlInv, LocalInv
      <4>2. entry[u][2] # b
        BY <1>1, <2>1, <3>2, <4>1, NoOtherLookup
      <4>3. ref[u] \in ValueSet /\ ref[u] # ref[t]
        BY <1>2, <3>2, <4>2, SetLookedUp
      <4> QED BY <1>1, <1>4, <3>1, <4>3 DEF ContentInv, MapInv
    <3>3. CASE pc[u] # "drop"
      BY <1>1, <3>1, <3>3 DEF ContentInv, MapInv
    <3> QED BY <3>2, <3>3
  <2> QED BY <1>1, <1>2, <2>1 DEF ContentInv, MapInv
<1>7. StoreInv'
  <2>1. StoreInv!(t)'
    BY <1>1 DEF ContentInv, StoreInv
  <2> QED BY <1>1, <2>1, StoreSame
<1>8. UnindexInv' /\ IndexInv' /\ EmptyInv'
  <2>1. ASSUME NEW q \in Object, NEW a \in Values[q]
        PROVE  /\ (q \in RetrieveEqual(a) \ store)' =>
                     \/ Unindexing(t, <<q, a>>)'
                     \/ q \in RetrieveEqual(a) \ store /\ ~Unindexing(t, <<q, a>>)
               /\ (registered /\ q \in store \ RetrieveEqual(a))' =>
                     \/ Indexing(t, <<q, a>>)'
                     \/ registered /\ q \in store \ RetrieveEqual(a) /\ ~Indexing(t, <<q, a>>)
    <3>1. a \in AttributeValue
      BY ValuesAssumption
    <3>2. ~Unindexing(t, <<q, a>>)
      BY <1>3 DEF Unindexing
    <3>3. CASE q = o /\ a = b
      BY <1>1, <1>3, <1>5, <3>1, <3>3
    <3>4. CASE q # o \/ a # b
      <4>1. entry[t] # <<q, a>>
        BY <1>2, <3>4
      <4>2. Indexing(t, <<q, a>>) => Indexing(t, <<q, a>>)'
        BY <1>1, <4>1 DEF Indexing, Pending
      <4>3. q \in RetrieveEqual(a)' <=> q \in RetrieveEqual(a)
        BY <1>5, <3>1, <3>4
      <4> QED BY <1>1, <3>2, <4>2, <4>3
    <3> QED BY <3>3, <3>4
  <2>2. ASSUME NEW a \in AttributeValue, (indexMap[a] # NoValueSet /\ valueSet[indexMap[a]] = {})'
        PROVE  \/ Emptying(t, a)'
               \/ indexMap[a] # NoValueSet /\ valueSet[indexMap[a]] = {} /\ ~Emptying(t, a)
    <3>1. a # b /\ indexMap[a] # ref[t]
      BY <1>1, <1>2, <1>4, <2>2
    <3>2. indexMap[a] # NoValueSet /\ indexMap[a] \in ValueSet
      BY <1>1, <2>2, SetLookedUp
    <3> QED BY <1>1, <1>4, <2>2, <3>1, <3>2 DEF Emptying
  <2> QED BY <1>1, <2>1, <2>2, WorkFrame DEF ContentInv
<1> QED BY <1>6, <1>7, <1>8 DEF ContentInv

\* An object that is not in the store is removed from its set.
LEMMA ApplyRemoveContent ==
    ASSUME ControlInv, ContentInv, NEW t \in Thread, ApplyRemove(t), Going(t)
    PROVE  ContentInv'
<1> DEFINE o == entry[t][1]
           b == entry[t][2]
<1>1. /\ UNCHANGED <<store, registered, indexMap, indexTodo, storeTodo, call, batch, entry, ref>>
      /\ pc[t] = "apply" /\ pc'[t] = "isEmpty" /\ call[t] = "remove" /\ OthersSame(t)
      /\ valueSet' = [valueSet EXCEPT ![ref[t]] = @ \ {o}]
  BY DEF ControlInv, ApplyRemove, TypeOK, Going
<1>2. /\ b \in AttributeValue /\ entry[t] = <<o, b>> /\ o \in batch[t] /\ entry[t] # NoEntry
      /\ indexMap[b] = ref[t] /\ ref[t] \in ValueSet /\ ref[t] # NoValueSet /\ registered
      /\ \A a \in AttributeValue : indexMap[a] = ref[t] => a = b
  BY <1>1, SetLookedUp
<1>3. o \notin store
  BY <1>1, <1>2 DEF ContentInv, StoreInv
<1>4. /\ valueSet'[ref[t]] = valueSet[ref[t]] \ {o}
      /\ \A s \in ValueSet : s # ref[t] => valueSet'[s] = valueSet[s]
  BY <1>1, <1>2, SetLookedUp
<1>5. \A a \in AttributeValue :
          RetrieveEqual(a)' = IF a = b THEN RetrieveEqual(a) \ {o} ELSE RetrieveEqual(a)
  <2>1. indexMap \in [AttributeValue -> ValueSet \cup {NoValueSet}]
    BY <1>1, SetLookedUp
  <2> QED BY <1>1, <1>2, <1>4, <2>1 DEF RetrieveEqual
<1>6. MapInv'
  <2>1. ASSUME NEW u \in Thread, u # t
        PROVE  MapInv!2!(u)'
    <3>1. ref'[u] = ref[u] /\ entry'[u] = entry[u] /\ pc'[u] = pc[u]
      BY <1>1, <2>1 DEF OthersSame
    <3>2. CASE pc[u] = "drop"
      <4>1. ref[u] \in ValueSet /\ valueSet[ref[u]] = {}
        BY <3>2, SetLookedUp DEF ContentInv, MapInv
      <4>2. valueSet'[ref[u]] = {}
        BY <1>4, <4>1
      <4> QED BY <1>1, <3>1, <4>2 DEF ContentInv, MapInv
    <3>3. CASE pc[u] # "drop"
      BY <1>1, <3>1, <3>3 DEF ContentInv, MapInv
    <3> QED BY <3>2, <3>3
  <2> QED BY <1>1, <1>2, <2>1 DEF ContentInv, MapInv
<1>7. StoreInv'
  <2>1. StoreInv!(t)'
    BY <1>1 DEF ContentInv, StoreInv
  <2> QED BY <1>1, <2>1, StoreSame
<1>8. UnindexInv' /\ IndexInv' /\ EmptyInv'
  <2>1. ASSUME NEW q \in Object, NEW a \in Values[q]
        PROVE  /\ (q \in RetrieveEqual(a) \ store)' =>
                     \/ Unindexing(t, <<q, a>>)'
                     \/ q \in RetrieveEqual(a) \ store /\ ~Unindexing(t, <<q, a>>)
               /\ (registered /\ q \in store \ RetrieveEqual(a))' =>
                     \/ Indexing(t, <<q, a>>)'
                     \/ registered /\ q \in store \ RetrieveEqual(a) /\ ~Indexing(t, <<q, a>>)
    <3>1. a \in AttributeValue
      BY ValuesAssumption
    <3>2. ~Indexing(t, <<q, a>>)
      BY <1>1 DEF Indexing
    <3>3. CASE q = o /\ a = b
      BY <1>1, <1>3, <1>5, <3>1, <3>3
    <3>4. CASE q # o \/ a # b
      <4>1. entry[t] # <<q, a>>
        BY <1>2, <3>4
      <4>2. Unindexing(t, <<q, a>>) => Unindexing(t, <<q, a>>)'
        BY <1>1, <4>1 DEF Unindexing, Pending
      <4>3. q \in RetrieveEqual(a)' <=> q \in RetrieveEqual(a)
        BY <1>5, <3>1, <3>4
      <4> QED BY <1>1, <3>2, <4>2, <4>3
    <3> QED BY <3>3, <3>4
  <2>2. ASSUME NEW a \in AttributeValue, (indexMap[a] # NoValueSet /\ valueSet[indexMap[a]] = {})'
        PROVE  \/ Emptying(t, a)'
               \/ indexMap[a] # NoValueSet /\ valueSet[indexMap[a]] = {} /\ ~Emptying(t, a)
    <3>1. CASE a = b
      BY <1>1, <1>2, <3>1 DEF Emptying
    <3>2. CASE a # b
      <4>1. indexMap[a] # NoValueSet /\ indexMap[a] \in ValueSet /\ indexMap[a] # ref[t]
        BY <1>1, <1>2, <2>2, <3>2, SetLookedUp
      <4> QED BY <1>1, <1>4, <2>2, <3>2, <4>1 DEF Emptying
    <3> QED BY <3>1, <3>2
  <2> QED BY <1>1, <2>1, <2>2, WorkFrame DEF ContentInv
<1> QED BY <1>6, <1>7, <1>8 DEF ContentInv

\* An empty set is dropped from the map; nobody else has looked it up.
LEMMA DropContent ==
    ASSUME ValuesApart, ControlInv, ContentInv, NEW t \in Thread, Drop(t), Going(t)
    PROVE  ContentInv'
<1> DEFINE b == entry[t][2]
<1>1. /\ UNCHANGED <<store, registered, valueSet, indexTodo, storeTodo, call, batch>>
      /\ pc[t] = "drop" /\ pc'[t] = "index" /\ call[t] = "remove"
      /\ entry'[t] = NoEntry /\ ref'[t] = NoValueSet /\ OthersSame(t)
      /\ indexMap' = [indexMap EXCEPT ![b] = NoValueSet]
  BY DEF ControlInv, LocalInv, Drop, NextEntry, TypeOK, Going
<1>2. /\ b \in AttributeValue /\ indexMap[b] = ref[t] /\ ref[t] # NoValueSet /\ registered
      /\ valueSet[ref[t]] = {}
  BY <1>1, SetLookedUp DEF ContentInv, MapInv
<1>3. /\ indexMap'[b] = NoValueSet
      /\ \A a \in AttributeValue : a # b => indexMap'[a] = indexMap[a]
  BY <1>1, <1>2, SetLookedUp
<1>4. \A a \in AttributeValue : RetrieveEqual(a)' = RetrieveEqual(a)
  BY <1>1, <1>2, <1>3 DEF RetrieveEqual
<1>5. MapInv'
  <2>1. ASSUME NEW u \in Thread, u # t
        PROVE  MapInv!2!(u)'
    <3>1. ref'[u] = ref[u] /\ entry'[u] = entry[u] /\ pc'[u] = pc[u]
      BY <1>1, <2>1 DEF OthersSame
    <3>2. CASE pc[u] \in {"apply", "isEmpty", "drop"}
      <4>1. entry[u][2] # b /\ entry[u][2] \in AttributeValue
        BY <1>1, <2>1, <3>2, NoOtherLookup, SetLookedUp
      <4> QED BY <1>1, <1>3, <3>1, <4>1 DEF ContentInv, MapInv
    <3>3. CASE pc[u] \notin {"apply", "isEmpty", "drop"}
      BY <3>1, <3>3 DEF ControlInv, LocalInv
    <3> QED BY <3>2, <3>3
  <2>2. \A a, c \in AttributeValue :
            indexMap'[a] = indexMap'[c] /\ indexMap'[a] # NoValueSet => a = c
    BY <1>3 DEF ContentInv, MapInv
  <2> QED BY <1>1, <1>2, <2>1, <2>2 DEF MapInv
<1>6. StoreInv'
  <2>1. StoreInv!(t)'
    BY <1>1 DEF ContentInv, StoreInv
  <2> QED BY <1>1, <2>1, StoreSame
<1>7. UnindexInv' /\ IndexInv' /\ EmptyInv'
  <2>1. ASSUME NEW q \in Object, NEW a \in Values[q]
        PROVE  /\ (q \in RetrieveEqual(a) \ store)' =>
                     \/ Unindexing(t, <<q, a>>)'
                     \/ q \in RetrieveEqual(a) \ store /\ ~Unindexing(t, <<q, a>>)
               /\ (registered /\ q \in store \ RetrieveEqual(a))' =>
                     \/ Indexing(t, <<q, a>>)'
                     \/ registered /\ q \in store \ RetrieveEqual(a) /\ ~Indexing(t, <<q, a>>)
    <3>1. a \in AttributeValue
      BY ValuesAssumption
    <3>2. (Unindexing(t, <<q, a>>) => Unindexing(t, <<q, a>>)') /\ ~Indexing(t, <<q, a>>)
      BY <1>1 DEF Unindexing, Indexing, Pending
    <3> QED BY <1>1, <1>4, <3>1, <3>2
  <2>2. ASSUME NEW a \in AttributeValue, (indexMap[a] # NoValueSet /\ valueSet[indexMap[a]] = {})'
        PROVE  \/ Emptying(t, a)'
               \/ indexMap[a] # NoValueSet /\ valueSet[indexMap[a]] = {} /\ ~Emptying(t, a)
    <3>1. a # b
      BY <1>3, <2>2
    <3> QED BY <1>1, <1>3, <2>2, <3>1 DEF Emptying
  <2> QED BY <1>1, <2>1, <2>2, WorkFrame DEF ContentInv
<1> QED BY <1>5, <1>6, <1>7 DEF ContentInv

\* clear() removes a value from the map; the store is empty, and no other call is active.
LEMMA ClearKeyContent ==
    ASSUME ValuesApart, ControlInv, ContentInv, NEW t \in Thread, NEW b \in AttributeValue,
           ClearKey(t, b), Going(t)
    PROVE  ContentInv'
<1>1. /\ UNCHANGED <<store, registered, valueSet, storeTodo, pc, call, batch, entry, ref>>
      /\ pc[t] = "clearMap" /\ call[t] = "clear" /\ batch[t] = Object
      /\ entry[t] = NoEntry /\ ref[t] = NoValueSet /\ OthersSame(t)
      /\ indexMap' = [indexMap EXCEPT ![b] = NoValueSet]
      /\ indexTodo'[t] = {e \in indexTodo[t] : e[2] # b}
      /\ \E e \in indexTodo[t] : e[2] = b
  BY DEF ControlInv, LocalInv, ClearKey, TypeOK, Going
<1>2. /\ indexMap'[b] = NoValueSet
      /\ \A a \in AttributeValue : a # b => indexMap'[a] = indexMap[a]
  BY <1>1 DEF ControlInv, TypeOK
<1>3. registered /\ \A o \in Object : o \notin store
  BY <1>1 DEF ContentInv, MapInv, StoreInv
<1>4. \A u \in Thread : ref[u] = NoValueSet /\ pc[u] # "drop"
  <2> SUFFICES ASSUME NEW u \in Thread, pc[u] \in {"apply", "isEmpty", "drop"}
               PROVE  FALSE
    BY DEF ControlInv, LocalInv
  <2>1. u # t /\ entry[u][1] \in batch[u] /\ batch[u] \subseteq Object
    BY <1>1, SetLookedUp
  <2>2. batch[t] \cap batch[u] = {}
    BY <1>1, <2>1, Alone DEF ControlInv
  <2> QED BY <1>1, <2>1, <2>2
<1>5. MapInv'
  <2>1. \A a, c \in AttributeValue :
            indexMap'[a] = indexMap'[c] /\ indexMap'[a] # NoValueSet => a = c
    BY <1>2 DEF ContentInv, MapInv
  <2> QED BY <1>1, <1>3, <1>4, <2>1 DEF MapInv
<1>6. StoreInv'
  <2>1. StoreInv!(t)'
    BY <1>1 DEF ContentInv, StoreInv
  <2> QED BY <1>1, <2>1, StoreSame
<1>7. UnindexInv' /\ IndexInv' /\ EmptyInv'
  <2>1. ASSUME NEW q \in Object, NEW a \in Values[q]
        PROVE  /\ (q \in RetrieveEqual(a) \ store)' =>
                     \/ Unindexing(t, <<q, a>>)'
                     \/ q \in RetrieveEqual(a) \ store /\ ~Unindexing(t, <<q, a>>)
               /\ (registered /\ q \in store \ RetrieveEqual(a))' =>
                     \/ Indexing(t, <<q, a>>)'
                     \/ registered /\ q \in store \ RetrieveEqual(a) /\ ~Indexing(t, <<q, a>>)
    <3>1. a \in AttributeValue /\ <<q, a>>[2] = a
      BY ValuesAssumption
    <3>2. CASE a = b
      <4>1. RetrieveEqual(a)' = {}
        BY <1>2, <3>2 DEF RetrieveEqual
      <4> QED BY <1>1, <1>3, <4>1
    <3>3. CASE a # b
      <4>1. RetrieveEqual(a)' = RetrieveEqual(a)
        BY <1>1, <1>2, <3>1, <3>3 DEF RetrieveEqual
      <4>2. Unindexing(t, <<q, a>>) => Unindexing(t, <<q, a>>)'
        BY <1>1, <3>1, <3>3 DEF Unindexing, Pending
      <4> QED BY <1>1, <1>3, <4>1, <4>2
    <3> QED BY <3>2, <3>3
  <2>2. ASSUME NEW a \in AttributeValue, (indexMap[a] # NoValueSet /\ valueSet[indexMap[a]] = {})'
        PROVE  \/ Emptying(t, a)'
               \/ indexMap[a] # NoValueSet /\ valueSet[indexMap[a]] = {} /\ ~Emptying(t, a)
    <3>1. a # b
      BY <1>2, <2>2
    <3> QED BY <1>1, <1>2, <2>2, <3>1 DEF Emptying
  <2> QED BY <1>1, <2>1, <2>2, WorkFrame DEF ContentInv
<1> QED BY <1>5, <1>6, <1>7 DEF ContentInv

\* The index is registered, empty: addIndex() is to visit every object.
LEMMA AddIndexContent ==
    ASSUME ControlInv, ContentInv, NEW t \in Thread, AddIndex(t), OthersSame(t)
    PROVE  ContentInv'
<1>1. /\ UNCHANGED <<store, indexMap, valueSet, indexTodo, entry, ref>>
      /\ ~registered /\ registered' /\ pc[t] = "idle" /\ pc'[t] = "init" /\ call'[t] = "addIndex"
      /\ storeTodo'[t] = Object /\ indexTodo[t] = {} /\ entry[t] = NoEntry /\ ref[t] = NoValueSet
  BY DEF ControlInv, LocalInv, AddIndex, TypeOK
<1>2. \A a \in AttributeValue : indexMap[a] = NoValueSet /\ RetrieveEqual(a)' = {}
  BY <1>1 DEF ContentInv, MapInv, RetrieveEqual
<1>3. MapInv'
  BY <1>1 DEF ContentInv, MapInv, OthersSame
<1>4. StoreInv'
  <2>1. StoreInv!(t)'
    BY <1>1
  <2> QED BY <1>1, <2>1, StoreSame
<1>5. UnindexInv' /\ IndexInv' /\ EmptyInv'
  <2>1. ASSUME NEW q \in Object, NEW a \in Values[q]
        PROVE  q \notin RetrieveEqual(a)' /\ Indexing(t, <<q, a>>)'
    <3>1. a \in AttributeValue /\ <<q, a>>[1] = q
      BY ValuesAssumption
    <3> QED BY <1>1, <1>2, <3>1 DEF Indexing
  <2>2. \A a \in AttributeValue : indexMap'[a] = NoValueSet
    BY <1>1, <1>2
  <2> QED BY <2>1, <2>2 DEF UnindexInv, IndexInv, EmptyInv
<1> QED BY <1>3, <1>4, <1>5 DEF ContentInv

-----------------------------------------------------------------------------
(* The theorems                                                            *)

\* The invariant holds of the empty collection.
LEMMA IndInit == Init => IndInv
<1> SUFFICES ASSUME Init
             PROVE  IndInv
  OBVIOUS
<1>1. TypeOK
  BY TypeInit
<1>2. /\ \A t \in Thread : /\ pc[t] = "idle" /\ call[t] = "add" /\ ~locking[t] /\ batch[t] = {}
                           /\ storeTodo[t] = {} /\ indexTodo[t] = {} /\ entry[t] = NoEntry
                           /\ ref[t] = NoValueSet
      /\ store = {} /\ \A a \in AttributeValue : indexMap[a] = NoValueSet
  BY DEF Init
<1>3. LocalInv /\ LockInv /\ OverlapInv
  BY <1>2 DEF LocalInv, LockInv, OverlapInv
<1>4. MapInv /\ StoreInv
  BY <1>2 DEF MapInv, StoreInv
<1>5. \A o \in Object : \A a \in Values[o] : RetrieveEqual(a) = {}
  BY <1>2, ValuesAssumption DEF RetrieveEqual
<1>6. UnindexInv /\ IndexInv /\ EmptyInv
  BY <1>2, <1>5 DEF UnindexInv, IndexInv, EmptyInv
<1> QED BY <1>1, <1>3, <1>4, <1>6 DEF IndInv

\* Every step preserves it.
LEMMA IndNext ==
    ASSUME ValuesApart
    PROVE  IndInv /\ [Next]_vars => IndInv'
<1> SUFFICES ASSUME IndInv, [Next]_vars
             PROVE  IndInv'
  OBVIOUS
<1>1. ControlInv /\ ContentInv
  BY DEF IndInv, ControlInv, ContentInv
<1>2. ASSUME NEW t \in Thread, Call(t)
      PROVE  ControlInv' /\ ContentInv'
  <2>1. CASE AddIndex(t)
    <3>1. TypeOK'
      BY <1>1, <2>1 DEF ControlInv, AddIndex, TypeOK, PC
    <3> QED BY <1>1, <2>1, <3>1, AddIndexControl, AddIndexContent
  <2>2. ASSUME NEW m \in {"add", "remove", "clear"}, NEW c \in SUBSET Object,
               NEW takesLock \in BOOLEAN, Begin(t, m, c, takesLock),
               c # {} \/ Object = {}, m = "clear" => c = Object /\ ~takesLock,
               takesLock => ObjectLocking /\ \E o \in Object : c = {o}
        PROVE  ControlInv' /\ ContentInv'
    <3>1. TypeOK'
      BY <1>1, <2>2, TypeBegin DEF ControlInv
    <3>2. ControlInv' /\ OthersSame(t)
      BY <1>1, <2>2, <3>1, BeginControl
    <3> QED BY <1>1, <2>2, <3>2, BeginContent
  <2> QED BY <1>1, <1>2, <2>1, <2>2, CallCases DEF ControlInv
<1>3. ASSUME NEW t \in Thread, Return(t)
      PROVE  ControlInv' /\ ContentInv'
  <2>1. TypeOK'
    BY <1>1, <1>3, TypeStep DEF ControlInv, Step
  <2> QED BY <1>1, <1>3, <2>1, ReturnControl, ReturnContent
<1>4. ASSUME NEW t \in Thread, Step(t), ~Return(t)
      PROVE  ControlInv' /\ ContentInv'
  <2>1. ControlInv' /\ Going(t)
    BY <1>1, <1>4, StepControl
  <2>2. CASE \E o \in Object : Lock(t, o) \/ StoreStep(t, o) \/ InitVisit(t, o)
    BY <1>1, <2>1, <2>2, LockContent, StoreContent, InitVisitContent
  <2>3. CASE InitNext(t) \/ ForEachIndexDo(t) \/ \E e \in Entries(Object) : Lookup(t, e)
    BY <1>1, <2>1, <2>3, InitNextContent, ForEachContent, LookupContent
  <2>4. CASE \E s \in ValueSet : PutIfAbsent(t, s)
    BY <1>1, <2>1, <2>4, PutContent
  <2>5. CASE ApplyAdd(t) \/ ApplyRemove(t)
    BY <1>1, <2>1, <2>5, ApplyAddContent, ApplyRemoveContent
  <2>6. CASE IsEmpty(t) \/ Drop(t)
    BY <1>1, <2>1, <2>6, IsEmptyContent, DropContent
  <2>7. CASE ClearFallback(t) \/ \E a \in AttributeValue : ClearKey(t, a)
    BY <1>1, <2>1, <2>7, ClearKeyContent, ClearFallbackContent
  <2> QED BY <1>4, <2>1, <2>2, <2>3, <2>4, <2>5, <2>6, <2>7 DEF Step
<1>5. CASE UNCHANGED vars
  <2>1. TypeOK' /\ LocalInv' /\ LockInv' /\ OverlapInv'
    <3>1. TypeOK'
      BY <1>1, <1>5 DEF vars, ControlInv, TypeOK
    <3>2. LocalInv'
      BY <1>1, <1>5 DEF vars, ControlInv, LocalInv
    <3>3. LockInv'
      BY <1>1, <1>5 DEF vars, ControlInv, LockInv
    <3>4. OverlapInv'
      BY <1>1, <1>5 DEF vars, ControlInv, OverlapInv, Apart
    <3> QED BY <3>1, <3>2, <3>3, <3>4
  <2>2. MapInv' /\ StoreInv'
    BY <1>1, <1>5 DEF vars, ContentInv, MapInv, StoreInv
  <2>3. /\ UNCHANGED <<store, registered, indexMap, valueSet>>
        /\ \A a : RetrieveEqual(a)' = RetrieveEqual(a)
        /\ \A t \in Thread, a \in AttributeValue : Emptying(t, a)' <=> Emptying(t, a)
        /\ \A t \in Thread : \A e : /\ Unindexing(t, e)' <=> Unindexing(t, e)
                                   /\ Indexing(t, e)' <=> Indexing(t, e)
    BY <1>5 DEF vars, Unindexing, Indexing, Emptying, Pending, RetrieveEqual
  <2>4. UnindexInv'
    <3> SUFFICES ASSUME NEW o \in Object, NEW a \in Values[o], o \in RetrieveEqual(a)' \ store'
                 PROVE  \E t \in Thread : Unindexing(t, <<o, a>>)'
      BY DEF UnindexInv
    <3>1. PICK t \in Thread : Unindexing(t, <<o, a>>)
      BY <1>1, <2>3 DEF ContentInv, UnindexInv
    <3> QED BY <1>5, <3>1 DEF vars, Unindexing, Pending
  <2>5. IndexInv'
    BY <1>1, <2>3 DEF ContentInv, IndexInv
  <2>6. EmptyInv'
    BY <1>1, <2>3 DEF ContentInv, EmptyInv
  <2> QED BY <2>1, <2>2, <2>4, <2>5, <2>6 DEF IndInv
<1> QED BY <1>2, <1>3, <1>4, <1>5 DEF Next, IndInv, ControlInv, ContentInv

\* For any objects, attribute values, threads, mutators and stripes, if the calls that
\* overlap share no attribute value or share the lock: the inductive invariant.
THEOREM Inductive ==
    ASSUME ValuesApart
    PROVE  Spec => []IndInv
BY IndInit, IndNext, PTL DEF Spec

\* Then, whenever no call is about an object, the index returns it under each of its
\* attribute values exactly if it is in the store, even if the index was added while it
\* was being added.
THEOREM IndexFollowsStore ==
    ASSUME ValuesApart
    PROVE  Spec => []SettledObjectsIndexed
<1>1. ASSUME IndInv, registered, NEW o \in Object, Settled(o), NEW a \in Values[o]
      PROVE  o \in store <=> o \in RetrieveEqual(a)
  <2>1. \A t \in Thread : ~Unindexing(t, <<o, a>>) /\ ~Indexing(t, <<o, a>>)
    <3> SUFFICES ASSUME NEW t \in Thread, Unindexing(t, <<o, a>>) \/ Indexing(t, <<o, a>>)
                 PROVE  o \in batch[t]
      BY <1>1 DEF Settled
    <3>1. <<o, a>>[1] = o
      OBVIOUS
    <3>2. CASE Pending(t, <<o, a>>)
      <4>1. <<o, a>> \in Entries(batch[t]) /\ batch[t] \subseteq Object
        BY <1>1, <3>2 DEF Pending, IndInv, LocalInv, TypeOK
      <4> QED BY <3>1, <4>1, EntryShape
    <3>3. CASE o \in storeTodo[t]
      BY <1>1, <3>3 DEF IndInv, LocalInv
    <3> QED BY <3>1, <3>2, <3>3 DEF Unindexing, Indexing
  <2> QED BY <1>1, <2>1 DEF IndInv, UnindexInv, IndexInv
<1>2. IndInv => SettledObjectsIndexed
  BY <1>1 DEF SettledObjectsIndexed
<1> QED BY <1>2, Inductive, PTL

\* And an attribute value none of whose objects a call is about is a key of the index
\* only if the index returns an object for it.
THEOREM KeysHaveObjects ==
    ASSUME ValuesApart
    PROVE  Spec => []NoEmptyValueSets
<1>1. ASSUME IndInv, NEW a \in AttributeValue, \A o \in Object : a \in Values[o] => Settled(o),
             indexMap[a] # NoValueSet, valueSet[indexMap[a]] = {}
      PROVE  FALSE
  <2>1. PICK t \in Thread : Emptying(t, a)
    BY <1>1 DEF IndInv, EmptyInv
  <2>2. entry[t] \in Entries(batch[t]) /\ batch[t] \subseteq Object
    BY <1>1, <2>1 DEF IndInv, LocalInv, TypeOK, Emptying
  <2>3. entry[t][1] \in batch[t] /\ a \in Values[entry[t][1]]
    BY <2>1, <2>2, EntryShape DEF Emptying
  <2> QED BY <1>1, <2>2, <2>3 DEF Settled
<1>2. IndInv => NoEmptyValueSets
  BY <1>1 DEF NoEmptyValueSets
<1> QED BY <1>2, Inductive, PTL
=============================================================================
