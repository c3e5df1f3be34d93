---------------------- MODULE ReadCommittedCollection ----------------------
(***************************************************************************)
(* What a TransactionalIndexedCollection promises the threads that use it, *)
(* with no versions, locks, indexes or exclusions: a transaction takes     *)
(* effect in one step between the call of update() and its return, and a   *)
(* ResultSet delivers exactly one state of the collection, the one at some *)
(* moment between the call of retrieve() and its return.                   *)
(***************************************************************************)
CONSTANTS Object, Reader, Writer

VARIABLES
    collection,                 \* the objects in the collection
    phase, toRemove, toAdd,     \* a transaction and how far it has come
    reading, view,              \* a query and the state it is answered from
    pending, delivered          \* what its ResultSet will return and has returned

writerVars == <<phase, toRemove, toAdd>>
readerVars == <<reading, view, pending, delivered>>
vars == <<collection, writerVars, readerVars>>

TypeOK ==
    /\ collection \subseteq Object
    /\ phase \in [Writer -> {"idle", "requested", "done"}]
    /\ toRemove \in [Writer -> SUBSET Object]
    /\ toAdd \in [Writer -> SUBSET Object]
    /\ reading \in [Reader -> {"no", "opening", "open"}]
    /\ view \in [Reader -> SUBSET Object]
    /\ pending \in [Reader -> SUBSET Object]
    /\ delivered \in [Reader -> SUBSET Object]

Init ==
    /\ collection \in SUBSET Object
    /\ phase = [w \in Writer |-> "idle"]
    /\ toRemove = [w \in Writer |-> {}]
    /\ toAdd = [w \in Writer |-> {}]
    /\ reading = [r \in Reader |-> "no"]
    /\ view = [r \in Reader |-> {}]
    /\ pending = [r \in Reader |-> {}]
    /\ delivered = [r \in Reader |-> {}]

\* update() is called; transactions are serialised.
Request(w, rem, add) ==
    /\ \A u \in Writer : phase[u] = "idle"
    /\ phase' = [phase EXCEPT ![w] = "requested"]
    /\ toRemove' = [toRemove EXCEPT ![w] = rem]
    /\ toAdd' = [toAdd EXCEPT ![w] = add]
    /\ UNCHANGED <<collection, readerVars>>

\* The whole transaction takes effect.
Commit(w) ==
    /\ phase[w] = "requested"
    /\ collection' = (collection \ toRemove[w]) \cup toAdd[w]
    /\ phase' = [phase EXCEPT ![w] = "done"]
    /\ UNCHANGED <<toRemove, toAdd, readerVars>>

\* STRICT_REPLACEMENT: an object to remove is missing, so nothing takes effect.
Reject(w) ==
    /\ phase[w] = "requested"
    /\ ~(toRemove[w] \subseteq collection)
    /\ phase' = [phase EXCEPT ![w] = "done"]
    /\ UNCHANGED <<collection, toRemove, toAdd, readerVars>>

Return(w) ==
    /\ phase[w] = "done"
    /\ phase' = [phase EXCEPT ![w] = "idle"]
    /\ toRemove' = [toRemove EXCEPT ![w] = {}]
    /\ toAdd' = [toAdd EXCEPT ![w] = {}]
    /\ UNCHANGED <<collection, readerVars>>

\* retrieve() settles on the state of the collection, and may change its mind
\* as long as it has not returned.
Snapshot(r) ==
    /\ reading[r] \in {"no", "opening"}
    /\ reading' = [reading EXCEPT ![r] = "opening"]
    /\ view' = [view EXCEPT ![r] = collection]
    /\ UNCHANGED <<collection, writerVars, pending, delivered>>

Open(r) ==
    /\ reading[r] = "opening"
    /\ reading' = [reading EXCEPT ![r] = "open"]
    /\ pending' = [pending EXCEPT ![r] = view[r]]
    /\ UNCHANGED <<collection, writerVars, view, delivered>>

\* The ResultSet returns an object of its view, each of them once.
Deliver(r, o) ==
    /\ reading[r] = "open"
    /\ o \in pending[r]
    /\ pending' = [pending EXCEPT ![r] = @ \ {o}]
    /\ delivered' = [delivered EXCEPT ![r] = @ \cup {o}]
    /\ UNCHANGED <<collection, writerVars, reading, view>>

Close(r) ==
    /\ reading[r] = "open"
    /\ reading' = [reading EXCEPT ![r] = "no"]
    /\ view' = [view EXCEPT ![r] = {}]
    /\ pending' = [pending EXCEPT ![r] = {}]
    /\ delivered' = [delivered EXCEPT ![r] = {}]
    /\ UNCHANGED <<collection, writerVars>>

Next ==
    \/ \E w \in Writer :
          \/ \E rem, add \in SUBSET Object : Request(w, rem, add)
          \/ Commit(w) \/ Reject(w) \/ Return(w)
    \/ \E r \in Reader :
          Snapshot(r) \/ Open(r) \/ (\E o \in Object : Deliver(r, o)) \/ Close(r)

Spec == Init /\ [][Next]_vars
=============================================================================
