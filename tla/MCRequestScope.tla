--------------------------- MODULE MCRequestScope ---------------------------
EXTENDS RequestScope

CONSTANTS d1, d2, store, i1, i2

\* The store and one index in one database, another index in a second one.
MCDatabaseOf == (store :> d1) @@ (i1 :> d1) @@ (i2 :> d2)

\* Objects and threads are interchangeable.
Symmetry == Permutations(Object) \cup Permutations(Thread)
=============================================================================
