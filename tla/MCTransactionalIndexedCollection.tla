------------------ MODULE MCTransactionalIndexedCollection ------------------
EXTENDS TransactionalIndexedCollection, TLC

\* Objects, readers and writers are interchangeable.
Symmetry == Permutations(Object) \cup Permutations(Reader) \cup Permutations(Writer)
=============================================================================
