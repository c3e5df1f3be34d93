---------------- MODULE MCPersistentTransactionalCollection ----------------
EXTENDS PersistentTransactionalCollection, TLC

\* The objects are interchangeable.
Symmetry == Permutations(Object)
=============================================================================
