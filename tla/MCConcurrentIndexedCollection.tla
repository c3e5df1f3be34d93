------------------- MODULE MCConcurrentIndexedCollection -------------------
EXTENDS ConcurrentIndexedCollection, TLC

CONSTANTS o1, o2, o3, v1, v2, s1, s2

\* o1 and o2 have the attribute value v1 in common; o3 has one of its own.
MCObject == {o1, o2, o3}
MCValues == (o1 :> {v1}) @@ (o2 :> {v1}) @@ (o3 :> {v2})

\* Objects that share an attribute value share a stripe.
MCStripeOf == (o1 :> s1) @@ (o2 :> s1) @@ (o3 :> s2)

Symmetry == Permutations(Thread) \cup Permutations(ValueSet)
=============================================================================
