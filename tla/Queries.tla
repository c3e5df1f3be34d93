------------------------------ MODULE Queries ------------------------------
(***************************************************************************)
(* Comparative and logical queries (package query), and what a query       *)
(* means.                                                                  *)
(***************************************************************************)
EXTENDS AttributeOrders

max(a) == [type |-> "max", attribute |-> a]

min(a) == [type |-> "min", attribute |-> a]

and(children) == [type |-> "and", children |-> children]

or(children, disjoint) == [type |-> "or", children |-> children, disjoint |-> disjoint]

not(q) == [type |-> "not", negated |-> q]

IsComparative(q) == q.type \in {"max", "min"}

IsLogical(q) == q.type \in {"and", "or", "not"}

simpleQueries(q) == SelectSeq(q.children, IsSimple)

comparativeQueries(q) == SelectSeq(q.children, IsComparative)

logicalQueries(q) == SelectSeq(q.children, IsLogical)

----------------------------------------------------------------------------
(* matches().  Comparative queries do not have one: they throw              *)
(* UnsupportedOperationException, and no case of Matches applies.           *)
RECURSIVE Matches(_, _)
Matches(q, o) ==
    CASE q.type = "and" -> \A i \in DOMAIN q.children : Matches(q.children[i], o)
      [] q.type = "or"  -> \E i \in DOMAIN q.children : Matches(q.children[i], o)
      [] q.type = "not" -> ~Matches(q.negated, o)
      [] IsSimple(q)    -> SimpleQueryMatches(q, o)

(* getMatches() of Max and Min: the objects which have the extreme value of *)
(* the attribute over a set of objects.                                     *)
MaxGetMatches(q, S) ==
    LET vals == UNION {ValuesOf(q.attribute, o) : o \in S}
    IN  {o \in S : \E v \in ValuesOf(q.attribute, o) : \A w \in vals : w <= v}

MinGetMatches(q, S) ==
    LET vals == UNION {ValuesOf(q.attribute, o) : o \in S}
    IN  {o \in S : \E v \in ValuesOf(q.attribute, o) : \A w \in vals : v <= w}

GetMatches(q, S) ==
    IF q.type = "max" THEN MaxGetMatches(q, S) ELSE MinGetMatches(q, S)

(* The meaning of a query over a collection: the reference that every       *)
(* retrieval is held against.                                               *)
RECURSIVE Meaning(_, _)
Meaning(q, S) ==
    CASE q.type = "and"   -> {o \in S : \A i \in DOMAIN q.children : o \in Meaning(q.children[i], S)}
      [] q.type = "or"    -> {o \in S : \E i \in DOMAIN q.children : o \in Meaning(q.children[i], S)}
      [] q.type = "not"   -> S \ Meaning(q.negated, S)
      [] IsComparative(q) -> GetMatches(q, S)
      [] IsSimple(q)      -> {o \in S : SimpleQueryMatches(q, o)}
============================================================================
