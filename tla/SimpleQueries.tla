--------------------------- MODULE SimpleQueries ---------------------------
(***************************************************************************)
(* The objects of the application, their attributes, and the queries on    *)
(* one attribute (packages attribute and query.simple). A query is a       *)
(* record whose field type names its class; equality of records is the     *)
(* equals() of the query classes. Attribute values are integers.           *)
(***************************************************************************)
EXTENDS Integers, Sequences, FiniteSets, SequencesExt

CONSTANTS
    Object,      \* the objects of the application
    Attribute,   \* its attributes
    Kind,        \* SimpleAttribute, SimpleNullableAttribute or MultiValueAttribute
    Values,      \* Values[a][o]: what getValues(o) of attribute a iterates
    Iteration    \* the objects in the order in which hash tables iterate them

MayReturn(kind) ==
    CASE kind = "simple" -> {1} [] kind = "nullable" -> {0, 1} [] kind = "multi" -> Nat

ASSUME AttributesAssumption ==
    /\ Kind \in [Attribute -> {"simple", "nullable", "multi"}]
    /\ \A a \in Attribute, o \in Object :
         /\ Values[a][o] \in Seq(Int)
         /\ Len(Values[a][o]) \in MayReturn(Kind[a])

ASSUME IterationAssumption ==
    Iteration \in Seq(Object) /\ ToSet(Iteration) = Object /\ IsInjective(Iteration)

ValuesOf(a, o) == ToSet(Values[a][o])

InOrder(S) == SelectSeq(Iteration, LAMBDA o : o \in S)

----------------------------------------------------------------------------
(* The factory methods of QueryFactory. *)

equal(a, v) == [type |-> "equal", attribute |-> a, value |-> v]

in(a, vs, disjoint) ==
    [type |-> "in", attribute |-> a, values |-> vs, disjoint |-> disjoint]

has(a) == [type |-> "has", attribute |-> a]

lessThan(a, v, inclusive) ==
    [type |-> "lessThan", attribute |-> a, value |-> v, inclusive |-> inclusive]

greaterThan(a, v, inclusive) ==
    [type |-> "greaterThan", attribute |-> a, value |-> v, inclusive |-> inclusive]

between(a, lower, lowerInclusive, upper, upperInclusive) ==
    [type |-> "between", attribute |-> a,
     lower |-> lower, lowerInclusive |-> lowerInclusive,
     upper |-> upper, upperInclusive |-> upperInclusive]

(* A simple query no map-based index supports: a FilterQuery or a query on  *)
(* strings, as the set of values it accepts.                                *)
filterQuery(a, accepted) == [type |-> "filter", attribute |-> a, accepted |-> accepted]

all == [type |-> "all", attribute |-> "self"]

none == [type |-> "none", attribute |-> "self"]

IsSimple(q) ==
    q.type \in {"equal", "in", "has", "lessThan", "greaterThan", "between",
                "filter", "all", "none"}

----------------------------------------------------------------------------
(* matches() of each class. *)

Above(v, bound, inclusive) == v > bound \/ (inclusive /\ v = bound)

Below(v, bound, inclusive) == v < bound \/ (inclusive /\ v = bound)

EqualMatches(q, o) == q.value \in ValuesOf(q.attribute, o)

InMatches(q, o) == \E v \in ValuesOf(q.attribute, o) : v \in ToSet(q.values)

HasMatches(q, o) == ValuesOf(q.attribute, o) # {}

LessThanMatches(q, o) ==
    \E v \in ValuesOf(q.attribute, o) : Below(v, q.value, q.inclusive)

GreaterThanMatches(q, o) ==
    \E v \in ValuesOf(q.attribute, o) : Above(v, q.value, q.inclusive)

BetweenMatches(q, o) ==
    \E v \in ValuesOf(q.attribute, o) :
        Above(v, q.lower, q.lowerInclusive) /\ Below(v, q.upper, q.upperInclusive)

FilterQueryMatches(q, o) == ValuesOf(q.attribute, o) \cap q.accepted # {}

SimpleQueryMatches(q, o) ==
    CASE q.type = "equal"       -> EqualMatches(q, o)
      [] q.type = "in"          -> InMatches(q, o)
      [] q.type = "has"         -> HasMatches(q, o)
      [] q.type = "lessThan"    -> LessThanMatches(q, o)
      [] q.type = "greaterThan" -> GreaterThanMatches(q, o)
      [] q.type = "between"     -> BetweenMatches(q, o)
      [] q.type = "filter"      -> FilterQueryMatches(q, o)
      [] q.type = "all"         -> TRUE
      [] q.type = "none"        -> FALSE
============================================================================
