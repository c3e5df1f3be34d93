-------------------------- MODULE AttributeOrders --------------------------
(***************************************************************************)
(* The order of results: the comparator by which results are sorted        *)
(* (packages query.option and resultset.order), and what                   *)
(* CollectionQueryEngine takes for granted about it when it reads the      *)
(* results from an index in order instead.                                 *)
(***************************************************************************)
EXTENDS SimpleQueries

(* Ordering.  An AttributeOrder is a record with the attribute, whether     *)
(* the order is descending, and where an OrderControlAttribute around the   *)
(* attribute puts objects without a value: "first", "last" or "default".    *)
AttributeOrder ==
    [attribute : Attribute, descending : BOOLEAN, missing : {"default", "first", "last"}]

Sign(n) == IF n < 0 THEN -1 ELSE IF n > 0 THEN 1 ELSE 0

FirstOf(S) == CHOOSE i \in S : \A j \in S : i <= j

compareAttributeValues(a, o1, o2) ==
    LET s == Values[a][o1]
        t == Values[a][o2]
        differ == {i \in DOMAIN s \cap DOMAIN t : s[i] # t[i]}
    IN  IF differ = {} THEN Sign(Len(s) - Len(t))
        ELSE Sign(s[FirstOf(differ)] - t[FirstOf(differ)])

OrderControlValue(order, o) ==
    CASE order.missing = "default" -> 0
      [] order.missing = "first"   -> IF HasMatches(has(order.attribute), o) THEN 1 ELSE 0
      [] order.missing = "last"    -> IF HasMatches(has(order.attribute), o) THEN 0 ELSE 1

compareByOrder(order, o1, o2) ==
    LET control == Sign(OrderControlValue(order, o1) - OrderControlValue(order, o2))
        byValue == compareAttributeValues(order.attribute, o1, o2)
    IN  IF control # 0 THEN control
        ELSE IF order.descending THEN -byValue ELSE byValue

(* What the orders alone say of two objects: negative, zero or positive.    *)
compareByOrders(orders, o1, o2) ==
    LET differ == {i \in DOMAIN orders : compareByOrder(orders[i], o1, o2) # 0}
    IN  IF differ = {} THEN 0 ELSE compareByOrder(orders[FirstOf(differ)], o1, o2)

(* AttributeOrdersComparator.compare() < 0: ties are broken by hash code,   *)
(* and ties of hash codes by a number given to each object.  The two        *)
(* together are a rank of the objects, here their place in Iteration.       *)
Precedes(orders, o1, o2) ==
    LET c == compareByOrders(orders, o1, o2)
        Rank(o) == CHOOSE i \in DOMAIN Iteration : Iteration[i] = o
    IN  c < 0 \/ (c = 0 /\ Rank(o1) < Rank(o2))

Sorted(items, orders) == SortSeq(items, LAMBDA o1, o2 : Precedes(orders, o1, o2))

----------------------------------------------------------------------------
(* Index ordering: the objects are read from an index on the first          *)
(* attribute of the order, those without a value before or after them.      *)

CanHaveZeroValues(a) == Kind[a] # "simple"

CanHaveMoreThanOneValue(a) == Kind[a] = "multi"

(* Mutant: buckets are not sorted.                                          *)
NoAdditionalSortOrders(a, quantized, opts) == <<>>

determineAdditionalSortOrdersForIndexOrdering(a, quantized, opts) ==
    IF quantized \/ (CanHaveMoreThanOneValue(a) /\ ~opts.fast)
    THEN opts.orderBy ELSE Tail(opts.orderBy)

MissingFirst(order) ==
    order.missing = "first" \/ (order.missing = "default" /\ ~order.descending)
============================================================================
