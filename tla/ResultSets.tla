---------------------------- MODULE ResultSets ----------------------------
(***************************************************************************)
(* The result sets of CQEngine (package resultset), as what their methods  *)
(* answer.  A result set is a record of                                    *)
(*    items          what iterator() returns, in order                     *)
(*    contains       the objects for which contains() is true              *)
(*    query          the query by which matches() decides, unless          *)
(*    byContents     matches() delegates to contains()                     *)
(*    size           size()                                                *)
(*    retrievalCost  getRetrievalCost()                                    *)
(*    mergeCost      getMergeCost()                                        *)
(* contains(), matches() and iteration are kept apart because the code     *)
(* computes them along different paths, and the strategy used to merge     *)
(* results decides which of the first two filters the third.               *)
(***************************************************************************)
EXTENDS Queries

MaxCost == 2147483647      \* Integer.MAX_VALUE: no index answers this

(* Costs are summed as long integers and cut off at Integer.MAX_VALUE.      *)
CappedSum(m, n) == IF m > MaxCost - n THEN MaxCost ELSE m + n

matches(rs, o) == IF rs.byContents THEN o \in rs.contains ELSE Matches(rs.query, o)

(* The test by which a connective filters: the index merge strategy uses    *)
(* contains(), the default strategy matches().                              *)
Includes(rs, o, useIndexMergeStrategy) ==
    IF useIndexMergeStrategy THEN o \in rs.contains ELSE matches(rs, o)

StoredSetBasedResultSet(S) ==
    [items |-> InOrder(S), contains |-> S, query |-> all, byContents |-> TRUE,
     size |-> Cardinality(S), retrievalCost |-> 0, mergeCost |-> Cardinality(S)]

FilteringResultSet(rs, q) ==
    LET valid == SelectSeq(rs.items, LAMBDA o : Matches(q, o))
    IN  [rs EXCEPT !.items = valid, !.contains = ToSet(valid), !.query = q,
                   !.byContents = FALSE, !.size = Len(valid)]

QuantizedResultSet(rs, q) == FilteringResultSet(rs, q)

----------------------------------------------------------------------------
Sum(rss, Cost(_)) == FoldLeft(LAMBDA total, rs : CappedSum(total, Cost(rs)), 0, rss)

ResultSetUnionAll(rss, q) ==
    [items         |-> FlattenSeq([i \in DOMAIN rss |-> rss[i].items]),
     contains      |-> UNION {rss[i].contains : i \in DOMAIN rss},
     query         |-> q,
     byContents    |-> FALSE,
     size          |-> FoldLeft(LAMBDA total, rs : total + rs.size, 0, rss),
     retrievalCost |-> Sum(rss, LAMBDA rs : rs.retrievalCost),
     mergeCost     |-> Sum(rss, LAMBDA rs : rs.mergeCost)]

ResultSetUnion(rss, q, useIndexMergeStrategy) ==
    LET isValid(i, o) ==
            \A j \in 1..(i - 1) : ~Includes(rss[j], o, useIndexMergeStrategy)
        items == FlattenSeq([i \in DOMAIN rss |->
                                SelectSeq(rss[i].items, LAMBDA o : isValid(i, o))])
    IN  [ResultSetUnionAll(rss, q) EXCEPT !.items = items, !.size = Len(items)]

(* The position of the first of the result sets with the lowest cost.       *)
Cheapest(rss, Cost(_)) ==
    CHOOSE i \in DOMAIN rss :
        \A j \in DOMAIN rss :
            Cost(rss[i]) < Cost(rss[j]) \/ (Cost(rss[i]) = Cost(rss[j]) /\ i <= j)

ResultSetIntersection(rss, q, useIndexMergeStrategy) ==
    LET lowest == Cheapest(rss, LAMBDA rs : rs.mergeCost)
        isValid(o) == \A j \in DOMAIN rss \ {lowest} :
                          Includes(rss[j], o, useIndexMergeStrategy)
        items == SelectSeq(rss[lowest].items, isValid)
    IN  [items         |-> items,
         contains      |-> {o \in rss[lowest].contains :
                                \A j \in DOMAIN rss : o \in rss[j].contains},
         query         |-> q,
         byContents    |-> FALSE,
         size          |-> Len(items),
         retrievalCost |-> rss[lowest].retrievalCost,
         mergeCost     |-> rss[lowest].mergeCost]

ResultSetDifference(first, second, q, indexMergeStrategyEnabled) ==
    LET merge == indexMergeStrategyEnabled /\ second.retrievalCost # MaxCost
        items == SelectSeq(first.items, LAMBDA o : ~Includes(second, o, merge))
    IN  [first EXCEPT !.items = items, !.contains = first.contains \ second.contains,
                      !.query = q, !.byContents = FALSE, !.size = Len(items)]

----------------------------------------------------------------------------
Deduplicated(s) ==
    FoldLeft(LAMBDA seen, o : IF o \in ToSet(seen) THEN seen ELSE Append(seen, o), <<>>, s)

MaterializedDeduplicatedResultSet(rs) ==
    [rs EXCEPT !.items = Deduplicated(rs.items), !.size = Len(Deduplicated(rs.items))]

(* Its merge cost, which nothing in the engine asks for, is left as it is.   *)
MaterializedOrderedResultSet(rs, orders) ==
    [rs EXCEPT !.items = Sorted(rs.items, orders), !.size = Len(rs.items)]
============================================================================
