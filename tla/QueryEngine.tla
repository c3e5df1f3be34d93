---------------------------- MODULE QueryEngine ----------------------------
(***************************************************************************)
(* CollectionQueryEngine.retrieve(): how a query is planned over whatever  *)
(* indexes there are, merged, deduplicated and ordered.                    *)
(*                                                                         *)
(* The collection and its indexes change between retrievals; one retrieval *)
(* is evaluated, iterated and closed by one thread.  Query options are a   *)
(* record of                                                               *)
(*    deduplication  "none", "logical" or "materialize"                    *)
(*    merge          PREFER_INDEX_MERGE_STRATEGY                           *)
(*    orderBy        a sequence of attribute orders, <<>> for none         *)
(*    threshold      INDEX_ORDERING_SELECTIVITY, in tenths                 *)
(*    fast           INDEX_ORDERING_ALLOW_FAST_ORDERING_OF_MULTI_VALUED_   *)
(*                   ATTRIBUTES                                            *)
(* to which retrieve() adds the root query.                                *)
(*                                                                         *)
(* Requests that end in an exception are left out: ranges whose lower end  *)
(* is above the upper one, which the map of a navigable index refuses, and *)
(* comparative queries where results are filtered with matches().          *)
(***************************************************************************)
EXTENDS Indexes

CONSTANTS
    Batches,      \* the sets of objects added and removed together
    Catalogue,    \* the indexes the application may add
    MaxIndexes,   \* how many of them at a time
    Requests      \* the queries it asks, each with the options it passes

VARIABLES
    collection,   \* the objects of the object store
    indexes,      \* the indexes, in the order in which the registries iterate them
    request,      \* query and options of the open result set, or NoRequest
    resultSet     \* what it answers

vars == <<collection, indexes, request, resultSet>>

NoRequest == <<>>

NoResultSet == StoredSetBasedResultSet({})

----------------------------------------------------------------------------
(* Lookups in the registries. *)

getIndexesOnAttribute(a) ==
    SelectSeq(indexes, LAMBDA idx : IsAttributeIndex(idx) /\ idx.attribute = a)

uniqueIndexes(a) ==
    SelectSeq(indexes, LAMBDA idx : idx.kind = "unique" /\ idx.attribute = a)

standingQueryIndexes(q) ==
    SelectSeq(indexes, LAMBDA idx : idx.kind = "standing" /\ idx.standingQuery = q)

compoundIndexes(q) ==
    SelectSeq(indexes, LAMBDA idx : idx.kind = "compound" /\ idx.attributes = CompoundAttribute(q))

getEntireCollectionAsResultSet(q) ==
    [StoredSetBasedResultSet(collection) EXCEPT
        !.query = q, !.byContents = FALSE, !.retrievalCost = MaxCost, !.mergeCost = MaxCost]

LowestCostResultSet(candidates) == candidates[Cheapest(candidates, LAMBDA rs : rs.retrievalCost)]

(* Of the indexes on the attribute which support the query, and the         *)
(* fallback index, the first with the lowest retrieval cost.                *)
retrieveFromLowestCostIndex(q, opts) ==
    LET supporting == SelectSeq(getIndexesOnAttribute(q.attribute),
                                LAMBDA idx : supportsQuery(idx, q, opts))
    IN  LowestCostResultSet(
            [i \in DOMAIN supporting |-> indexRetrieve(supporting[i], collection, q, opts)]
            \o <<fallbackRetrieve(collection, q)>>)

retrieveSimpleQuery(q, opts) ==
    LET standing == standingQueryIndexes(q)
        unique   == uniqueIndexes(q.attribute)
    IN  CASE standing # <<>> -> standingQueryRetrieve(Head(standing), collection)
          [] standing = <<>> /\ unique # <<>> /\ supportsQuery(Head(unique), q, opts) ->
                 indexRetrieve(Head(unique), collection, q, opts)
          [] OTHER -> retrieveFromLowestCostIndex(q, opts)

retrieveComparativeQuery(q, opts) == retrieveFromLowestCostIndex(q, opts)

----------------------------------------------------------------------------
(* Merging. *)

indexesAvailableForAllResultSets(rss) ==
    \A i \in DOMAIN rss : rss[i].retrievalCost # MaxCost

shouldUseIndexMergeStrategy(requested, comparativeQueriesPresent, rss) ==
    \/ comparativeQueriesPresent
    \/ requested /\ indexesAvailableForAllResultSets(rss)

OneOr(queries, Connect(_)) == IF Len(queries) = 1 THEN Head(queries) ELSE Connect(queries)

Intersection(rss, q, opts, comparativeQueriesPresent) ==
    ResultSetIntersection(rss, q,
        shouldUseIndexMergeStrategy(opts.merge, comparativeQueriesPresent, rss))

Union(rss, q, opts, comparativeQueriesPresent) ==
    IF opts.deduplication = "logical"
    THEN ResultSetUnion(rss, q,
             shouldUseIndexMergeStrategy(opts.merge, comparativeQueriesPresent, rss))
    ELSE ResultSetUnionAll(rss, q)

retrieveIntersectionOfSimpleQueries(queries, opts) ==
    Intersection([i \in DOMAIN queries |-> retrieveSimpleQuery(queries[i], opts)],
                 OneOr(queries, and), opts, FALSE)

retrieveIntersectionOfComparativeQueries(queries, opts) ==
    Intersection([i \in DOMAIN queries |-> retrieveComparativeQuery(queries[i], opts)],
                 OneOr(queries, and), opts, TRUE)

retrieveUnionOfSimpleQueries(queries, opts) ==
    Union([i \in DOMAIN queries |-> retrieveSimpleQuery(queries[i], opts)],
          OneOr(queries, LAMBDA children : or(children, FALSE)), opts, FALSE)

retrieveUnionOfComparativeQueries(queries, opts) ==
    Union([i \in DOMAIN queries |-> retrieveComparativeQuery(queries[i], opts)],
          OneOr(queries, LAMBDA children : or(children, FALSE)), opts, TRUE)

(* The result sets for the children of a logical query: one for all simple  *)
(* queries, one for all comparative ones, one for each logical one.         *)
ResultSetsToMerge(q, OfSimple(_), OfComparative(_), OfLogical(_)) ==
    LET simple      == simpleQueries(q)
        comparative == comparativeQueries(q)
        logical     == logicalQueries(q)
    IN  (IF simple = <<>> THEN <<>> ELSE <<OfSimple(simple)>>)
        \o (IF comparative = <<>> THEN <<>> ELSE <<OfComparative(comparative)>>)
        \o [i \in DOMAIN logical |-> OfLogical(logical[i])]

RECURSIVE retrieveRecursive(_, _)

retrieveAnd(q, opts) ==
    IF SuitableForCompound(q) /\ compoundIndexes(q) # <<>>
    THEN compoundRetrieve(collection, q)
    ELSE Intersection(
             ResultSetsToMerge(q,
                 LAMBDA children : retrieveIntersectionOfSimpleQueries(children, opts),
                 LAMBDA children : retrieveIntersectionOfComparativeQueries(children, opts),
                 LAMBDA child : retrieveRecursive(child, opts)),
             q, opts, comparativeQueries(q) # <<>>)

(* If some child of an or() has no index, the collection is scanned once    *)
(* instead of once for every such child.                                    *)
ScannedUnlessIndexed(union, q) ==
    IF union.retrievalCost = MaxCost /\ comparativeQueries(q) = <<>>
    THEN FilteringResultSet(getEntireCollectionAsResultSet(q), q) ELSE union

(* A disjoint or() drops the deduplication option for its own union and its *)
(* simple and comparative children.                                         *)
retrieveOr(q, opts) ==
    LET forUnion == IF q.disjoint THEN [opts EXCEPT !.deduplication = "none"] ELSE opts
    IN  ScannedUnlessIndexed(
            Union(ResultSetsToMerge(q,
                      LAMBDA children : retrieveUnionOfSimpleQueries(children, forUnion),
                      LAMBDA children : retrieveUnionOfComparativeQueries(children, forUnion),
                      LAMBDA child : retrieveRecursive(child, opts)),
                  q, forUnion, comparativeQueries(q) # <<>>),
            q)

retrieveNot(q, opts) ==
    ResultSetDifference(getEntireCollectionAsResultSet(q),
                        retrieveRecursive(q.negated, opts), q, opts.merge)

retrieveRecursive(q, opts) ==
    LET standing == standingQueryIndexes(q)
    IN  CASE standing # <<>> -> standingQueryRetrieve(Head(standing), collection)
          [] standing = <<>> /\ IsSimple(q)      -> retrieveSimpleQuery(q, opts)
          [] standing = <<>> /\ IsComparative(q) -> retrieveComparativeQuery(q, opts)
          [] standing = <<>> /\ q.type = "and"   -> retrieveAnd(q, opts)
          [] standing = <<>> /\ q.type = "or"    -> retrieveOr(q, opts)
          [] standing = <<>> /\ q.type = "not"   -> retrieveNot(q, opts)

(* From here on found is what retrieveRecursive answers for the request:    *)
(* the code asks it anew wherever it needs it.                              *)
retrieveWithoutIndexOrdering(found, opts, orders) ==
    LET ordered == IF orders = <<>> THEN found ELSE MaterializedOrderedResultSet(found, orders)
    IN  IF opts.deduplication = "materialize"
        THEN MaterializedDeduplicatedResultSet(ordered) ELSE ordered

----------------------------------------------------------------------------
(* Index ordering: iterate an index on the first attribute of the order.    *)

(* The bounds a simple query, or the simple queries of an and(), put on the *)
(* attribute: of several, the last.                                         *)
WithinBoundsFromQuery(q, idx, key) ==
    LET candidates == SelectSeq(IF IsSimple(q) THEN <<q>>
                                ELSE IF q.type = "and" THEN simpleQueries(q) ELSE <<>>,
                                LAMBDA c : c.attribute = idx.attribute)
        lower == SelectSeq(candidates, LAMBDA c : c.type \in {"greaterThan", "between"})
        upper == SelectSeq(candidates, LAMBDA c : c.type \in {"lessThan", "between"})
    IN  /\ lower # <<>> => AboveLowerEnd(idx, Last(lower), key)
        /\ upper # <<>> => BelowUpperEnd(idx, Last(upper), key)

getKeysAndValuesInRange(q, idx, descending) ==
    LET keys == SelectSeq(Keys(idx, collection), LAMBDA key : WithinBoundsFromQuery(q, idx, key))
    IN  IF descending THEN Reverse(keys) ELSE keys

SortedUnless(items, orders) == IF orders = <<>> THEN items ELSE Sorted(items, orders)

filterIndexOrderingCandidateResults(items, q, opts, found) ==
    LET merge == opts.merge /\ found.retrievalCost # MaxCost
    IN  SelectSeq(items, LAMBDA o : IF merge THEN o \in found.contains ELSE Matches(q, o))

retrieveWithIndexOrderingMainResults(q, opts, idx, found) ==
    LET keys == getKeysAndValuesInRange(q, idx, opts.orderBy[1].descending)
        orders == determineAdditionalSortOrdersForIndexOrdering(idx.attribute, idx.quantized, opts)
        buckets == [i \in DOMAIN keys |->
                       SortedUnless(StoredAt(idx, collection, keys[i]).items, orders)]
    IN  filterIndexOrderingCandidateResults(FlattenSeq(buckets), q, opts, found)

(* The objects without a value, which the index does not hold; the index    *)
(* that answers not(has(a)) is never quantized.                             *)
retrieveWithIndexOrderingMissingResults(q, opts, a, found) ==
    SortedUnless(
        filterIndexOrderingCandidateResults(
            retrieveRecursive(not(has(a)), opts).items, q, opts, found),
        determineAdditionalSortOrdersForIndexOrdering(a, FALSE, opts))

Combined(order, main, missing) == IF MissingFirst(order) THEN missing \o main ELSE main \o missing

(* Only iteration uses the index: contains(), size() and the costs are      *)
(* those of the query without ordering.                                     *)
retrieveWithIndexOrdering(q, opts, idx, found) ==
    LET a == idx.attribute
        combined == Combined(opts.orderBy[1],
                        retrieveWithIndexOrderingMainResults(q, opts, idx, found),
                        IF CanHaveZeroValues(a)
                        THEN retrieveWithIndexOrderingMissingResults(q, opts, a, found) ELSE <<>>)
    IN  [retrieveWithoutIndexOrdering(found, opts, <<>>) EXCEPT
            !.items = IF CanHaveMoreThanOneValue(a) THEN Deduplicated(combined) ELSE combined,
            !.query = q, !.byContents = FALSE]

(* The candidates for ordering: sorted and not quantized, on an attribute   *)
(* every object has, or whose missing objects have a standing query index.  *)
IndexesForOrdering(opts) ==
    LET a == opts.orderBy[1].attribute
    IN  IF opts.orderBy # <<>> /\ opts.threshold # 0
           /\ (~CanHaveZeroValues(a) \/ standingQueryIndexes(not(has(a))) # <<>>)
        THEN SelectSeq(getIndexesOnAttribute(a),
                       LAMBDA idx : IsSortedIndex(idx) /\ ~idx.quantized)
        ELSE <<>>

(* querySelectivity > selectivityThreshold: sort the results instead.       *)
TooSelective(queryCardinality, indexCardinality, threshold) ==
    \/ indexCardinality = 0
    \/ /\ queryCardinality <= indexCardinality
       /\ 10 * (indexCardinality - queryCardinality) > threshold * indexCardinality

UsesForOrdering(idx, opts, found) ==
    LET hasValue == has(idx.attribute)
    IN  \/ opts.threshold = 10
        \/ /\ supportsQuery(idx, hasValue, opts)
           /\ ~TooSelective(found.mergeCost,
                            indexRetrieve(idx, collection, hasValue, opts).mergeCost, opts.threshold)

retrieveResultSet(q, opts, found) ==
    LET candidates == IndexesForOrdering(opts)
    IN  IF candidates # <<>> /\ UsesForOrdering(Head(candidates), opts, found)
        THEN retrieveWithIndexOrdering(q, opts, Head(candidates), found)
        ELSE retrieveWithoutIndexOrdering(found, opts, opts.orderBy)

retrieve(q, options) ==
    LET opts == [root |-> q] @@ options
    IN  retrieveResultSet(q, opts, retrieveRecursive(q, opts))

----------------------------------------------------------------------------
Init ==
    /\ collection = {}
    /\ indexes = <<>>
    /\ request = NoRequest
    /\ resultSet = NoResultSet

AddAll(batch) ==
    /\ request = NoRequest
    /\ collection' = collection \cup batch
    /\ UNCHANGED <<indexes, request, resultSet>>

RemoveAll(batch) ==
    /\ request = NoRequest
    /\ collection' = collection \ batch
    /\ UNCHANGED <<indexes, request, resultSet>>

(* Mutant: the same index may be added again.                               *)
AddIndexAgain(idx) ==
    /\ request = NoRequest
    /\ Len(indexes) < MaxIndexes
    /\ indexes' = Append(indexes, idx)
    /\ UNCHANGED <<collection, request, resultSet>>

(* addIndex() refuses an index equal to one of the registered.  Registries  *)
(* are hash tables: where the new index is iterated is not determined.      *)
AddIndex(idx) ==
    /\ request = NoRequest
    /\ idx \notin ToSet(indexes)
    /\ Len(indexes) < MaxIndexes
    /\ \E i \in 0..Len(indexes) : indexes' = InsertAt(indexes, i + 1, idx)
    /\ UNCHANGED <<collection, request, resultSet>>

RemoveIndex(idx) ==
    /\ request = NoRequest
    /\ idx \in ToSet(indexes)
    /\ indexes' = SelectSeq(indexes, LAMBDA other : other # idx)
    /\ UNCHANGED <<collection, request, resultSet>>

Retrieve(q, options) ==
    /\ request = NoRequest
    /\ request' = <<q, options>>
    /\ resultSet' = retrieve(q, options)
    /\ UNCHANGED <<collection, indexes>>

Close ==
    /\ request # NoRequest
    /\ request' = NoRequest
    /\ resultSet' = NoResultSet
    /\ UNCHANGED <<collection, indexes>>

Next ==
    \/ \E batch \in Batches : AddAll(batch) \/ RemoveAll(batch)
    \/ \E idx \in Catalogue : AddIndex(idx) \/ RemoveIndex(idx)
    \/ \E r \in Requests : Retrieve(r[1], r[2])
    \/ Close

Spec == Init /\ [][Next]_vars

----------------------------------------------------------------------------
(* Objects and indexes are the ones given, and no index is registered twice *)
(* (the check of addIndex() for an equivalent index).                       *)
TypeOK ==
    /\ collection \subseteq Object
    /\ ToSet(indexes) \subseteq Catalogue
    /\ IsInjective(indexes)
    /\ request \in Requests \cup {NoRequest}
    /\ ToSet(resultSet.items) \cup resultSet.contains \subseteq Object

(* Iterating the result set of retrieve() returns the objects which match   *)
(* the query, whatever indexes there are and whichever were chosen, however *)
(* branches are merged, deduplicated and ordered.                           *)
Answers ==
    request # NoRequest => ToSet(resultSet.items) = Meaning(request[1], collection)

(* contains(), which goes through the indexes even where iteration filters  *)
(* with matches(), gives the same answer.                                   *)
ContainsAgrees ==
    request # NoRequest => resultSet.contains = Meaning(request[1], collection)

(* With either deduplication strategy no object is iterated twice, and      *)
(* size() counts what iteration returns.                                    *)
NoDuplicates ==
    request # NoRequest /\ request[2].deduplication # "none" =>
        /\ IsInjective(resultSet.items)
        /\ resultSet.size = Len(resultSet.items)

(* Results come in the order of the orderBy option, sorted afterwards or    *)
(* read from an index in order, missing values where the option puts them.  *)
Ordered ==
    request # NoRequest =>
        \A i, j \in DOMAIN resultSet.items :
            i < j => compareByOrders(request[2].orderBy, resultSet.items[i], resultSet.items[j]) <= 0
============================================================================
