------------------------------ MODULE Indexes ------------------------------
(***************************************************************************)
(* What the indexes of CQEngine answer (package index).  An index on an    *)
(* attribute is a record of its kind ("hash", "navigable", "unique", or    *)
(* "sqlite" for a table of an SQLite database), the attribute, whether a   *)
(* Quantizer groups its keys and, for a partial index, the filter query:   *)
(* the query all stands for no filter.  A compound index has a list of     *)
(* attributes, a standing query index its query.  Contents are those at    *)
(* rest for a collection S: what the mutators do to them step by step is   *)
(* ConcurrentIndexedCollection's.                                          *)
(***************************************************************************)
EXTENDS ResultSets, Quantizers

IsAttributeIndex(idx) == idx.kind \in {"hash", "navigable", "unique", "sqlite"}

(* SortedKeyStatisticsAttributeIndex: its keys can be read in order.        *)
IsSortedIndex(idx) == idx.kind \in {"navigable", "sqlite"}

IsPartial(idx) == idx.filter # all

INDEX_RETRIEVAL_COST(idx) ==
    CASE idx.kind = "hash" -> 30 [] idx.kind = "navigable" -> 40
      [] idx.kind = "unique" -> 25 [] idx.kind = "sqlite" -> 80

INDEX_RETRIEVAL_COST_DELTA == -5     \* of partial indexes

(* A partial index holds the objects which match its filter query.          *)
Indexed(idx, S) == IF IsPartial(idx) THEN {o \in S : Matches(idx.filter, o)} ELSE S

(* The keys of an index on an attribute, in ascending order, and the stored *)
(* set at a key.                                                            *)
Keys(idx, S) == SetToSortSeq(UNION {KeysOf(idx, o) : o \in Indexed(idx, S)}, <)

StoredAt(idx, S, key) ==
    StoredSetBasedResultSet({o \in Indexed(idx, S) : key \in KeysOf(idx, o)})

----------------------------------------------------------------------------
SupportedQueries(kind) ==
    CASE kind = "hash"      -> {"equal", "in", "has"}
      [] kind = "navigable" -> {"equal", "in", "has", "lessThan", "greaterThan", "between"}
      [] kind = "unique"    -> {"equal", "in"}
      [] kind = "sqlite"    -> {"equal", "in", "has", "lessThan", "greaterThan", "between", "filter"}

(* PartialIndex.supportsQueryInternal: the root query is the filter query,  *)
(* or an and() with it, or with all of its children, among the children.    *)
RootImpliesFilter(filter, root) ==
    \/ filter = root
    \/ /\ root.type = "and"
       /\ \/ filter \in ToSet(root.children)
          \/ filter.type = "and" /\ ToSet(filter.children) \subseteq ToSet(root.children)

supportsQuery(idx, q, opts) ==
    /\ q.type \in SupportedQueries(idx.kind)
    /\ IsPartial(idx) => RootImpliesFilter(idx.filter, opts.root)

----------------------------------------------------------------------------
(* Mutant: contains() of the quantized set is not filtered.                 *)
FilterIterationOnly(idx, rs, q) ==
    IF idx.quantized THEN [QuantizedResultSet(rs, q) EXCEPT !.contains = rs.contains] ELSE rs

filterForQuantization(idx, rs, q) ==
    IF idx.quantized THEN QuantizedResultSet(rs, q) ELSE rs

(* Mutant: values are taken to be disjoint for every attribute.             *)
NeverDeduplicate(rss, q, idx, opts) ==
    [ResultSetUnionAll(rss, q) EXCEPT !.retrievalCost = INDEX_RETRIEVAL_COST(idx)]

(* deduplicateIfNecessary of IndexSupport.                                  *)
deduplicateIfNecessary(rss, q, idx, opts) ==
    LET attributeHasAtMostOneValue == Kind[idx.attribute] \in {"simple", "nullable"}
        queryIsADisjointInQuery == q.type = "in" /\ q.disjoint
        union == IF \/ opts.deduplication # "logical"
                    \/ attributeHasAtMostOneValue
                    \/ queryIsADisjointInQuery
                 THEN ResultSetUnionAll(rss, q)
                 ELSE ResultSetUnion(rss, q, FALSE)
    IN  [union EXCEPT !.retrievalCost = INDEX_RETRIEVAL_COST(idx)]

(* The set stored at the quantized value, filtered; its merge cost is the   *)
(* size before filtering.                                                   *)
retrieveEqual(idx, S, q) ==
    LET stored == StoredAt(idx, S, getQuantizedValue(idx, q.value))
    IN  [filterForQuantization(idx, stored, q) EXCEPT
            !.query = q, !.byContents = FALSE,
            !.retrievalCost = INDEX_RETRIEVAL_COST(idx), !.mergeCost = stored.size]

retrieveIn(idx, S, q, opts) ==
    deduplicateIfNecessary(
        [i \in DOMAIN q.values |-> retrieveEqual(idx, S, equal(q.attribute, q.values[i]))],
        q, idx, opts)

retrieveHas(idx, S, q, opts) ==
    LET keys == Keys(idx, S)
    IN  deduplicateIfNecessary([i \in DOMAIN keys |-> StoredAt(idx, S, keys[i])], q, idx, opts)

addFilteringForQuantization(idx, rss, q) ==
    [i \in DOMAIN rss |->
        IF i \in BucketsToFilter(idx, q, Len(rss)) THEN QuantizedResultSet(rss[i], q) ELSE rss[i]]

retrieveRange(idx, S, q, opts) ==
    LET keys == SelectSeq(Keys(idx, S),
                          LAMBDA key : InRange(idx, q, key))
        rss == [i \in DOMAIN keys |-> StoredAt(idx, S, keys[i])]
    IN  deduplicateIfNecessary(addFilteringForQuantization(idx, rss, q), q, idx, opts)

DiscountedIfPartial(idx, rs) ==
    IF IsPartial(idx) THEN [rs EXCEPT !.retrievalCost = @ + INDEX_RETRIEVAL_COST_DELTA] ELSE rs

(* The WHERE clause of a query, and the condition of a FilterQuery, which   *)
(* is evaluated row by row.                                                 *)
Where(q, v) ==
    CASE q.type = "equal"       -> v = q.value
      [] q.type = "in"          -> v \in ToSet(q.values)
      [] q.type = "has"         -> TRUE
      [] q.type = "lessThan"    -> Below(v, q.value, q.inclusive)
      [] q.type = "greaterThan" -> Above(v, q.value, q.inclusive)
      [] q.type = "between"     -> Above(v, q.lower, q.lowerInclusive) /\ Below(v, q.upper, q.upperInclusive)
      [] q.type = "filter"      -> v \in q.accepted

(* The values of o in the rows (objectKey, value) that satisfy the clause.  *)
RowsOf(idx, q, o) == {v \in ValuesOf(idx.attribute, o) : Where(q, v)}

(* SELECT DISTINCT objectKey, or for a FilterQuery all rows in the order of *)
(* their keys, so that an object is returned once for every row accepted.   *)
(* The merge cost counts rows, not objects; for a FilterQuery all of them.  *)
sqliteRetrieve(idx, S, q) ==
    LET found == {o \in Indexed(idx, S) : RowsOf(idx, q, o) # {}}
        repeated(o) == [i \in 1..Cardinality(RowsOf(idx, q, o)) |-> o]
        inOrder == InOrder(found)
        count(clause) == FoldLeft(LAMBDA n, o : n + Cardinality(RowsOf(idx, clause, o)), 0,
                                  InOrder(Indexed(idx, S)))
        distinct == [StoredSetBasedResultSet(found) EXCEPT
                        !.query = q, !.byContents = FALSE,
                        !.retrievalCost = INDEX_RETRIEVAL_COST(idx), !.mergeCost = count(q)]
    IN  IF q.type # "filter" THEN distinct
        ELSE [distinct EXCEPT !.items = FlattenSeq([i \in DOMAIN inOrder |-> repeated(inOrder[i])]),
                              !.retrievalCost = @ + 1, !.mergeCost = count(has(q.attribute))]

(* retrieve() of an index on an attribute.                                  *)
indexRetrieve(idx, S, q, opts) ==
    DiscountedIfPartial(idx,
        IF idx.kind = "sqlite" THEN sqliteRetrieve(idx, S, q)
        ELSE CASE q.type = "equal" -> retrieveEqual(idx, S, q)
               [] q.type = "in"    -> retrieveIn(idx, S, q, opts)
               [] q.type = "has"   -> retrieveHas(idx, S, q, opts)
               [] q.type \in {"lessThan", "greaterThan", "between"} -> retrieveRange(idx, S, q, opts))

----------------------------------------------------------------------------
standingQueryRetrieve(idx, S) ==
    [StoredSetBasedResultSet({o \in S : Matches(idx.standingQuery, o)}) EXCEPT
        !.retrievalCost = 10]

(* CompoundQuery.fromAndQueryIfSuitable: only equal() queries.              *)
SuitableForCompound(q) == \A i \in DOMAIN q.children : q.children[i].type = "equal"

CompoundAttribute(q) == [i \in DOMAIN q.children |-> q.children[i].attribute]

(* An object is stored at every combination of its attributes' values.      *)
compoundRetrieve(S, q) ==
    LET stored == {o \in S : \A i \in DOMAIN q.children : EqualMatches(q.children[i], o)}
    IN  [StoredSetBasedResultSet(stored) EXCEPT
            !.query = q, !.byContents = FALSE, !.retrievalCost = 20]

(* FallbackIndex: a scan of the collection.                                 *)
fallbackRetrieve(S, q) ==
    LET found == IF IsComparative(q) THEN GetMatches(q, S) ELSE {o \in S : Matches(q, o)}
        cost == IF q.type = "none" THEN 0 ELSE MaxCost
    IN  [StoredSetBasedResultSet(found) EXCEPT
            !.query = q, !.byContents = IsComparative(q),
            !.retrievalCost = cost, !.mergeCost = cost]
============================================================================
