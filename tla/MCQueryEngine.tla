--------------------------- MODULE MCQueryEngine ---------------------------
(* Four objects, an attribute of each kind.  With a quantum of 5, A puts    *)
(* o1 and o2 into one bucket (-3 and 2 are truncated to 0) and o3 and o4    *)
(* into two others; B repeats a value and is missing once; M has an object  *)
(* without, with one and with several values, one of them twice.            *)
EXTENDS QueryEngine

MCKind == [A |-> "simple", B |-> "nullable", M |-> "multi"]

MCValues ==
    [A |-> [o1 |-> <<2>>,    o2 |-> <<-3>>, o3 |-> <<7>>,    o4 |-> <<-6>>],
     B |-> [o1 |-> <<1>>,    o2 |-> <<>>,   o3 |-> <<1>>,    o4 |-> <<3>>],
     M |-> [o1 |-> <<7, 1, 7>>, o2 |-> <<7>>, o3 |-> <<>>, o4 |-> <<2, 6>>]]

MCIteration == <<"o2", "o4", "o1", "o3">>

MCBatches == {{"o1", "o2"}, {"o3", "o4"}}

Index(kind, a, quantized, filter) ==
    [kind |-> kind, attribute |-> a, quantized |-> quantized, filter |-> filter]

Standing(q) == [kind |-> "standing", standingQuery |-> q]

Compound(as) == [kind |-> "compound", attributes |-> as]

Filter == greaterThan("A", -3, TRUE)

MCCatalogue ==
    {Index("hash", "A", TRUE, all), Index("navigable", "A", FALSE, all),
     Index("navigable", "A", TRUE, all), Index("unique", "A", FALSE, all),
     Index("hash", "B", FALSE, all), Index("navigable", "B", FALSE, all),
     Index("hash", "M", FALSE, all), Index("navigable", "M", FALSE, all),
     Index("hash", "B", FALSE, Filter), Index("sqlite", "A", FALSE, all),
     Index("sqlite", "B", FALSE, all), Index("sqlite", "M", FALSE, all),
     Standing(not(has("B"))), Compound(<<"B", "A">>)}

SomeSimple ==
    {equal("A", 2), equal("B", 1), equal("M", 7),
     in("A", <<2, -3, 9>>, TRUE), in("M", <<1, 7>>, FALSE),
     has("B"), has("M"), all, none,
     lessThan("A", 3, FALSE), Filter, greaterThan("M", 1, FALSE),
     between("A", -4, FALSE, 2, TRUE), between("M", 2, TRUE, 7, FALSE),
     filterQuery("B", {1, 2})}

SomeLogical ==
    {and(<<equal("B", 1), equal("A", 2)>>),
     and(<<equal("B", 1), Filter>>),
     and(<<has("M"), lessThan("A", 3, FALSE), filterQuery("B", {1, 2})>>),
     and(<<in("M", <<1, 7>>, FALSE), not(equal("B", 1))>>),
     or(<<equal("B", 1), equal("M", 7)>>, FALSE),
     or(<<equal("A", 2), filterQuery("B", {1})>>, FALSE),
     or(<<equal("A", 2), equal("B", 3)>>, TRUE),
     or(<<has("B"), and(<<has("M"), equal("A", 2)>>), not(has("B"))>>, FALSE),
     not(has("B")), not(in("M", <<1, 7>>, FALSE)),
     not(or(<<equal("B", 1), equal("A", -3)>>, FALSE))}

(* Comparative queries have no matches(): they are asked for without an     *)
(* index for the ordering of results.                                       *)
SomeComparative ==
    {max("A"), min("M"), not(max("B")), and(<<max("A"), has("M")>>),
     and(<<min("B"), max("M"), lessThan("A", 3, FALSE)>>),
     or(<<min("A"), equal("B", 1), max("M")>>, FALSE)}

Order(a, descending, missing) ==
    [attribute |-> a, descending |-> descending, missing |-> missing]

Opts(deduplication, merge, orderBy, threshold, fast) ==
    [deduplication |-> deduplication, merge |-> merge, orderBy |-> orderBy,
     threshold |-> threshold, fast |-> fast]

SomeOptions ==
    {Opts("none", FALSE, <<>>, 0, FALSE), Opts("logical", TRUE, <<>>, 0, FALSE),
     Opts("logical", FALSE, <<Order("B", TRUE, "first"), Order("A", FALSE, "default")>>, 10, FALSE),
     Opts("materialize", TRUE, <<Order("B", FALSE, "default"), Order("A", TRUE, "default")>>, 5, FALSE),
     Opts("materialize", FALSE, <<Order("A", FALSE, "default")>>, 5, TRUE),
     Opts("materialize", FALSE, <<Order("M", FALSE, "last")>>, 0, FALSE)}

MCRequests ==
    ((SomeSimple \cup SomeLogical) \X SomeOptions)
    \cup (SomeComparative \X {options \in SomeOptions : options.threshold = 0})

----------------------------------------------------------------------------
(* A quantized navigable index on the multi-valued attribute, range queries *)
(* and logical elimination of duplicates.                                   *)
QuantizedCatalogue == {Index("navigable", "M", TRUE, all)}

RangeRequests ==
    {greaterThan("M", 1, FALSE), lessThan("M", 7, TRUE)}
    \X {Opts("none", FALSE, <<>>, 0, FALSE), Opts("logical", FALSE, <<>>, 0, FALSE)}
============================================================================
