-------------------------- MODULE QuantizersProofs --------------------------
(***************************************************************************)
(* That an index with quantized keys answers range queries,                *)
(* for every compression factor, every collection and every attribute, the *)
(* multi-valued ones included.  Which buckets a query reads and which of   *)
(* them are filtered decides it: a bucket too few loses results, a filter  *)
(* too few returns objects outside the range.                              *)
(***************************************************************************)
EXTENDS Quantizers, TLAPS

\* The range queries on integers.
RangeQuery ==
    [type : {"lessThan", "greaterThan"}, attribute : Attribute, value : Int, inclusive : BOOLEAN]
    \cup [type : {"between"}, attribute : Attribute, lower : Int, lowerInclusive : BOOLEAN,
          upper : Int, upperInclusive : BOOLEAN]

\* What an index on an attribute says about its keys.
Quantized(idx) == idx.quantized \in BOOLEAN /\ idx.attribute \in Attribute

\* The value v satisfies the range query q (the test of the matches() methods).
ValueMatches(q, v) ==
    CASE q.type = "lessThan"    -> Below(v, q.value, q.inclusive)
      [] q.type = "greaterThan" -> Above(v, q.value, q.inclusive)
      [] q.type = "between"     -> Above(v, q.lower, q.lowerInclusive) /\ Below(v, q.upper, q.upperInclusive)

\* keys is what subMap(), headMap() or tailMap() iterate for q: the keys of S in the
\* range, in ascending order.
KeysRead(idx, q, S, keys) ==
    /\ keys \in Seq(Int)
    /\ \A i, j \in DOMAIN keys : i < j => keys[i] < keys[j]
    /\ {keys[i] : i \in DOMAIN keys} = {key \in UNION {KeysOf(idx, o) : o \in S} : InRange(idx, q, key)}

\* What the buckets at these keys return of S, those that are to be filtered filtered.
BucketsReturn(idx, q, S, keys) ==
    {o \in S : \E i \in DOMAIN keys :
        /\ keys[i] \in KeysOf(idx, o)
        /\ i \in BucketsToFilter(idx, q, Len(keys)) => SimpleQueryMatches(q, o)}

-----------------------------------------------------------------------------
(* Quantization is monotone.                                               *)

\* Division of naturals rounds down.
LEMMA Quotient ==
    ASSUME NEW n \in Nat
    PROVE  /\ n \div Quantum \in Nat
           /\ (n \div Quantum) * Quantum <= n
           /\ n < ((n \div Quantum) + 1) * Quantum
  BY QuantumAssumption

\* Rounding naturals down to a multiple of the compression factor is monotone.
LEMMA DownMonotone ==
    ASSUME NEW m \in Nat, NEW n \in Nat, m <= n
    PROVE  (m \div Quantum) * Quantum <= (n \div Quantum) * Quantum
<1> DEFINE j == m \div Quantum
           k == n \div Quantum
<1>1. j \in Nat /\ k \in Nat /\ Quantum \in Nat /\ j * Quantum <= m /\ n < (k + 1) * Quantum
  BY Quotient, QuantumAssumption
<1> HIDE DEF j, k
<1>2. j * Quantum < (k + 1) * Quantum
  BY <1>1
<1>3. j < k + 1
  BY <1>1, <1>2, QuantumAssumption
<1>4. j * Quantum <= k * Quantum
  BY <1>1, <1>3
<1> QED BY <1>4 DEF j, k

\* The rounded value of a natural is one, too.
LEMMA DownNat ==
    ASSUME NEW n \in Nat
    PROVE  (n \div Quantum) * Quantum \in Nat
  BY Quotient, QuantumAssumption

\* getQuantizedValue() of an integer is an integer.
LEMMA QuantizedType ==
    ASSUME NEW idx, Quantized(idx), NEW v \in Int
    PROVE  getQuantizedValue(idx, v) \in Int
<1>1. CASE v >= 0 BY <1>1, DownNat DEF getQuantizedValue
<1>2. CASE v < 0
  <2>1. -v \in Nat BY <1>2
  <2> QED BY <1>2, <2>1, DownNat DEF getQuantizedValue
<1> QED BY <1>1, <1>2

\* IntegerQuantizer keeps the order of values, although it truncates towards zero and so
\* rounds negative values up and others down.
THEOREM QuantizationMonotone ==
    ASSUME NEW idx, Quantized(idx), NEW v \in Int, NEW w \in Int, v <= w
    PROVE  getQuantizedValue(idx, v) <= getQuantizedValue(idx, w)
<1>0. CASE ~idx.quantized BY <1>0 DEF getQuantizedValue
<1>1. CASE idx.quantized /\ v >= 0
  BY <1>1, DownMonotone DEF getQuantizedValue
<1>2. CASE idx.quantized /\ v < 0 /\ w >= 0
  <2>1. -v \in Nat /\ w \in Nat BY <1>2
  <2> DEFINE x == ((-v) \div Quantum) * Quantum
             y == (w \div Quantum) * Quantum
  <2>2. x \in Nat /\ y \in Nat BY <2>1, DownNat
  <2>3. getQuantizedValue(idx, v) = -x /\ getQuantizedValue(idx, w) = y
    BY <1>2 DEF getQuantizedValue
  <2> HIDE DEF x, y
  <2> QED BY <2>2, <2>3
<1>3. CASE idx.quantized /\ w < 0
  <2>1. -v \in Nat /\ -w \in Nat /\ -w <= -v BY <1>3
  <2> DEFINE x == ((-v) \div Quantum) * Quantum
             y == ((-w) \div Quantum) * Quantum
  <2>2. x \in Nat /\ y \in Nat /\ y <= x BY <2>1, DownNat, DownMonotone
  <2>3. getQuantizedValue(idx, v) = -x /\ getQuantizedValue(idx, w) = -y
    BY <1>3 DEF getQuantizedValue
  <2> HIDE DEF x, y
  <2> QED BY <2>2, <2>3
<1> QED BY <1>0, <1>1, <1>2, <1>3 DEF Quantized

\* Hence values of different buckets are ordered like their buckets.
LEMMA BucketsApart ==
    ASSUME NEW idx, Quantized(idx), NEW v \in Int, NEW w \in Int,
           getQuantizedValue(idx, v) < getQuantizedValue(idx, w)
    PROVE  v < w
<1>1. ASSUME w <= v PROVE FALSE
  <2>1. getQuantizedValue(idx, w) <= getQuantizedValue(idx, v) BY <1>1, QuantizationMonotone
  <2> QED BY <2>1, QuantizedType
<1> QED BY <1>1

-----------------------------------------------------------------------------
(* Ranges of keys.                                                         *)

\* matches() of a range query tests whether some value is in the range.
LEMMA RangeMatches ==
    ASSUME NEW q \in RangeQuery, NEW o
    PROVE  SimpleQueryMatches(q, o) <=> \E v \in ValuesOf(q.attribute, o) : ValueMatches(q, v)
  BY DEF RangeQuery, SimpleQueryMatches, ValueMatches, LessThanMatches, GreaterThanMatches, BetweenMatches

\* The values of attributes are integers.
LEMMA ValuesAreIntegers ==
    ASSUME NEW a \in Attribute, NEW o \in Object
    PROVE  ValuesOf(a, o) \subseteq Int
  BY AttributesAssumption DEF ValuesOf, ToSet

\* No key of a matching value is left out.
LEMMA MatchingKeyInRange ==
    ASSUME NEW idx, Quantized(idx), NEW q \in RangeQuery, NEW v \in Int, ValueMatches(q, v)
    PROVE  InRange(idx, q, getQuantizedValue(idx, v))
<1> DEFINE key(x) == getQuantizedValue(idx, x)
<1>1. CASE idx.quantized
  <2>1. CASE q.type = "lessThan"
    <3>1. q.value \in Int /\ v <= q.value
      BY <2>1 DEF RangeQuery, ValueMatches, Below
    <3>2. key(v) \in Int /\ key(q.value) \in Int /\ key(v) <= key(q.value)
      BY <3>1, QuantizedType, QuantizationMonotone
    <3> HIDE DEF key
    <3> QED BY <1>1, <2>1, <3>2 DEF InRange, AboveLowerEnd, BelowUpperEnd, Below, key
  <2>2. CASE q.type = "greaterThan"
    <3>1. q.value \in Int /\ q.value <= v
      BY <2>2 DEF RangeQuery, ValueMatches, Above
    <3>2. key(v) \in Int /\ key(q.value) \in Int /\ key(q.value) <= key(v)
      BY <3>1, QuantizedType, QuantizationMonotone
    <3> QED BY <1>1, <2>2, <3>2 DEF InRange, AboveLowerEnd, BelowUpperEnd, Above
  <2>3. CASE q.type = "between"
    <3>1. q.lower \in Int /\ q.upper \in Int /\ q.lower <= v /\ v <= q.upper
      BY <2>3 DEF RangeQuery, ValueMatches, Above, Below
    <3>2. /\ key(v) \in Int /\ key(q.lower) \in Int /\ key(q.upper) \in Int
          /\ key(q.lower) <= key(v) /\ key(v) <= key(q.upper)
      BY <3>1, QuantizedType, QuantizationMonotone
    <3> QED BY <1>1, <2>3, <3>2 DEF InRange, AboveLowerEnd, BelowUpperEnd, Above, Below
  <2> QED BY <2>1, <2>2, <2>3 DEF RangeQuery
<1>2. CASE ~idx.quantized
  BY <1>2 DEF RangeQuery, ValueMatches, InRange, AboveLowerEnd, BelowUpperEnd, getQuantizedValue, Quantized
<1> QED BY <1>1, <1>2 DEF Quantized

\* Without a quantizer a key in the range is a value in the range.
LEMMA ExactRange ==
    ASSUME NEW idx, Quantized(idx), ~idx.quantized, NEW q \in RangeQuery, NEW v \in Int,
           InRange(idx, q, getQuantizedValue(idx, v))
    PROVE  ValueMatches(q, v)
  BY DEF RangeQuery, ValueMatches, InRange, AboveLowerEnd, BelowUpperEnd, getQuantizedValue, Quantized

\* A bucket in the range that is neither the first nor, where that matters, the last holds
\* only values in the range: there is a bucket between it and each bound.
LEMMA InnerBucket ==
    ASSUME NEW idx, Quantized(idx), NEW q \in RangeQuery, NEW v \in Int, NEW S, NEW keys,
           KeysRead(idx, q, S, keys),
           NEW i \in DOMAIN keys, i \notin BucketsToFilter(idx, q, Len(keys)),
           keys[i] = getQuantizedValue(idx, v)
    PROVE  ValueMatches(q, v)
<1> DEFINE key(x) == getQuantizedValue(idx, x)
<1>0. /\ keys \in Seq(Int) /\ DOMAIN keys = 1 .. Len(keys) /\ Len(keys) \in Nat
      /\ \A j \in DOMAIN keys : keys[j] \in Int /\ InRange(idx, q, keys[j])
      /\ \A j, k \in DOMAIN keys : j < k => keys[j] < keys[k]
  BY DEF KeysRead
<1>1. CASE ~idx.quantized
  BY <1>0, <1>1, ExactRange
<1>2. CASE idx.quantized
  <2>1. ASSUME q.type \in {"greaterThan", "between"}, NEW lower \in Int,
               \A j \in DOMAIN keys : key(lower) <= keys[j]
        PROVE  lower < v
    <3>1. 1 \in DOMAIN keys /\ 1 < i BY <1>0, <1>2, <2>1 DEF BucketsToFilter
    <3>2. keys[1] < keys[i] /\ key(lower) <= keys[1] /\ keys[1] \in Int /\ keys[i] \in Int
      BY <1>0, <2>1, <3>1
    <3>3. key(lower) \in Int /\ key(v) = keys[i] BY <2>1, QuantizedType
    <3>4. key(lower) < key(v) BY <3>2, <3>3
    <3> QED BY <2>1, <3>4, BucketsApart
  <2>2. ASSUME q.type \in {"lessThan", "between"}, NEW upper \in Int,
               \A j \in DOMAIN keys : keys[j] <= key(upper)
        PROVE  v < upper
    <3>1. Len(keys) \in DOMAIN keys /\ i < Len(keys) BY <1>0, <1>2, <2>2 DEF BucketsToFilter
    <3>2. keys[i] < keys[Len(keys)] /\ keys[Len(keys)] <= key(upper)
          /\ keys[Len(keys)] \in Int /\ keys[i] \in Int
      BY <1>0, <2>2, <3>1
    <3>3. key(upper) \in Int /\ key(v) = keys[i] BY <2>2, QuantizedType
    <3>4. key(v) < key(upper) BY <3>2, <3>3
    <3> QED BY <2>2, <3>4, BucketsApart
  <2>3. CASE q.type = "lessThan"
    <3>1. q.value \in Int BY <2>3 DEF RangeQuery
    <3>2. \A j \in DOMAIN keys : keys[j] <= key(q.value)
      <4>1. key(q.value) \in Int BY <3>1, QuantizedType
      <4> HIDE DEF key
      <4>2. TAKE j \in DOMAIN keys
      <4>3. keys[j] \in Int /\ BelowUpperEnd(idx, q, keys[j])
        BY <1>0 DEF InRange
      <4> QED BY <2>3, <4>1, <4>3 DEF BelowUpperEnd, Below, key
    <3>3. v < q.value BY <2>2, <2>3, <3>1, <3>2
    <3> QED BY <2>3, <3>3 DEF ValueMatches, Below
  <2>4. CASE q.type = "greaterThan"
    <3>1. q.value \in Int BY <2>4 DEF RangeQuery
    <3>2. \A j \in DOMAIN keys : key(q.value) <= keys[j]
      <4>1. key(q.value) \in Int BY <3>1, QuantizedType
      <4> HIDE DEF key
      <4>2. TAKE j \in DOMAIN keys
      <4>3. keys[j] \in Int /\ AboveLowerEnd(idx, q, keys[j])
        BY <1>0 DEF InRange
      <4> QED BY <2>4, <4>1, <4>3 DEF AboveLowerEnd, Above, key
    <3>3. q.value < v BY <2>1, <2>4, <3>1, <3>2
    <3> QED BY <2>4, <3>1, <3>3 DEF ValueMatches, Above
  <2>5. CASE q.type = "between"
    <3>1. q.lower \in Int /\ q.upper \in Int BY <2>5 DEF RangeQuery
    <3>2. \A j \in DOMAIN keys : key(q.lower) <= keys[j] /\ keys[j] <= key(q.upper)
      <4>1. key(q.lower) \in Int /\ key(q.upper) \in Int BY <3>1, QuantizedType
      <4> HIDE DEF key
      <4>2. TAKE j \in DOMAIN keys
      <4>3. keys[j] \in Int /\ AboveLowerEnd(idx, q, keys[j]) /\ BelowUpperEnd(idx, q, keys[j])
        BY <1>0 DEF InRange
      <4>4. key(q.lower) <= keys[j] BY <2>5, <4>1, <4>3 DEF AboveLowerEnd, Above, key
      <4>5. keys[j] <= key(q.upper) BY <2>5, <4>1, <4>3 DEF BelowUpperEnd, Below, key
      <4> QED BY <4>4, <4>5
    <3>3. q.lower < v /\ v < q.upper BY <2>1, <2>2, <2>5, <3>1, <3>2
    <3> QED BY <2>5, <3>1, <3>3 DEF ValueMatches, Above, Below
  <2> QED BY <2>3, <2>4, <2>5 DEF RangeQuery
<1> QED BY <1>1, <1>2 DEF Quantized

-----------------------------------------------------------------------------
\* A range query answered by a NavigableIndex returns the objects that match it and no
\* others, with or without a quantizer: only the end buckets need to be filtered, and
\* reading both ends inclusively loses nothing.
THEOREM RangeAnswered ==
    ASSUME NEW idx, Quantized(idx), NEW q \in RangeQuery, q.attribute = idx.attribute,
           NEW S \in SUBSET Object, NEW keys, KeysRead(idx, q, S, keys)
    PROVE  BucketsReturn(idx, q, S, keys) = {o \in S : SimpleQueryMatches(q, o)}
<1>1. ASSUME NEW o \in S, SimpleQueryMatches(q, o)
      PROVE  o \in BucketsReturn(idx, q, S, keys)
  <2>1. PICK v \in ValuesOf(q.attribute, o) : ValueMatches(q, v)
    BY <1>1, RangeMatches
  <2>2. v \in Int BY ValuesAreIntegers DEF Quantized
  <2>3. getQuantizedValue(idx, v) \in KeysOf(idx, o) BY DEF KeysOf
  <2>4. InRange(idx, q, getQuantizedValue(idx, v)) BY <2>1, <2>2, MatchingKeyInRange
  <2>5. PICK i \in DOMAIN keys : keys[i] = getQuantizedValue(idx, v)
    BY <2>3, <2>4 DEF KeysRead
  <2> QED BY <1>1, <2>3, <2>5 DEF BucketsReturn
<1>2. ASSUME NEW o \in BucketsReturn(idx, q, S, keys)
      PROVE  o \in S /\ SimpleQueryMatches(q, o)
  <2>1. PICK i \in DOMAIN keys :
            keys[i] \in KeysOf(idx, o) /\ (i \in BucketsToFilter(idx, q, Len(keys)) => SimpleQueryMatches(q, o))
    BY <1>2 DEF BucketsReturn
  <2>2. o \in S BY <1>2 DEF BucketsReturn
  <2>3. CASE i \notin BucketsToFilter(idx, q, Len(keys))
    <3>1. PICK v \in ValuesOf(idx.attribute, o) : keys[i] = getQuantizedValue(idx, v)
      BY <2>1 DEF KeysOf
    <3>2. v \in Int BY <2>2, ValuesAreIntegers DEF Quantized
    <3>3. ValueMatches(q, v) BY <2>3, <3>1, <3>2, InnerBucket
    <3> QED BY <2>2, <3>1, <3>3, RangeMatches
  <2> QED BY <2>1, <2>2, <2>3
<1> QED BY <1>1, <1>2
=============================================================================
