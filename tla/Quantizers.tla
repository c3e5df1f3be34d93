---------------------------- MODULE Quantizers -----------------------------
(***************************************************************************)
(* Quantized keys (package quantizer) and the ranges of keys that a        *)
(* NavigableIndex reads. A quantized index groups neighbouring values in   *)
(* one bucket; an index is a record that says whether it is quantized (see *)
(* Indexes).                                                               *)
(***************************************************************************)
EXTENDS SimpleQueries

CONSTANT Quantum     \* the compression factor of the IntegerQuantizer in use

ASSUME QuantumAssumption == Quantum \in Int /\ Quantum >= 2

(* Integer division of Java truncates towards zero.                         *)
getQuantizedValue(idx, v) ==
    IF ~idx.quantized THEN v
    ELSE IF v >= 0 THEN (v \div Quantum) * Quantum ELSE -(((-v) \div Quantum) * Quantum)

(* The keys of an object in an index on an attribute.                       *)
KeysOf(idx, o) == {getQuantizedValue(idx, v) : v \in ValuesOf(idx.attribute, o)}

----------------------------------------------------------------------------
(* Mutant: the bound stays exclusive although keys are quantized.           *)
AboveExclusiveLowerEnd(idx, q, key) ==
    CASE q.type = "lessThan"    -> TRUE
      [] q.type = "greaterThan" -> Above(key, getQuantizedValue(idx, q.value), q.inclusive)
      [] q.type = "between"     -> Above(key, getQuantizedValue(idx, q.lower), q.lowerInclusive)

(* The keys a range query reads: with a quantizer both ends are inclusive,  *)
(* since the end buckets mix values on either side of the bound.            *)
AboveLowerEnd(idx, q, key) ==
    CASE q.type = "lessThan"    -> TRUE
      [] q.type = "greaterThan" -> Above(key, getQuantizedValue(idx, q.value), q.inclusive \/ idx.quantized)
      [] q.type = "between"     -> Above(key, getQuantizedValue(idx, q.lower), q.lowerInclusive \/ idx.quantized)

BelowUpperEnd(idx, q, key) ==
    CASE q.type = "lessThan"    -> Below(key, getQuantizedValue(idx, q.value), q.inclusive \/ idx.quantized)
      [] q.type = "greaterThan" -> TRUE
      [] q.type = "between"     -> Below(key, getQuantizedValue(idx, q.upper), q.upperInclusive \/ idx.quantized)

InRange(idx, q, key) == AboveLowerEnd(idx, q, key) /\ BelowUpperEnd(idx, q, key)

(* The end buckets of a range of n buckets are filtered when keys are       *)
(* quantized, the others are returned as they are.                          *)
BucketsToFilter(idx, q, n) ==
    {i \in 1..n : /\ idx.quantized
                  /\ \/ q.type \in {"greaterThan", "between"} /\ i = 1
                     \/ q.type \in {"lessThan", "between"} /\ i = n}
============================================================================
