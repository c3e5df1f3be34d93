----------------------- MODULE AttributeOrdersProofs -----------------------
(***************************************************************************)
(* That the comparator of orderBy is a total order for any list of orders, *)
(* as the sort of the Java library demands, and that reading the results   *)
(* from an index in order gives the order of the comparator, wherever the  *)
(* objects without a value are put.                                        *)
(***************************************************************************)
EXTENDS AttributeOrders, WellFoundedInduction, TLAPS

----------------------------------------------------------------------------
(* Comparing the values of an attribute. *)

\* A set of naturals that is not empty has a first element.
LEMMA FirstOfSet ==
    ASSUME NEW S \in SUBSET Nat, S # {}
    PROVE  FirstOf(S) \in S /\ \A j \in S : FirstOf(S) <= j
<1>1. PICK i \in S : \A j \in S : ~ (<<j, i>> \in OpToRel(<, Nat))
  BY NatLessThanWellFounded, WFMin
<1>2. ASSUME NEW j \in S, j < i PROVE FALSE
  <2>1. <<j, i>> \in Nat \X Nat /\ <<j, i>>[1] < <<j, i>>[2]
    BY <1>2
  <2>2. <<j, i>> \in OpToRel(<, Nat)
    BY <2>1 DEF OpToRel
  <2> QED BY <1>1, <2>2
<1>3. \A j \in S : i <= j
  BY <1>2
<1> QED BY <1>3 DEF FirstOf

\* An element below which there is none of the set is the first one.
LEMMA FirstOfIs ==
    ASSUME NEW S \in SUBSET Nat, NEW k \in S, \A j \in S : k <= j
    PROVE  FirstOf(S) = k
<1>1. FirstOf(S) \in S /\ FirstOf(S) <= k
  BY FirstOfSet
<1>2. FirstOf(S) \in Nat /\ k \in Nat /\ k <= FirstOf(S)
  BY <1>1
<1> QED BY <1>1, <1>2

\* Sign() of an integer.
LEMMA SignOf ==
    ASSUME NEW n \in Int
    PROVE  /\ Sign(n) \in {-1, 0, 1}
           /\ Sign(n) < 0 <=> n < 0
           /\ Sign(n) = 0 <=> n = 0
           /\ Sign(-n) = -Sign(n)
  BY DEF Sign

\* Exchanging the arguments does not change a comparison that says equal.
LEMMA MinusZero ==
    ASSUME NEW n \in Int, n = 0
    PROVE  -n = n
<1>1. \A m \in Int : m <= 0 /\ m >= 0 => -m <= m /\ m <= -m
  OBVIOUS
<1>2. n <= 0 /\ n >= 0 /\ -n \in Int
  OBVIOUS
<1>3. -n <= n /\ n <= -n
  BY <1>1, <1>2
<1>4. \A m, k \in Int : m <= k /\ k <= m => m = k
  OBVIOUS
<1> QED BY <1>2, <1>3, <1>4

\* Sign() of a difference.
LEMMA SignOfDifference ==
    ASSUME NEW m \in Int, NEW n \in Int
    PROVE  /\ m < n => Sign(m - n) = -1
           /\ m = n => Sign(m - n) = 0
           /\ m > n => Sign(m - n) = 1
  BY DEF Sign

\* The positions at which two lists of values differ.
Differ(s, t) == {i \in DOMAIN s \cap DOMAIN t : s[i] # t[i]}

\* The lexicographic order on lists of integers: t is longer than s and begins with it, or
\* is greater at the first difference.
LexLeq(s, t) ==
    \/ Len(s) <= Len(t) /\ \A i \in 1 .. Len(s) : s[i] = t[i]
    \/ \E k \in 1 .. Len(s) :
          k <= Len(t) /\ s[k] < t[k] /\ \A i \in 1 .. (k - 1) : s[i] = t[i]

\* compareAttributeValues() decides by the first difference.
LEMMA CompareIsLex ==
    ASSUME NEW a, NEW o1, NEW o2, Values[a][o1] \in Seq(Int), Values[a][o2] \in Seq(Int)
    PROVE  /\ compareAttributeValues(a, o1, o2) \in {-1, 0, 1}
           /\ compareAttributeValues(a, o2, o1) = -compareAttributeValues(a, o1, o2)
           /\ compareAttributeValues(a, o1, o2) <= 0 <=> LexLeq(Values[a][o1], Values[a][o2])
<1> DEFINE s == Values[a][o1]
           t == Values[a][o2]
           k == FirstOf(Differ(s, t))
<1>0. /\ Len(s) \in Nat /\ Len(t) \in Nat /\ DOMAIN s = 1 .. Len(s) /\ DOMAIN t = 1 .. Len(t)
      /\ \A i \in 1 .. Len(s) : s[i] \in Int
      /\ \A i \in 1 .. Len(t) : t[i] \in Int
  OBVIOUS
<1>1. Differ(s, t) = Differ(t, s)
  BY DEF Differ
<1>2. CASE Differ(s, t) = {}
  <2>1. compareAttributeValues(a, o1, o2) = Sign(Len(s) - Len(t))
    BY <1>2 DEF compareAttributeValues, Differ
  <2>2. compareAttributeValues(a, o2, o1) = Sign(Len(t) - Len(s))
    BY <1>1, <1>2 DEF compareAttributeValues, Differ
  <2>3. Len(t) - Len(s) = -(Len(s) - Len(t)) /\ Len(s) - Len(t) \in Int
    <3>1. Len(s) \in Nat /\ Len(t) \in Nat BY <1>0
    <3> HIDE DEF s, t
    <3> QED BY <3>1
  <2>4. \A i \in 1 .. Len(s) : i <= Len(t) => s[i] = t[i]
    BY <1>0, <1>2 DEF Differ
  <2>5. LexLeq(s, t) <=> Len(s) <= Len(t)
    BY <1>0, <2>4 DEF LexLeq
  <2> HIDE DEF s, t
  <2>6. Sign(Len(s) - Len(t)) <= 0 <=> Len(s) <= Len(t)
    BY <1>0, <2>3 DEF Sign
  <2> QED BY <2>1, <2>2, <2>3, <2>5, <2>6, SignOf DEF s, t
<1>3. CASE Differ(s, t) # {}
  <2>0. Differ(s, t) \in SUBSET Nat
    BY <1>0 DEF Differ
  <2>1. k \in Differ(s, t) /\ \A j \in Differ(s, t) : k <= j
    BY <1>3, <2>0, FirstOfSet
  <2>2. /\ k \in 1 .. Len(s) /\ k \in 1 .. Len(t) /\ s[k] # t[k]
        /\ \A i \in 1 .. (k - 1) : s[i] = t[i]
    <3>1. k \in 1 .. Len(s) /\ k \in 1 .. Len(t) /\ s[k] # t[k]
      BY <1>0, <2>1 DEF Differ
    <3> HIDE DEF s, t, k
    <3>2. ASSUME NEW i \in 1 .. (k - 1) PROVE s[i] = t[i]
      <4>1. i \in 1 .. Len(s) /\ i \in 1 .. Len(t) /\ ~(k <= i)
        BY <1>0, <3>1
      <4> QED BY <1>0, <2>1, <4>1 DEF Differ
    <3> QED BY <3>1, <3>2
  <2>3. compareAttributeValues(a, o1, o2) = Sign(s[k] - t[k])
    BY <1>3 DEF compareAttributeValues, Differ
  <2>4. compareAttributeValues(a, o2, o1) = Sign(t[k] - s[k])
    BY <1>1, <1>3 DEF compareAttributeValues, Differ
  <2> HIDE DEF s, t, k
  <2>5. t[k] - s[k] = -(s[k] - t[k]) /\ s[k] - t[k] \in Int
    BY <1>0, <2>2
  <2>6. Sign(s[k] - t[k]) <= 0 <=> s[k] < t[k]
    BY <1>0, <2>2 DEF Sign
  <2>7. LexLeq(s, t) <=> s[k] < t[k]
    <3>1. ASSUME s[k] < t[k] PROVE LexLeq(s, t)
      BY <2>2, <3>1, <1>0 DEF LexLeq
    <3>2. ASSUME LexLeq(s, t) PROVE s[k] < t[k]
      <4>1. CASE Len(s) <= Len(t) /\ \A i \in 1 .. Len(s) : s[i] = t[i]
        BY <2>2, <4>1
      <4>2. CASE \E m \in 1 .. Len(s) : m <= Len(t) /\ s[m] < t[m] /\ \A i \in 1 .. (m - 1) : s[i] = t[i]
        <5>1. PICK m \in 1 .. Len(s) : m <= Len(t) /\ s[m] < t[m] /\ \A i \in 1 .. (m - 1) : s[i] = t[i]
          BY <4>2
        <5>2. ~(k < m) BY <1>0, <2>2, <5>1
        <5>3. ~(m < k) BY <1>0, <2>2, <5>1
        <5>4. m = k BY <1>0, <2>2, <5>2, <5>3
        <5> QED BY <5>1, <5>4
      <4> QED BY <3>2, <4>1, <4>2 DEF LexLeq
    <3> QED BY <3>1, <3>2
  <2> QED BY <2>3, <2>4, <2>5, <2>6, <2>7, SignOf DEF s, t
<1> QED BY <1>2, <1>3

\* The lexicographic order is transitive.
LEMMA LexTransitive ==
    ASSUME NEW s \in Seq(Int), NEW t \in Seq(Int), NEW u \in Seq(Int), LexLeq(s, t), LexLeq(t, u)
    PROVE  LexLeq(s, u)
<1>0. /\ Len(s) \in Nat /\ Len(t) \in Nat /\ Len(u) \in Nat
      /\ \A i \in 1 .. Len(s) : s[i] \in Int
      /\ \A i \in 1 .. Len(t) : t[i] \in Int
      /\ \A i \in 1 .. Len(u) : u[i] \in Int
  OBVIOUS
<1> DEFINE Prefix(x, y) == Len(x) <= Len(y) /\ \A i \in 1 .. Len(x) : x[i] = y[i]
           Less(x, y, k) == /\ k \in 1 .. Len(x) /\ k <= Len(y) /\ x[k] < y[k]
                            /\ \A i \in 1 .. (k - 1) : x[i] = y[i]
<1>1. \A x, y : LexLeq(x, y) <=> Prefix(x, y) \/ \E k : Less(x, y, k)
  BY DEF LexLeq
<1>2. CASE Prefix(s, t) /\ Prefix(t, u)
  <2>1. Prefix(s, u) BY <1>0, <1>2
  <2> QED BY <1>1, <2>1
<1>3. ASSUME NEW k, Prefix(s, t), Less(t, u, k) PROVE LexLeq(s, u)
  <2>1. CASE k <= Len(s)
    <3>1. Less(s, u, k) BY <1>0, <1>3, <2>1
    <3> QED BY <1>1, <3>1
  <2>2. CASE Len(s) < k
    <3>1. Prefix(s, u) BY <1>0, <1>3, <2>2
    <3> QED BY <1>1, <3>1
  <2> QED BY <1>0, <1>3, <2>1, <2>2
<1>4. ASSUME NEW k, Less(s, t, k), Prefix(t, u) PROVE LexLeq(s, u)
  <2>1. Less(s, u, k) BY <1>0, <1>4
  <2> QED BY <1>1, <2>1
<1>5. ASSUME NEW k, NEW m, Less(s, t, k), Less(t, u, m) PROVE LexLeq(s, u)
  <2>1. CASE k <= m
    <3>1. k \in 1 .. Len(s) /\ k \in 1 .. Len(t) /\ k \in 1 .. Len(u) /\ m \in 1 .. Len(t)
      BY <1>0, <1>5, <2>1
    <3>2. s[k] < u[k]
      <4>1. CASE k < m
        <5>1. t[k] = u[k] BY <1>5, <3>1, <4>1
        <5> QED BY <1>5, <5>1
      <4>2. CASE k = m
        <5>1. s[k] \in Int /\ t[k] \in Int /\ u[k] \in Int BY <1>0, <3>1
        <5>2. s[k] < t[k] /\ t[k] < u[k] BY <1>5, <4>2
        <5> QED BY <5>1, <5>2
      <4> QED BY <2>1, <3>1, <4>1, <4>2
    <3>3. Less(s, u, k)
      <4>1. ASSUME NEW i \in 1 .. (k - 1) PROVE s[i] = u[i]
        <5>1. i \in 1 .. (m - 1) BY <2>1, <3>1
        <5> QED BY <1>5, <5>1
      <4> QED BY <3>1, <3>2, <4>1
    <3> QED BY <1>1, <3>3
  <2>2. CASE m < k
    <3>1. k \in 1 .. Len(s) /\ m \in 1 .. Len(s) /\ m \in 1 .. Len(t) /\ m <= Len(u)
      BY <1>0, <1>5, <2>2
    <3>2. s[m] = t[m] /\ t[m] < u[m] BY <1>5, <2>2, <3>1
    <3>3. ASSUME NEW i \in 1 .. (m - 1) PROVE s[i] = u[i]
      <4>1. i \in 1 .. (k - 1) BY <2>2, <3>1
      <4> QED BY <1>5, <4>1
    <3>4. Less(s, u, m) BY <3>1, <3>2, <3>3
    <3> QED BY <1>1, <3>4
  <2> QED BY <1>0, <1>5, <2>1, <2>2
<1> HIDE DEF Prefix, Less
<1> QED BY <1>1, <1>2, <1>3, <1>4, <1>5

----------------------------------------------------------------------------
(* One order, and a list of them. *)

\* The lists of values of an object are lists of integers.
LEMMA ValueLists ==
    ASSUME NEW a \in Attribute, NEW o \in Object
    PROVE  Values[a][o] \in Seq(Int)
  BY AttributesAssumption

\* An OrderControlAttribute has the values 0 and 1.
LEMMA ControlType ==
    ASSUME NEW order \in AttributeOrder, NEW o
    PROVE  OrderControlValue(order, o) \in {0, 1}
  BY DEF OrderControlValue, AttributeOrder

\* compareByOrder() in terms of the control value and the values.
LEMMA OrderCases ==
    ASSUME NEW order \in AttributeOrder, NEW x \in Object, NEW y \in Object
    PROVE  LET m == OrderControlValue(order, x)
               n == OrderControlValue(order, y)
               c == compareAttributeValues(order.attribute, x, y)
           IN  /\ m < n => compareByOrder(order, x, y) = -1
               /\ m > n => compareByOrder(order, x, y) = 1
               /\ m = n => compareByOrder(order, x, y) = (IF order.descending THEN -c ELSE c)
<1> DEFINE m == OrderControlValue(order, x)
           n == OrderControlValue(order, y)
<1>1. m \in Int /\ n \in Int BY ControlType
<1>2. compareByOrder(order, x, y) =
          IF Sign(m - n) # 0 THEN Sign(m - n)
          ELSE IF order.descending THEN -compareAttributeValues(order.attribute, x, y)
          ELSE compareAttributeValues(order.attribute, x, y)
  BY DEF compareByOrder
<1> HIDE DEF m, n
<1>3. /\ m < n => Sign(m - n) = -1
      /\ m > n => Sign(m - n) = 1
      /\ m = n => Sign(m - n) = 0
  BY <1>1, SignOfDifference
<1> QED BY <1>1, <1>2, <1>3 DEF m, n

\* One order is a total preorder.
LEMMA OneOrder ==
    ASSUME NEW order \in AttributeOrder, NEW x \in Object, NEW y \in Object
    PROVE  /\ compareByOrder(order, x, y) \in {-1, 0, 1}
           /\ compareByOrder(order, y, x) = -compareByOrder(order, x, y)
           /\ \A z \in Object :
                 compareByOrder(order, x, y) <= 0 /\ compareByOrder(order, y, z) <= 0
                     => compareByOrder(order, x, z) <= 0
<1> DEFINE m(o) == OrderControlValue(order, o)
           c(o1, o2) == compareAttributeValues(order.attribute, o1, o2)
           f(o1, o2) == compareByOrder(order, o1, o2)
<1>1. order.attribute \in Attribute /\ order.descending \in BOOLEAN
  BY DEF AttributeOrder
<1>2. \A o \in Object : m(o) \in {0, 1}
  BY ControlType
<1>3. \A o1, o2 \in Object : c(o1, o2) \in {-1, 0, 1} /\ c(o2, o1) = -c(o1, o2)
  BY <1>1, ValueLists, CompareIsLex
<1>4. \A o1, o2, o3 \in Object : c(o1, o2) <= 0 /\ c(o2, o3) <= 0 => c(o1, o3) <= 0
  BY <1>1, ValueLists, CompareIsLex, LexTransitive
<1>5. \A o1, o2 \in Object :
          /\ m(o1) < m(o2) => f(o1, o2) = -1
          /\ m(o1) > m(o2) => f(o1, o2) = 1
          /\ m(o1) = m(o2) => f(o1, o2) = (IF order.descending THEN -c(o1, o2) ELSE c(o1, o2))
  BY OrderCases
<1> HIDE DEF m, c, f
<1>6. f(x, y) \in {-1, 0, 1} /\ f(y, x) = -f(x, y)
  <2>1. m(x) \in {0, 1} /\ m(y) \in {0, 1} BY <1>2
  <2>2. c(x, y) \in {-1, 0, 1} /\ c(y, x) = -c(x, y) BY <1>3
  <2> QED BY <1>1, <1>5, <2>1, <2>2
<1>7. ASSUME NEW z \in Object, f(x, y) <= 0, f(y, z) <= 0 PROVE f(x, z) <= 0
  <2>1. m(x) \in {0, 1} /\ m(y) \in {0, 1} /\ m(z) \in {0, 1} BY <1>2
  <2>2. /\ c(x, y) \in {-1, 0, 1} /\ c(y, z) \in {-1, 0, 1} /\ c(x, z) \in {-1, 0, 1}
        /\ c(y, x) = -c(x, y) /\ c(z, y) = -c(y, z) /\ c(z, x) = -c(x, z)
    BY <1>3
  <2>3. m(x) <= m(y) /\ m(y) <= m(z) BY <1>5, <1>7, <2>1
  <2>4. CASE m(x) < m(z) BY <1>5, <2>4
  <2>5. CASE m(x) = m(y) /\ m(y) = m(z)
    <3>1. CASE order.descending
      <4>1. c(y, x) <= 0 /\ c(z, y) <= 0 BY <1>5, <1>7, <2>2, <2>5, <3>1
      <4>2. c(z, x) <= 0 BY <1>4, <4>1
      <4> QED BY <1>5, <2>2, <2>5, <3>1, <4>2
    <3>2. CASE ~order.descending
      <4>1. c(x, y) <= 0 /\ c(y, z) <= 0 BY <1>5, <1>7, <2>5, <3>2
      <4>2. c(x, z) <= 0 BY <1>4, <4>1
      <4> QED BY <1>5, <2>5, <3>2, <4>2
    <3> QED BY <1>1, <3>1, <3>2
  <2> QED BY <2>1, <2>3, <2>4, <2>5
<1> QED BY <1>6, <1>7 DEF f

\* The orders that tell two objects apart.
Apart(orders, x, y) == {i \in DOMAIN orders : compareByOrder(orders[i], x, y) # 0}

\* compareByOrders() is decided by the first of them.
LEMMA OrdersCases ==
    ASSUME NEW orders \in Seq(AttributeOrder), NEW x, NEW y
    PROVE  /\ Apart(orders, x, y) = {} => compareByOrders(orders, x, y) = 0
           /\ \A k \in Apart(orders, x, y) :
                 (\A j \in Apart(orders, x, y) : k <= j)
                     => compareByOrders(orders, x, y) = compareByOrder(orders[k], x, y)
           /\ Apart(orders, x, y) # {} =>
                 \E k \in Apart(orders, x, y) : \A j \in Apart(orders, x, y) : k <= j
<1>1. Apart(orders, x, y) \in SUBSET Nat BY DEF Apart
<1>2. compareByOrders(orders, x, y) =
          IF Apart(orders, x, y) = {} THEN 0
          ELSE compareByOrder(orders[FirstOf(Apart(orders, x, y))], x, y)
  BY DEF compareByOrders, Apart
<1>3. ASSUME NEW k \in Apart(orders, x, y), \A j \in Apart(orders, x, y) : k <= j
      PROVE  compareByOrders(orders, x, y) = compareByOrder(orders[k], x, y)
  <2>1. FirstOf(Apart(orders, x, y)) = k BY <1>1, <1>3, FirstOfIs
  <2> QED BY <1>2, <2>1
<1> QED BY <1>1, <1>2, <1>3, FirstOfSet

\* The contract of java.util.Comparator: exchanging the arguments exchanges the sign, and
\* the order is transitive; it follows that objects that compare as equal compare alike
\* with others.  AttributeOrdersComparator satisfies it for all lists of orders, ascending
\* and descending, on attributes with none, one or several values, and with objects
\* without values put first or last.
THEOREM ComparatorContract ==
    ASSUME NEW orders \in Seq(AttributeOrder), NEW x \in Object, NEW y \in Object
    PROVE  /\ compareByOrders(orders, x, y) \in {-1, 0, 1}
           /\ compareByOrders(orders, y, x) = -compareByOrders(orders, x, y)
           /\ \A z \in Object :
                 compareByOrders(orders, x, y) <= 0 /\ compareByOrders(orders, y, z) <= 0
                     => compareByOrders(orders, x, z) <= 0
           /\ \A z \in Object :
                 compareByOrders(orders, x, y) = 0
                     => compareByOrders(orders, x, z) = compareByOrders(orders, y, z)
<1> DEFINE f(i, o1, o2) == compareByOrder(orders[i], o1, o2)
           g(o1, o2) == compareByOrders(orders, o1, o2)
           D(o1, o2) == Apart(orders, o1, o2)
<1>0. DOMAIN orders \in SUBSET Nat /\ \A i \in DOMAIN orders : orders[i] \in AttributeOrder
  OBVIOUS
<1>1. \A i \in DOMAIN orders : \A o1, o2 \in Object :
          /\ f(i, o1, o2) \in {-1, 0, 1}
          /\ f(i, o2, o1) = -f(i, o1, o2)
          /\ \A o3 \in Object : f(i, o1, o2) <= 0 /\ f(i, o2, o3) <= 0 => f(i, o1, o3) <= 0
  BY <1>0, OneOrder
<1>2. \A o1, o2 \in Object :
          /\ D(o1, o2) = {} => g(o1, o2) = 0
          /\ \A k \in D(o1, o2) : (\A j \in D(o1, o2) : k <= j) => g(o1, o2) = f(k, o1, o2)
          /\ D(o1, o2) # {} => \E k \in D(o1, o2) : \A j \in D(o1, o2) : k <= j
  BY OrdersCases
<1>3. \A o1, o2 \in Object : D(o1, o2) = {i \in DOMAIN orders : f(i, o1, o2) # 0}
  BY DEF Apart
<1> HIDE DEF f, g, D
<1>4. \A o1, o2 \in Object : g(o1, o2) \in {-1, 0, 1} /\ g(o2, o1) = -g(o1, o2)
  <2> SUFFICES ASSUME NEW o1 \in Object, NEW o2 \in Object
               PROVE  g(o1, o2) \in {-1, 0, 1} /\ g(o2, o1) = -g(o1, o2)
    OBVIOUS
  <2>1. D(o1, o2) = D(o2, o1)
    <3>1. \A i \in DOMAIN orders : f(i, o1, o2) # 0 <=> f(i, o2, o1) # 0
      <4> TAKE i \in DOMAIN orders
      <4>1. f(i, o1, o2) \in {-1, 0, 1} /\ f(i, o2, o1) = -f(i, o1, o2) BY <1>1
      <4> QED BY <4>1
    <3>2. /\ D(o1, o2) = {i \in DOMAIN orders : f(i, o1, o2) # 0}
          /\ D(o2, o1) = {i \in DOMAIN orders : f(i, o2, o1) # 0}
      BY <1>3
    <3> QED BY <3>1, <3>2
  <2>2. CASE D(o1, o2) = {}
    <3>1. g(o1, o2) = 0 /\ g(o2, o1) = 0 BY <1>2, <2>1, <2>2
    <3>2. \A m, n \in Int : m + n = 0 => m = -n OBVIOUS
    <3>3. g(o1, o2) \in Int /\ g(o2, o1) \in Int /\ g(o2, o1) + g(o1, o2) = 0 BY <3>1
    <3>4. g(o2, o1) = -g(o1, o2) BY <3>2, <3>3
    <3>5. g(o1, o2) \in {-1, 0, 1} BY <3>1
    <3> QED BY <3>4, <3>5
  <2>3. CASE D(o1, o2) # {}
    <3>1. PICK k \in D(o1, o2) : \A j \in D(o1, o2) : k <= j BY <1>2, <2>3
    <3>2. g(o1, o2) = f(k, o1, o2) /\ g(o2, o1) = f(k, o2, o1) BY <1>2, <2>1, <3>1
    <3>3. k \in DOMAIN orders BY <1>3
    <3> QED BY <1>1, <3>2, <3>3
  <2> QED BY <2>2, <2>3
<1>5. \A o1, o2, o3 \in Object : g(o1, o2) <= 0 /\ g(o2, o3) <= 0 => g(o1, o3) <= 0
  <2> SUFFICES ASSUME NEW o1 \in Object, NEW o2 \in Object, NEW o3 \in Object,
                      g(o1, o2) <= 0, g(o2, o3) <= 0
               PROVE  g(o1, o3) <= 0
    OBVIOUS
  <2> DEFINE E == D(o1, o2) \cup D(o2, o3)
  <2>1. E \in SUBSET DOMAIN orders BY <1>3
  <2>2. \A i \in DOMAIN orders \ E : f(i, o1, o2) = 0 /\ f(i, o2, o3) = 0
    BY <1>3
  <2>3. \A i \in DOMAIN orders \ E : f(i, o1, o3) = 0
    <3> TAKE i \in DOMAIN orders \ E
    <3>1. f(i, o1, o2) = 0 /\ f(i, o2, o3) = 0 BY <2>2
    <3>2. f(i, o2, o1) = 0 /\ f(i, o3, o2) = 0 BY <1>1, <3>1
    <3>3. f(i, o1, o3) <= 0 /\ f(i, o3, o1) <= 0 BY <1>1, <3>1, <3>2
    <3>4. f(i, o1, o3) \in {-1, 0, 1} /\ f(i, o3, o1) = -f(i, o1, o3) BY <1>1
    <3> QED BY <3>3, <3>4
  <2>4. CASE E = {}
    <3>1. D(o1, o3) = {} BY <1>3, <2>3, <2>4
    <3> QED BY <1>2, <3>1
  <2>5. CASE E # {}
    <3>1. PICK k \in E : \A j \in E : k <= j
      <4>1. E \in SUBSET Nat BY <1>0, <2>1
      <4> HIDE DEF E
      <4> QED BY <2>5, <4>1, FirstOfSet
    <3>2. k \in DOMAIN orders BY <2>1
    <3>3. f(k, o1, o2) <= 0 /\ (k \in D(o1, o2) => f(k, o1, o2) < 0)
      <4>1. CASE k \in D(o1, o2)
        <5>1. g(o1, o2) = f(k, o1, o2) BY <1>2, <3>1, <4>1
        <5>2. f(k, o1, o2) # 0 BY <1>3, <4>1
        <5> QED BY <1>1, <3>2, <5>1, <5>2
      <4>2. CASE k \notin D(o1, o2)
        BY <1>3, <3>2, <4>2
      <4> QED BY <4>1, <4>2
    <3>4. f(k, o2, o3) <= 0 /\ (k \in D(o2, o3) => f(k, o2, o3) < 0)
      <4>1. CASE k \in D(o2, o3)
        <5>1. g(o2, o3) = f(k, o2, o3) BY <1>2, <3>1, <4>1
        <5>2. f(k, o2, o3) # 0 BY <1>3, <4>1
        <5> QED BY <1>1, <3>2, <5>1, <5>2
      <4>2. CASE k \notin D(o2, o3)
        BY <1>3, <3>2, <4>2
      <4> QED BY <4>1, <4>2
    <3>5. f(k, o1, o3) < 0
      <4>1. /\ f(k, o1, o3) \in {-1, 0, 1} /\ f(k, o1, o2) \in {-1, 0, 1} /\ f(k, o2, o3) \in {-1, 0, 1}
            /\ f(k, o3, o1) = -f(k, o1, o3) /\ f(k, o2, o1) = -f(k, o1, o2) /\ f(k, o3, o2) = -f(k, o2, o3)
            /\ f(k, o1, o3) <= 0
        BY <1>1, <3>2, <3>3, <3>4
      <4>2. ASSUME f(k, o1, o3) = 0 PROVE FALSE
        <5>1. f(k, o3, o1) <= 0 BY <4>1, <4>2
        <5>2. f(k, o3, o2) <= 0 BY <1>1, <3>2, <3>3, <5>1
        <5>3. f(k, o2, o1) <= 0 BY <1>1, <3>2, <3>4, <5>1
        <5>4. f(k, o1, o2) = 0 /\ f(k, o2, o3) = 0 BY <3>3, <3>4, <4>1, <5>2, <5>3
        <5> QED BY <3>3, <3>4, <5>4
      <4> QED BY <4>1, <4>2
    <3>6. k \in D(o1, o3) /\ \A j \in D(o1, o3) : k <= j
      BY <1>3, <2>3, <3>1, <3>2, <3>5
    <3>7. g(o1, o3) = f(k, o1, o3) BY <1>2, <3>6
    <3> QED BY <1>1, <3>2, <3>5, <3>7
  <2> QED BY <2>4, <2>5
<1>6. ASSUME NEW z \in Object, g(x, y) = 0 PROVE g(x, z) = g(y, z)
  <2>1. /\ g(x, z) \in {-1, 0, 1} /\ g(y, z) \in {-1, 0, 1} /\ g(y, x) = 0
        /\ g(z, x) = -g(x, z) /\ g(z, y) = -g(y, z)
    BY <1>4, <1>6
  <2>2. /\ g(y, z) <= 0 => g(x, z) <= 0
        /\ g(x, z) <= 0 => g(y, z) <= 0
        /\ g(z, x) <= 0 => g(z, y) <= 0
        /\ g(z, y) <= 0 => g(z, x) <= 0
    BY <1>5, <1>6, <2>1
  <2> QED BY <2>1, <2>2
<1> QED BY <1>4, <1>5, <1>6 DEF g

\* Precedes, by which results are sorted, is a strict total order of the objects: ties are
\* broken by hash codes and sequence numbers, so that no two objects compare as equal, which
\* a sorted set of results would take for one.
THEOREM PrecedesIsTotalOrder ==
    ASSUME NEW orders \in Seq(AttributeOrder), NEW x \in Object, NEW y \in Object
    PROVE  /\ ~Precedes(orders, x, x)
           /\ x # y => (Precedes(orders, x, y) <=> ~Precedes(orders, y, x))
           /\ \A z \in Object :
                 Precedes(orders, x, y) /\ Precedes(orders, y, z) => Precedes(orders, x, z)
<1> DEFINE g(o1, o2) == compareByOrders(orders, o1, o2)
           H(o) == CHOOSE i \in DOMAIN Iteration : Iteration[i] = o
<1>1. \A o \in Object : H(o) \in DOMAIN Iteration /\ Iteration[H(o)] = o
  <2>1. \A o \in Object : \E i \in DOMAIN Iteration : Iteration[i] = o
    BY IterationAssumption DEF ToSet
  <2> QED BY <2>1
<1>2. DOMAIN Iteration \in SUBSET Int
  BY IterationAssumption
<1>3. \A o1, o2 \in Object : Precedes(orders, o1, o2) <=> g(o1, o2) < 0 \/ (g(o1, o2) = 0 /\ H(o1) < H(o2))
  BY DEF Precedes
<1>4. \A o1, o2 \in Object :
          /\ g(o1, o2) \in {-1, 0, 1}
          /\ g(o2, o1) = -g(o1, o2)
          /\ \A o3 \in Object : g(o1, o2) <= 0 /\ g(o2, o3) <= 0 => g(o1, o3) <= 0
          /\ \A o3 \in Object : g(o1, o2) = 0 => g(o1, o3) = g(o2, o3)
  BY ComparatorContract
<1> HIDE DEF g, H
<1>5. \A o \in Object : H(o) \in Int
  BY <1>1, <1>2
<1>6. ~Precedes(orders, x, x)
  <2>1. g(x, x) \in {-1, 0, 1} /\ g(x, x) = -g(x, x) BY <1>4
  <2> QED BY <1>3, <1>5, <2>1
<1>7. ASSUME x # y PROVE Precedes(orders, x, y) <=> ~Precedes(orders, y, x)
  <2>1. g(x, y) \in {-1, 0, 1} /\ g(y, x) = -g(x, y) BY <1>4
  <2>2. H(x) # H(y) BY <1>1, <1>7
  <2>3. H(x) \in Int /\ H(y) \in Int BY <1>5
  <2>4. CASE g(x, y) = 0
    <3>1. \A m, n \in Int : m = -n => m + n = 0 OBVIOUS
    <3>2. g(y, x) \in Int /\ g(y, x) + g(x, y) = 0 BY <2>1, <3>1
    <3>3. g(y, x) = 0 BY <2>4, <3>2
    <3> QED BY <1>3, <2>2, <2>3, <2>4, <3>3
  <2>5. CASE g(x, y) # 0 BY <1>3, <2>1, <2>5
  <2> QED BY <2>4, <2>5
<1>8. ASSUME NEW z \in Object, Precedes(orders, x, y), Precedes(orders, y, z)
      PROVE  Precedes(orders, x, z)
  <2>1. /\ g(x, y) \in {-1, 0, 1} /\ g(y, z) \in {-1, 0, 1} /\ g(x, z) \in {-1, 0, 1}
        /\ g(y, x) = -g(x, y) /\ g(z, y) = -g(y, z) /\ g(z, x) = -g(x, z)
    BY <1>4
  <2>2. g(x, y) <= 0 /\ g(y, z) <= 0 BY <1>3, <1>8, <2>1
  <2>3. g(x, z) <= 0 BY <1>4, <2>2
  <2>4. CASE g(x, z) < 0 BY <1>3, <2>4
  <2>5. CASE g(x, z) = 0
    <3>1. g(x, y) = g(z, y) BY <1>4, <2>5
    <3>2. g(x, y) = 0 /\ g(y, z) = 0 BY <2>1, <2>2, <3>1
    <3>3. H(x) < H(y) /\ H(y) < H(z) BY <1>3, <1>8, <3>2
    <3>4. H(x) < H(z) BY <1>5, <3>3
    <3> QED BY <1>3, <2>5, <3>4
  <2> QED BY <2>1, <2>3, <2>4, <2>5
<1> QED BY <1>6, <1>7, <1>8

----------------------------------------------------------------------------
(* Index ordering. *)

\* The first order decides, and if it does not, the others do.
LEMMA FirstOrderDecides ==
    ASSUME NEW orders \in Seq(AttributeOrder), orders # <<>>, NEW x \in Object, NEW y \in Object
    PROVE  compareByOrders(orders, x, y) =
               IF compareByOrder(orders[1], x, y) # 0 THEN compareByOrder(orders[1], x, y)
               ELSE compareByOrders(Tail(orders), x, y)
<1> DEFINE A == Apart(orders, x, y)
           B == Apart(Tail(orders), x, y)
<1>0. /\ Len(orders) \in Nat /\ 1 <= Len(orders) /\ DOMAIN orders = 1 .. Len(orders)
      /\ Tail(orders) \in Seq(AttributeOrder)
      /\ DOMAIN Tail(orders) = 1 .. (Len(orders) - 1)
      /\ \A i \in 1 .. (Len(orders) - 1) : Tail(orders)[i] = orders[i + 1]
  OBVIOUS
<1>1. CASE compareByOrder(orders[1], x, y) # 0
  <2>1. 1 \in A /\ \A j \in A : 1 <= j BY <1>0, <1>1 DEF Apart
  <2> QED BY <1>1, <2>1, OrdersCases
<1>2. CASE compareByOrder(orders[1], x, y) = 0
  <2>1. \A i \in 1 .. (Len(orders) - 1) : i \in B <=> i + 1 \in A
    BY <1>0 DEF Apart
  <2>2. A \subseteq 2 .. Len(orders) /\ B \subseteq 1 .. (Len(orders) - 1)
    BY <1>0, <1>2 DEF Apart
  <2>3. CASE B = {}
    <3>1. A = {}
      <4>1. ASSUME NEW j \in A PROVE FALSE
        <5>1. j - 1 \in 1 .. (Len(orders) - 1) /\ (j - 1) + 1 = j BY <1>0, <2>2
        <5>2. j - 1 \in B BY <2>1, <5>1
        <5> QED BY <2>3, <5>2
      <4> QED BY <4>1
    <3>2. compareByOrders(orders, x, y) = 0 BY <3>1, OrdersCases
    <3>3. compareByOrders(Tail(orders), x, y) = 0 BY <1>0, <2>3, OrdersCases
    <3> QED BY <1>2, <3>2, <3>3
  <2>4. CASE B # {}
    <3>1. PICK k \in B : \A j \in B : k <= j BY <1>0, <2>4, OrdersCases
    <3>2. k \in 1 .. (Len(orders) - 1) /\ k + 1 \in A BY <2>1, <2>2
    <3>3. \A j \in A : k + 1 <= j
      <4> TAKE j \in A
      <4>1. j \in Int /\ j - 1 \in 1 .. (Len(orders) - 1) /\ (j - 1) + 1 = j BY <1>0, <2>2
      <4>2. j - 1 \in B BY <2>1, <4>1
      <4>3. k <= j - 1 BY <3>1, <4>2
      <4> QED BY <3>2, <4>1, <4>3
    <3>4. compareByOrders(orders, x, y) = compareByOrder(orders[k + 1], x, y) BY <3>2, <3>3, OrdersCases
    <3>5. compareByOrders(Tail(orders), x, y) = compareByOrder(Tail(orders)[k], x, y)
      BY <1>0, <3>1, OrdersCases
    <3> QED BY <1>0, <1>2, <3>2, <3>4, <3>5
  <2> QED BY <2>3, <2>4
<1> QED BY <1>1, <1>2

\* The index on the attribute of the order comes by x before y: in an earlier bucket, or
\* one of them has no value and is put on that side.
ReadBefore(order, x, y) ==
    LET a == order.attribute
        Missing(o) == ~HasMatches(has(a), o)
    IN  \/ \E v \in ValuesOf(a, x), w \in ValuesOf(a, y) : IF order.descending THEN v > w ELSE v < w
        \/ Missing(x) /\ ~Missing(y) /\ MissingFirst(order)
        \/ ~Missing(x) /\ Missing(y) /\ ~MissingFirst(order)

\* An attribute with at most one value: the list of values is empty or has one member.
LEMMA AtMostOneValue ==
    ASSUME NEW a \in Attribute, ~CanHaveMoreThanOneValue(a), NEW o \in Object
    PROVE  \/ Len(Values[a][o]) = 0 /\ ValuesOf(a, o) = {} /\ ~HasMatches(has(a), o)
           \/ /\ Len(Values[a][o]) = 1 /\ Values[a][o][1] \in Int
              /\ ValuesOf(a, o) = {Values[a][o][1]} /\ HasMatches(has(a), o)
<1> DEFINE s == Values[a][o]
<1>1. s \in Seq(Int) /\ Len(s) \in {0, 1}
  <2>1. Kind[a] \in {"simple", "nullable"} /\ Len(s) \in MayReturn(Kind[a]) /\ s \in Seq(Int)
    BY AttributesAssumption DEF CanHaveMoreThanOneValue
  <2> QED BY <2>1 DEF MayReturn
<1>2. ValuesOf(a, o) = {s[i] : i \in 1 .. Len(s)}
  BY <1>1 DEF ValuesOf, ToSet
<1>3. HasMatches(has(a), o) <=> ValuesOf(a, o) # {}
  BY DEF HasMatches, has
<1>4. CASE Len(s) = 0
  <2>1. 1 .. Len(s) = {} BY <1>4
  <2> QED BY <1>2, <1>3, <1>4, <2>1
<1>5. CASE Len(s) = 1
  <2>1. 1 .. Len(s) = {1} /\ s[1] \in Int BY <1>1, <1>5
  <2>2. ValuesOf(a, o) = {s[1]} BY <1>2, <2>1
  <2> QED BY <1>3, <1>5, <2>1, <2>2
<1> QED BY <1>1, <1>4, <1>5

\* compareAttributeValues() of such an attribute.
LEMMA CompareSingle ==
    ASSUME NEW a \in Attribute, ~CanHaveMoreThanOneValue(a), NEW x \in Object, NEW y \in Object
    PROVE  LET s == Values[a][x]
               t == Values[a][y]
           IN  /\ Len(s) = 0 /\ Len(t) = 0 => compareAttributeValues(a, x, y) = 0
               /\ Len(s) = 0 /\ Len(t) = 1 => compareAttributeValues(a, x, y) = -1
               /\ Len(s) = 1 /\ Len(t) = 0 => compareAttributeValues(a, x, y) = 1
               /\ Len(s) = 1 /\ Len(t) = 1 => compareAttributeValues(a, x, y) = Sign(s[1] - t[1])
<1> DEFINE s == Values[a][x]
           t == Values[a][y]
<1>0. s \in Seq(Int) /\ t \in Seq(Int) BY ValueLists
<1>1. compareAttributeValues(a, x, y) =
          IF Differ(s, t) = {} THEN Sign(Len(s) - Len(t))
          ELSE Sign(s[FirstOf(Differ(s, t))] - t[FirstOf(Differ(s, t))])
  BY DEF compareAttributeValues, Differ
<1> HIDE DEF s, t
<1>2. CASE Len(s) = 0 \/ Len(t) = 0
  <2>1. Differ(s, t) = {} BY <1>0, <1>2 DEF Differ
  <2>2. compareAttributeValues(a, x, y) = Sign(Len(s) - Len(t)) BY <1>1, <2>1
  <2> DEFINE m == Len(s)
             n == Len(t)
             c == compareAttributeValues(a, x, y)
  <2>3. m \in Nat /\ n \in Nat /\ (m = 0 \/ n = 0) /\ c = Sign(m - n) BY <1>0, <1>2, <2>2
  <2> HIDE DEF m, n, c
  <2>4. /\ m < n => c = -1
        /\ m = n => c = 0
        /\ m > n => c = 1
    <3>1. m \in Int /\ n \in Int BY <2>3
    <3>2. /\ m < n => Sign(m - n) = -1
          /\ m = n => Sign(m - n) = 0
          /\ m > n => Sign(m - n) = 1
      BY ONLY <3>1, SignOfDifference
    <3> QED BY <2>3, <3>2
  <2>5. /\ m = 0 /\ n = 0 => c = 0
        /\ m = 0 /\ n = 1 => c = -1
        /\ m = 1 /\ n = 0 => c = 1
        /\ ~(m = 1 /\ n = 1)
    BY <2>3, <2>4
  <2> QED BY <2>5 DEF m, n, c, s, t
<1>3. CASE Len(s) = 1 /\ Len(t) = 1
  <2>0. DOMAIN s = 1 .. Len(s) /\ DOMAIN t = 1 .. Len(t) /\ 1 .. 1 = {1} BY <1>0
  <2>1. DOMAIN s = {1} /\ DOMAIN t = {1} BY <1>3, <2>0
  <2>2. s[1] \in Int /\ t[1] \in Int
    <3>1. \A i \in DOMAIN s : s[i] \in Int BY <1>0
    <3>2. \A i \in DOMAIN t : t[i] \in Int BY <1>0
    <3> QED BY <2>1, <3>1, <3>2
  <2>3. CASE s[1] = t[1]
    <3>1. Differ(s, t) = {} BY <2>1, <2>3 DEF Differ
    <3>2. compareAttributeValues(a, x, y) = Sign(Len(s) - Len(t)) BY <1>1, <3>1
    <3>3. Sign(Len(s) - Len(t)) = 0 /\ Sign(s[1] - t[1]) = 0 BY <1>3, <2>2, <2>3, SignOfDifference
    <3> QED BY <1>3, <3>2, <3>3 DEF s, t
  <2>4. CASE s[1] # t[1]
    <3>1. Differ(s, t) = {1} BY <2>1, <2>4 DEF Differ
    <3>2. FirstOf(Differ(s, t)) = 1 BY <3>1, FirstOfIs
    <3>3. compareAttributeValues(a, x, y) = Sign(s[1] - t[1]) BY <1>1, <3>1, <3>2
    <3> QED BY <1>3, <3>3 DEF s, t
  <2> QED BY <2>3, <2>4
<1> QED BY <1>2, <1>3, AtMostOneValue DEF s, t

\* The index and the first order agree about any two objects.
LEMMA FirstOrderByIndex ==
    ASSUME NEW order \in AttributeOrder, ~CanHaveMoreThanOneValue(order.attribute),
           NEW x \in Object, NEW y \in Object
    PROVE  /\ ReadBefore(order, x, y) => compareByOrder(order, x, y) = -1
           /\ ReadBefore(order, y, x) => compareByOrder(order, x, y) = 1
           /\ ValuesOf(order.attribute, x) = ValuesOf(order.attribute, y) => compareByOrder(order, x, y) = 0
           /\ \/ ReadBefore(order, x, y) \/ ReadBefore(order, y, x)
              \/ ValuesOf(order.attribute, x) = ValuesOf(order.attribute, y)
<1> DEFINE a == order.attribute
           c == compareAttributeValues(a, x, y)
           f == compareByOrder(order, x, y)
           m == OrderControlValue(order, x)
           n == OrderControlValue(order, y)
           Has(o) == HasMatches(has(a), o)
<1>0. a \in Attribute /\ order.descending \in BOOLEAN /\ order.missing \in {"default", "first", "last"}
  BY DEF AttributeOrder
<1>1. /\ m < n => f = -1
      /\ m > n => f = 1
      /\ m = n => f = (IF order.descending THEN -c ELSE c)
  BY OrderCases
<1>2. \A o : /\ order.missing = "default" => OrderControlValue(order, o) = 0
             /\ order.missing = "first" => OrderControlValue(order, o) = (IF Has(o) THEN 1 ELSE 0)
             /\ order.missing = "last" => OrderControlValue(order, o) = (IF Has(o) THEN 0 ELSE 1)
  BY DEF OrderControlValue
<1>3. \A o1, o2 : ReadBefore(order, o1, o2) <=>
          \/ \E v \in ValuesOf(a, o1), w \in ValuesOf(a, o2) : IF order.descending THEN v > w ELSE v < w
          \/ ~Has(o1) /\ Has(o2) /\ MissingFirst(order)
          \/ Has(o1) /\ ~Has(o2) /\ ~MissingFirst(order)
  BY DEF ReadBefore
<1>4. CASE ~Has(x) /\ ~Has(y)
  <2>1. Len(Values[a][x]) = 0 /\ Len(Values[a][y]) = 0 /\ ValuesOf(a, x) = {} /\ ValuesOf(a, y) = {}
    BY <1>0, <1>4, AtMostOneValue
  <2>2. c = 0 BY <1>0, <2>1, CompareSingle
  <2>3. m = n BY <1>0, <1>2, <1>4
  <2>4. ~ReadBefore(order, x, y) /\ ~ReadBefore(order, y, x) BY <1>3, <1>4, <2>1
  <2>5. f = 0
    <3> HIDE DEF f, c, m, n
    <3>0. c \in Int BY <2>2
    <3>1. -c = c BY <2>2, <3>0, MinusZero
    <3> QED BY <1>1, <2>2, <2>3, <3>1
  <2> QED BY <2>1, <2>4, <2>5
<1>5. CASE ~Has(x) /\ Has(y)
  <2>1. Len(Values[a][x]) = 0 /\ Len(Values[a][y]) = 1 /\ ValuesOf(a, x) = {} /\ ValuesOf(a, y) # {}
    BY <1>0, <1>5, AtMostOneValue
  <2>2. c = -1 BY <1>0, <2>1, CompareSingle
  <2>3. ReadBefore(order, x, y) <=> MissingFirst(order) BY <1>3, <1>5, <2>1
  <2>4. ReadBefore(order, y, x) <=> ~MissingFirst(order) BY <1>3, <1>5, <2>1
  <2>5. CASE order.missing = "default"
    <3>1. m = n BY <1>2, <2>5
    <3>2. MissingFirst(order) <=> ~order.descending BY <2>5 DEF MissingFirst
    <3> HIDE DEF f, c, m, n
    <3>3. f = IF order.descending THEN 1 ELSE -1 BY <1>0, <1>1, <2>2, <3>1
    <3> QED BY <2>1, <2>3, <2>4, <3>2, <3>3 DEF f
  <2>6. CASE order.missing = "first"
    <3>1. m = 0 /\ n = 1 BY <1>2, <1>5, <2>6
    <3>2. MissingFirst(order) BY <2>6 DEF MissingFirst
    <3> HIDE DEF f, c, m, n
    <3>3. f = -1 BY <1>1, <3>1
    <3> QED BY <2>1, <2>3, <2>4, <3>2, <3>3 DEF f
  <2>7. CASE order.missing = "last"
    <3>1. m = 1 /\ n = 0 BY <1>2, <1>5, <2>7
    <3>2. ~MissingFirst(order) BY <2>7 DEF MissingFirst
    <3> HIDE DEF f, c, m, n
    <3>3. f = 1 BY <1>1, <3>1
    <3> QED BY <2>1, <2>3, <2>4, <3>2, <3>3 DEF f
  <2> QED BY <1>0, <2>5, <2>6, <2>7
<1>6. CASE Has(x) /\ ~Has(y)
  <2>1. Len(Values[a][x]) = 1 /\ Len(Values[a][y]) = 0 /\ ValuesOf(a, x) # {} /\ ValuesOf(a, y) = {}
    BY <1>0, <1>6, AtMostOneValue
  <2>2. c = 1 BY <1>0, <2>1, CompareSingle
  <2>3. ReadBefore(order, y, x) <=> MissingFirst(order) BY <1>3, <1>6, <2>1
  <2>4. ReadBefore(order, x, y) <=> ~MissingFirst(order) BY <1>3, <1>6, <2>1
  <2>5. CASE order.missing = "default"
    <3>1. m = n BY <1>2, <2>5
    <3>2. MissingFirst(order) <=> ~order.descending BY <2>5 DEF MissingFirst
    <3> HIDE DEF f, c, m, n
    <3>3. f = IF order.descending THEN -1 ELSE 1 BY <1>0, <1>1, <2>2, <3>1
    <3> QED BY <2>1, <2>3, <2>4, <3>2, <3>3 DEF f
  <2>6. CASE order.missing = "first"
    <3>1. m = 1 /\ n = 0 BY <1>2, <1>6, <2>6
    <3>2. MissingFirst(order) BY <2>6 DEF MissingFirst
    <3> HIDE DEF f, c, m, n
    <3>3. f = 1 BY <1>1, <3>1
    <3> QED BY <2>1, <2>3, <2>4, <3>2, <3>3 DEF f
  <2>7. CASE order.missing = "last"
    <3>1. m = 0 /\ n = 1 BY <1>2, <1>6, <2>7
    <3>2. ~MissingFirst(order) BY <2>7 DEF MissingFirst
    <3> HIDE DEF f, c, m, n
    <3>3. f = -1 BY <1>1, <3>1
    <3> QED BY <2>1, <2>3, <2>4, <3>2, <3>3 DEF f
  <2> QED BY <1>0, <2>5, <2>6, <2>7
<1>7. CASE Has(x) /\ Has(y)
  <2> DEFINE v == Values[a][x][1]
             w == Values[a][y][1]
  <2>1. /\ Len(Values[a][x]) = 1 /\ Len(Values[a][y]) = 1 /\ v \in Int /\ w \in Int
        /\ ValuesOf(a, x) = {v} /\ ValuesOf(a, y) = {w}
    BY <1>0, <1>7, AtMostOneValue
  <2>2. c = Sign(v - w) BY <1>0, <2>1, CompareSingle
  <2>3. m = n BY <1>0, <1>2, <1>7
  <2> HIDE DEF v, w
  <2>4. /\ ReadBefore(order, x, y) <=> (IF order.descending THEN v > w ELSE v < w)
        /\ ReadBefore(order, y, x) <=> (IF order.descending THEN w > v ELSE w < v)
    BY <1>3, <1>7, <2>1
  <2>5. (v < w => c = -1) /\ (v = w => c = 0) /\ (v > w => c = 1)
    <3>1. v \in Int /\ w \in Int BY <2>1
    <3>2. (v < w => Sign(v - w) = -1) /\ (v = w => Sign(v - w) = 0) /\ (v > w => Sign(v - w) = 1)
      BY ONLY <3>1, SignOfDifference
    <3> QED BY <2>2, <3>2
  <2> HIDE DEF f, c, m, n
  <2>6. f = IF order.descending THEN -c ELSE c BY <1>1, <2>3
  <2>7. CASE v < w
    <3>1. c = -1 /\ ~(v > w) /\ ValuesOf(a, x) # ValuesOf(a, y) BY <2>1, <2>5, <2>7
    <3>2. f = IF order.descending THEN 1 ELSE -1 BY <1>0, <2>6, <3>1
    <3> QED BY <1>0, <2>1, <2>4, <2>7, <3>1, <3>2 DEF f
  <2>8. CASE w < v
    <3>1. c = 1 /\ v > w /\ ~(v < w) /\ ValuesOf(a, x) # ValuesOf(a, y) BY <2>1, <2>5, <2>8
    <3>2. f = IF order.descending THEN -1 ELSE 1 BY <1>0, <2>6, <3>1
    <3> QED BY <1>0, <2>1, <2>4, <2>8, <3>1, <3>2 DEF f
  <2>9. CASE v = w
    <3>1. c = 0 BY <2>5, <2>9
    <3>2. c \in Int BY <3>1
    <3>3. -c = c BY <3>1, <3>2, MinusZero
    <3>4. f = 0 BY <2>6, <3>1, <3>3
    <3>5. ~ReadBefore(order, x, y) /\ ~ReadBefore(order, y, x) BY <2>1, <2>4, <2>9
    <3> QED BY <2>1, <2>9, <3>4, <3>5 DEF f
  <2> QED BY <2>1, <2>7, <2>8, <2>9
<1> QED BY <1>4, <1>5, <1>6, <1>7

\* Index ordering is sound and complete: on an attribute with at most one value, reading the
\* buckets of an index that is not quantized (no other is used for ordering) in the direction
\* of the first order, with the objects without a value where MissingFirst puts them, and
\* sorting each bucket by the orders that determineAdditionalSortOrdersForIndexOrdering
\* leaves, puts two objects in the order of the comparator, for any list of orders.
THEOREM IndexOrderIsComparatorOrder ==
    ASSUME NEW opts, opts.orderBy \in Seq(AttributeOrder), opts.orderBy # <<>>,
           NEW order, order = opts.orderBy[1], ~CanHaveMoreThanOneValue(order.attribute),
           NEW x \in Object, NEW y \in Object
    PROVE  compareByOrders(opts.orderBy, x, y) <= 0 <=>
               \/ ReadBefore(order, x, y)
               \/ /\ ValuesOf(order.attribute, x) = ValuesOf(order.attribute, y)
                  /\ compareByOrders(determineAdditionalSortOrdersForIndexOrdering(order.attribute, FALSE, opts), x, y) <= 0
<1>1. order \in AttributeOrder
  OBVIOUS
<1>2. determineAdditionalSortOrdersForIndexOrdering(order.attribute, FALSE, opts) = Tail(opts.orderBy)
  BY DEF determineAdditionalSortOrdersForIndexOrdering
<1> DEFINE f == compareByOrder(order, x, y)
           g == compareByOrders(opts.orderBy, x, y)
           h == compareByOrders(Tail(opts.orderBy), x, y)
<1>3. g = IF f # 0 THEN f ELSE h
  BY FirstOrderDecides
<1>4. CASE ReadBefore(order, x, y)
  <2>1. f = -1 BY <1>1, <1>4, FirstOrderByIndex
  <2> HIDE DEF f, g, h
  <2>2. g <= 0 BY <1>3, <2>1
  <2> QED BY <1>4, <2>2 DEF g
<1>5. CASE ReadBefore(order, y, x) /\ ~ReadBefore(order, x, y)
  <2>1. f = 1 BY <1>1, <1>5, FirstOrderByIndex
  <2>2. ValuesOf(order.attribute, x) # ValuesOf(order.attribute, y)
    BY <1>1, <2>1, FirstOrderByIndex
  <2> HIDE DEF f, g, h
  <2>3. ~(g <= 0) BY <1>3, <2>1
  <2> QED BY <1>5, <2>2, <2>3 DEF g
<1>6. CASE ValuesOf(order.attribute, x) = ValuesOf(order.attribute, y) /\ ~ReadBefore(order, x, y)
  <2>1. f = 0 BY <1>1, <1>6, FirstOrderByIndex
  <2>2. g = h BY <1>3, <2>1
  <2> QED BY <1>2, <1>6, <2>2
<1> QED BY <1>1, <1>4, <1>5, <1>6, FirstOrderByIndex
============================================================================
