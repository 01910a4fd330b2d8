-------------------------- MODULE ShapeRulesProofs --------------------------
(***************************************************************************)
(* The properties of ShapeRules, for chains of any length and tensors of   *)
(* any rank.                                                               *)
(***************************************************************************)
EXTENDS ShapeRules, SequenceTheorems, FunctionTheorems, FiniteSetTheorems, WellFoundedInduction, TLAPS

-----------------------------------------------------------------------------
(* Products of sizes *)

\* A set of numbers has a least element.
LEMMA Least ==
    ASSUME NEW S \in SUBSET Nat, S # {}
    PROVE  \E k \in S : \A j \in S : k <= j
<1> DEFINE T == {1 .. k : k \in S}
           R == StrictSubsetOrdering(Nat)
<1>1. T \subseteq FiniteSubsetsOf(Nat) /\ T # {}
  <2>1. \A k \in S : IsFiniteSet(1 .. k) /\ 1 .. k \subseteq Nat
    BY FS_Interval
  <2> QED  BY <2>1 DEF FiniteSubsetsOf
<1>2. IsWellFoundedOn(R, FiniteSubsetsOf(Nat))
  BY FS_StrictSubsetOrderingWellFounded
<1> HIDE DEF R
<1>3. PICK t \in T : \A u \in T : ~(<<u, t>> \in R)
  BY <1>1, <1>2, WFMin
<1>4. PICK k \in S : t = 1 .. k
  OBVIOUS
<1>5. ASSUME NEW j \in S, j < k
      PROVE  FALSE
  <2>1. 1 .. j \subseteq 1 .. k /\ 1 .. j # 1 .. k /\ 1 .. j \subseteq Nat /\ 1 .. k \subseteq Nat
    BY <1>5
  <2>2. <<1 .. j, 1 .. k>> \in R
    BY <2>1 DEF R, StrictSubsetOrdering
  <2> QED  BY <1>3, <1>4, <2>2
<1> QED  BY <1>5

\* The first wrong number of a series, if 0 is not wrong, comes after a right one.
LEMMA FirstWrong ==
    ASSUME NEW n \in Nat, NEW wrong \in SUBSET (0 .. n), wrong # {}, 0 \notin wrong
    PROVE  \E k \in 1 .. n : k \in wrong /\ k - 1 \notin wrong
<1>1. PICK k \in wrong : \A j \in wrong : k <= j
  BY Least
<1> QED  BY <1>1

IsProducts(f, dims, n) ==
    /\ f \in [0 .. n -> Int]
    /\ \A k \in 0 .. n : f[k] = IF k = 0 THEN 1 ELSE f[k - 1] * dims[k]

LEMMA ProductStep ==
    ASSUME NEW f, NEW dims, NEW n \in Nat, IsProducts(f, dims, n)
    PROVE  /\ f[0] = 1
           /\ \A k \in 1 .. n : f[k] = f[k - 1] * dims[k] /\ f[k] \in Int /\ f[k - 1] \in Int
<1>1. f[0] = 1
  BY DEF IsProducts
<1>2. ASSUME NEW k \in 1 .. n PROVE f[k] = f[k - 1] * dims[k] /\ f[k] \in Int /\ f[k - 1] \in Int
  <2>1. k \in 0 .. n /\ k - 1 \in 0 .. n /\ k # 0
    OBVIOUS
  <2> QED  BY <2>1, Zenon DEF IsProducts
<1> QED  BY <1>1, <1>2

LEMMA ProductsExist ==
    ASSUME NEW dims \in Seq(Int)
    PROVE  \A n \in 0 .. Len(dims) : \E f : IsProducts(f, dims, n)
<1> DEFINE wrong == {n \in 0 .. Len(dims) : ~\E f : IsProducts(f, dims, n)}
<1>1. 0 \notin wrong
  <2>1. IsProducts([k \in 0 .. 0 |-> 1], dims, 0)
    BY DEF IsProducts
  <2> QED  BY <2>1
<1>2. ASSUME NEW n \in 1 .. Len(dims), n - 1 \notin wrong PROVE n \notin wrong
  <2>1. PICK f : IsProducts(f, dims, n - 1)
    BY <1>2
  <2> DEFINE g == [k \in 0 .. n |-> IF k = n THEN f[n - 1] * dims[n] ELSE f[k]]
  <2>2. IsProducts(g, dims, n)
    <3>1. f \in [0 .. n - 1 -> Int] /\ dims[n] \in Int
      BY <2>1 DEF IsProducts
    <3>2. g \in [0 .. n -> Int]
      BY <3>1
    <3>3. ASSUME NEW k \in 0 .. n PROVE g[k] = IF k = 0 THEN 1 ELSE g[k - 1] * dims[k]
      <4>1. CASE k = n
        BY <4>1
      <4>2. CASE k # n
        BY <2>1, <4>2 DEF IsProducts
      <4> QED  BY <4>1, <4>2
    <3> QED  BY <3>2, <3>3 DEF IsProducts
  <2> QED  BY <2>2
<1> HIDE DEF wrong
<1>3. wrong = {}
  <2>1. Len(dims) \in Nat /\ wrong \in SUBSET (0 .. Len(dims))
    BY DEF wrong
  <2> QED  BY <1>1, <1>2, <2>1, FirstWrong
<1> QED  BY <1>3 DEF wrong

\* The recursive definition has a value.
LEMMA ProductsDef ==
    ASSUME NEW dims \in Seq(Int)
    PROVE  IsProducts(Products(dims), dims, Len(dims))
<1> DEFINE n == Len(dims)
           IsUpTo(f) == f = [k \in 0 .. n |-> IF k = 0 THEN 1 ELSE f[k - 1] * dims[k]]
<1>1. n \in Nat
  OBVIOUS
<1>2. PICK f : IsProducts(f, dims, n)
  BY <1>1, ProductsExist
<1>3. IsUpTo(f)
  BY <1>2 DEF IsProducts
<1>4. Products(dims) = CHOOSE g : IsUpTo(g)
  BY DEF Products
<1> DEFINE p == Products(dims)
<1>5. IsUpTo(p)
  <2> HIDE DEF IsUpTo
  <2> QED  BY <1>3, <1>4
<1> HIDE DEF p
<1>6. \A k \in 0 .. n : p[k] = IF k = 0 THEN 1 ELSE p[k - 1] * dims[k]
  BY <1>5
<1>7. \A k \in 0 .. n : p[k] \in Int
  <2> DEFINE wrong == {k \in 0 .. n : p[k] \notin Int}
  <2>1. 0 \notin wrong
    BY <1>1, <1>6
  <2>2. \A k \in 1 .. n : k - 1 \notin wrong => k \notin wrong
    BY <1>1, <1>6
  <2> QED  BY <1>1, <2>1, <2>2, FirstWrong
<1> QED  BY <1>5, <1>6, <1>7 DEF IsProducts, p

LEMMA DynamicFacts == Limit \in Nat /\ Dynamic \in Int /\ Dynamic < -1 /\ Dynamic = -Limit
  BY LimitAssumption DEF Dynamic

LEMMA ListFacts ==
    ASSUME NEW size \in Int, NEW list \in Lists(size)
    PROVE  /\ list \in Seq(Int) /\ Len(list) \in Nat /\ DOMAIN list = 1 .. Len(list)
           /\ \A i \in 1 .. Len(list) : list[i] \in Int /\ list[i] >= size
  BY DEF Lists

LEMMA ProductOfNaturals ==
    ASSUME NEW dims \in Lists(0)
    PROVE  /\ NumElements(dims) \in Nat
           /\ NumElements(dims) > 0 <=> \A i \in DOMAIN dims : dims[i] > 0
<1> DEFINE n == Len(dims)
           f == Products(dims)
           right(k) == f[k] \in Nat /\ (f[k] > 0 <=> \A i \in 1 .. k : dims[i] > 0)
           wrong == {k \in 0 .. n : ~right(k)}
<1>1. dims \in Seq(Int) /\ n \in Nat /\ \A i \in 1 .. n : dims[i] \in Nat
  BY ListFacts
<1>2. IsProducts(f, dims, n)
  BY <1>1, ProductsDef
<1> HIDE DEF f, n
<1>3. 0 \notin wrong
  BY <1>1, <1>2, ProductStep
<1>4. ASSUME NEW k \in 1 .. n, k - 1 \notin wrong PROVE k \notin wrong
  <2>1. k - 1 \in 0 .. n /\ right(k - 1) /\ f[k] = f[k - 1] * dims[k] /\ dims[k] \in Nat
    <3>1. k - 1 \in 0 .. n /\ dims[k] \in Nat
      BY <1>1
    <3>2. f[k] = f[k - 1] * dims[k]
      BY <1>1, <1>2, ProductStep
    <3>3. right(k - 1)
      <4> HIDE DEF right
      <4> QED  BY <1>4, <3>1
    <3> QED  BY <3>1, <3>2, <3>3
  <2>2. f[k] \in Nat /\ (f[k] > 0 <=> f[k - 1] > 0 /\ dims[k] > 0)
    <3>1. \A a, b \in Nat : a * b \in Nat /\ (a * b > 0 <=> a > 0 /\ b > 0)
      OBVIOUS
    <3> HIDE DEF right
    <3>2. f[k - 1] \in Nat
      BY <2>1 DEF right
    <3> QED  BY <2>1, <3>1, <3>2
  <2>3. 1 .. k = 1 .. (k - 1) \cup {k}
    BY <1>1
  <2>4. (\A i \in 1 .. k : dims[i] > 0) <=> (\A i \in 1 .. k - 1 : dims[i] > 0) /\ dims[k] > 0
    BY <2>3
  <2> QED  BY <2>1, <2>2, <2>4
<1> HIDE DEF wrong
<1>5. wrong \in SUBSET (0 .. n)
  BY DEF wrong
<1>6. right(n)
  <2>1. wrong = {}
    BY <1>1, <1>3, <1>4, <1>5, FirstWrong
  <2> QED  BY <1>1, <2>1 DEF wrong
<1> QED  BY <1>1, <1>6 DEF NumElements, f, n

\* With an unknown size among others that are positive, a product that does not overflow
\* is Dynamic itself.
LEMMA ProductAgrees ==
    ASSUME NEW dims \in Seq(Int), NEW shape \in Lists(1), Agrees(dims, shape), Multiplies(dims)
    PROVE  NumElements(dims) \in {NumElements(shape), Dynamic}
<1> DEFINE n == Len(dims)
           f == Products(dims)
           g == Products(shape)
           right(k) == g[k] >= 1 /\ f[k] \in {g[k], Dynamic}
           wrong == {k \in 0 .. n : ~right(k)}
<1>1. /\ shape \in Seq(Int) /\ n \in Nat /\ Len(shape) = n
      /\ \A i \in 1 .. n : dims[i] \in Int /\ shape[i] \in Int /\ shape[i] >= 1 /\ dims[i] \in {shape[i], Dynamic}
  BY ListFacts DEF Agrees
<1>2. IsProducts(f, dims, n) /\ IsProducts(g, shape, n)
  BY <1>1, ProductsDef
<1>3. \A k \in 1 .. n : f[k] >= Dynamic /\ f[k] < Limit
  BY <1>1 DEF Multiplies, NoOverflow
<1> HIDE DEF f, g, n
<1>4. 0 \notin wrong
  BY <1>1, <1>2 DEF IsProducts
<1>5. ASSUME NEW k \in 1 .. n, k - 1 \notin wrong PROVE k \notin wrong
  <2>1. right(k - 1) /\ f[k] = f[k - 1] * dims[k] /\ g[k] = g[k - 1] * shape[k]
        /\ f[k - 1] \in Int /\ g[k - 1] \in Int /\ g[k] \in Int
    BY <1>1, <1>2, <1>5 DEF IsProducts
  <2>2. dims[k] \in Int /\ shape[k] \in Int /\ shape[k] >= 1 /\ dims[k] \in {shape[k], Dynamic}
    BY <1>1
  <2>3. g[k] >= 1
    <3>1. \A a, b \in Int : a >= 1 /\ b >= 1 => a * b >= 1
      OBVIOUS
    <3> QED  BY <2>1, <2>2, <3>1
  <2>4. CASE f[k - 1] = g[k - 1] /\ dims[k] = shape[k]
    BY <2>1, <2>3, <2>4
  <2>5. CASE f[k - 1] = g[k - 1] /\ dims[k] = Dynamic
    <3>1. \A a, m \in Int : a >= 1 /\ m >= 1 /\ a * (-m) >= -m => a * (-m) = -m
      OBVIOUS
    <3>2. f[k - 1] \in Int /\ f[k - 1] >= 1 /\ f[k] = f[k - 1] * (-Limit) /\ f[k] >= -Limit
      BY <1>3, <2>1, <2>5, DynamicFacts
    <3>3. f[k] = -Limit
      BY <3>1, <3>2, LimitAssumption
    <3> QED  BY <2>3, <3>3, DynamicFacts
  <2>6. CASE f[k - 1] = Dynamic /\ dims[k] = shape[k]
    <3>1. \A a, m \in Int : a >= 1 /\ m >= 1 /\ (-m) * a >= -m => (-m) * a = -m
      OBVIOUS
    <3>2. f[k] = (-Limit) * shape[k] /\ f[k] >= -Limit
      BY <1>3, <2>1, <2>6, DynamicFacts
    <3>3. f[k] = -Limit
      BY <2>2, <3>1, <3>2, LimitAssumption
    <3> QED  BY <2>3, <3>3, DynamicFacts
  <2>7. CASE f[k - 1] = Dynamic /\ dims[k] = Dynamic
    <3>1. \A m \in Int : m >= 1 => (-m) * (-m) >= m
      OBVIOUS
    <3>2. f[k] = (-Limit) * (-Limit) /\ f[k] < Limit
      BY <1>3, <2>1, <2>7, DynamicFacts
    <3> QED  BY <3>1, <3>2, LimitAssumption
  <2> QED  BY <2>1, <2>2, <2>4, <2>5, <2>6, <2>7
<1> HIDE DEF wrong
<1>6. wrong \in SUBSET (0 .. n)
  BY DEF wrong
<1>7. right(n)
  <2>1. wrong = {}
    BY <1>1, <1>4, <1>5, <1>6, FirstWrong
  <2> QED  BY <1>1, <2>1 DEF wrong
<1> QED  BY <1>1, <1>7 DEF NumElements, f, g, n

\* A product in two parts.
LEMMA ProductSplit ==
    ASSUME NEW dims \in Seq(Int), NEW at \in 0 .. Len(dims)
    PROVE  NumElements(dims)
             = NumElements(SubSeq(dims, 1, at)) * NumElements(SubSeq(dims, at + 1, Len(dims)))
<1> DEFINE n == Len(dims)
           low == SubSeq(dims, 1, at)
           high == SubSeq(dims, at + 1, n)
           f == Products(dims)
           g == Products(low)
           h == Products(high)
<1>1. n \in Nat /\ at \in Nat /\ at <= n /\ \A i \in 1 .. n : dims[i] \in Int
  OBVIOUS
<1>2. low \in Seq(Int) /\ Len(low) = at /\ \A i \in 1 .. at : low[i] = dims[i]
  BY <1>1
<1>3. high \in Seq(Int) /\ Len(high) = n - at /\ \A i \in 1 .. n - at : high[i] = dims[at + i]
  BY <1>1
<1>4. IsProducts(f, dims, n) /\ IsProducts(g, low, at) /\ IsProducts(h, high, n - at)
  BY <1>2, <1>3, ProductsDef
<1>5. NumElements(dims) = f[n] /\ NumElements(low) = g[at] /\ NumElements(high) = h[n - at]
  BY <1>2, <1>3 DEF NumElements
<1> HIDE DEF f, g, h, n, low, high
<1>6. f[at] = g[at]
  <2> DEFINE wrong == {k \in 0 .. at : f[k] # g[k]}
  <2>1. 0 \notin wrong
    BY <1>1, <1>4 DEF IsProducts
  <2>2. ASSUME NEW k \in 1 .. at, k - 1 \notin wrong PROVE k \notin wrong
    <3>1. f[k] = f[k - 1] * dims[k] /\ g[k] = g[k - 1] * low[k]
      <4>1. k \in 1 .. n /\ n \in Nat /\ at \in Nat
        BY <1>1
      <4> QED  BY <1>4, <4>1, ProductStep
    <3>2. f[k - 1] = g[k - 1] /\ low[k] = dims[k]
      BY <1>1, <1>2, <2>2
    <3> QED  BY <3>1, <3>2, Zenon
  <2> HIDE DEF wrong
  <2>3. wrong \in SUBSET (0 .. at)
    BY DEF wrong
  <2>4. wrong = {}
    BY <1>1, <2>1, <2>2, <2>3, FirstWrong
  <2> QED  BY <1>1, <2>4 DEF wrong
<1>7. f[n] = g[at] * h[n - at]
  <2> DEFINE wrong == {k \in 0 .. n - at : f[at + k] # g[at] * h[k]}
  <2>0. g[at] \in Int
    BY <1>1, <1>4 DEF IsProducts
  <2>1. 0 \notin wrong
    <3>1. h[0] = 1
      BY <1>1, <1>4 DEF IsProducts
    <3> QED  BY <1>1, <1>6, <2>0, <3>1
  <2>2. ASSUME NEW k \in 1 .. n - at, k - 1 \notin wrong PROVE k \notin wrong
    <3>1. f[at + k] = f[at + k - 1] * dims[at + k] /\ h[k] = h[k - 1] * high[k]
          /\ h[k - 1] \in Int /\ dims[at + k] \in Int
      <4>1. at + k \in 1 .. n /\ n \in Nat /\ n - at \in Nat /\ at + k - 1 = (at + k) - 1
        BY <1>1
      <4> QED  BY <1>1, <1>4, <4>1, ProductStep
    <3>2. f[at + k - 1] = g[at] * h[k - 1]
      BY <1>1, <2>2
    <3>3. \A a, b, c \in Int : (a * b) * c = a * (b * c)
      OBVIOUS
    <3>4. high[k] = dims[at + k]
      BY <1>3
    <3>5. f[at + k] = (g[at] * h[k - 1]) * dims[at + k] /\ h[k] = h[k - 1] * dims[at + k]
      BY <3>1, <3>2, <3>4, Zenon
    <3>6. f[at + k] = g[at] * h[k]
      BY <2>0, <3>1, <3>3, <3>5
    <3> QED  BY <3>6
  <2> HIDE DEF wrong
  <2>3. wrong \in SUBSET (0 .. n - at)
    BY DEF wrong
  <2>4. wrong = {}
    <3>1. n - at \in Nat
      BY <1>1
    <3> QED  BY <2>1, <2>2, <2>3, <3>1, FirstWrong
  <2> QED  BY <1>1, <2>4 DEF wrong
<1> QED  BY <1>5, <1>7 DEF low, high, n

-----------------------------------------------------------------------------
(* Windows *)

LEMMA Division ==
    ASSUME NEW a \in Nat, NEW b \in Nat, b > 0
    PROVE  a \div b \in Nat /\ a = b * (a \div b) + (a % b) /\ a % b \in 0 .. b - 1
  OBVIOUS

\* The windows that fit start at the multiples of the stride up to the last place.
LEMMA FittingIs ==
    ASSUME NEW size \in Nat, NEW kernel \in Nat, kernel > 0, NEW stride \in Nat, stride > 0,
           NEW dilation \in Nat, dilation > 0
    PROVE  LET last == size - dilation * (kernel - 1) - 1
           IN  /\ last >= 0 => Fitting(size, kernel, stride, dilation) = last \div stride + 1
               /\ last < 0 => Fitting(size, kernel, stride, dilation) = 0
<1> DEFINE reach == dilation * (kernel - 1)
           last == size - reach - 1
           starts == {i \in 0 .. size : i % stride = 0 /\ i + reach < size}
<1>1. reach \in Nat
  <2>1. \A a, b \in Nat : a * b \in Nat
    OBVIOUS
  <2>2. kernel - 1 \in Nat
    OBVIOUS
  <2> QED  BY <2>1, <2>2
<1>2. Fitting(size, kernel, stride, dilation) = Cardinality(starts)
  BY DEF Fitting
<1> HIDE DEF reach
<1>3. CASE last < 0
  <2>1. starts = {}
    BY <1>1, <1>3
  <2> QED  BY <1>2, <1>3, <2>1, FS_EmptySet DEF reach
<1>4. CASE last >= 0
  <2> DEFINE q == last \div stride
             f == [j \in 0 .. q |-> j * stride]
  <2>1. last \in Nat /\ q \in Nat /\ stride * q <= last /\ last < stride * q + stride
    BY <1>1, <1>4, Division
  <2>2. ASSUME NEW j \in 0 .. q PROVE j * stride \in starts
    <3>1. j * stride \in Nat /\ (j * stride) % stride = 0
      <4> HIDE DEF q
      <4> QED  BY <2>1
    <3>2. j * stride <= last
      <4>1. \A a, b, c \in Nat : a <= b => a * c <= c * b
        OBVIOUS
      <4> HIDE DEF q
      <4>2. j \in Nat /\ j <= q
        BY <2>1
      <4>3. j * stride <= stride * q
        BY <2>1, <4>1, <4>2
      <4> HIDE DEF last
      <4> QED  BY <2>1, <3>1, <4>3
    <3>3. j * stride + reach < size /\ j * stride <= size
      <4> HIDE DEF q
      <4> QED  BY <1>1, <3>1, <3>2
    <3> QED  BY <3>1, <3>3
  <2>3. ASSUME NEW i \in starts PROVE \E j \in 0 .. q : j * stride = i
    <3> DEFINE j == i \div stride
    <3>1. i \in Nat /\ i <= last /\ j \in Nat /\ i = stride * j
      BY <1>1, <2>3, Division
    <3>2. j <= q
      <4>1. \A a, b, c \in Nat : c * a < c * b + c => a <= b
        <5> TAKE a, b, c \in Nat
        <5>1. a >= b + 1 => c * a >= c * (b + 1)
          OBVIOUS
        <5>2. c * (b + 1) = c * b + c
          OBVIOUS
        <5> QED  BY <5>1, <5>2
      <4>2. stride * j < stride * q + stride
        <5> HIDE DEF q, j, last
        <5> QED  BY <2>1, <3>1
      <4> HIDE DEF q, j
      <4> QED  BY <2>1, <3>1, <4>1, <4>2
    <3>3. j * stride = i
      <4> HIDE DEF j
      <4> QED  BY <3>1
    <3>4. j \in 0 .. q
      <4> HIDE DEF j, q
      <4> QED  BY <2>1, <3>1, <3>2
    <3> HIDE DEF j, q, starts
    <3> QED  BY <3>3, <3>4
  <2>4. \A a, b \in 0 .. q : f[a] = f[b] => a = b
    <3>1. \A a, b \in Nat : a * stride = b * stride => a = b
      OBVIOUS
    <3> HIDE DEF q
    <3> QED  BY <2>1, <3>1
  <2>5. f \in Bijection(0 .. q, starts)
    <3> HIDE DEF q, starts
    <3>1. f \in [0 .. q -> starts]
      BY <2>2
    <3>2. \A t \in starts : \E s \in 0 .. q : f[s] = t
      BY <2>3
    <3> HIDE DEF f
    <3> QED  BY <2>4, <3>1, <3>2, Fun_IsBij
  <2>6. Cardinality(starts) = q + 1
    <3> HIDE DEF f, starts, q
    <3>1. ExistsBijection(0 .. q, starts)
      BY <2>5, Fun_ExistsBij
    <3>2. IsFiniteSet(0 .. q) /\ Cardinality(0 .. q) = q + 1
      <4>1. q \in Nat
        BY <2>1
      <4>2. 0 \in Int /\ q \in Int /\ ~(0 > q) /\ q - 0 + 1 = q + 1
        BY <4>1
      <4> QED  BY <4>2, FS_Interval
    <3> QED  BY <3>1, <3>2, FS_Bijection
  <2> QED  BY <1>2, <1>4, <2>6 DEF reach
<1> QED  BY <1>1, <1>3, <1>4 DEF reach

-----------------------------------------------------------------------------
(* Linalg operations *)

\* Maps as the emitters make them: a list of lists of indices.
IsMaps(maps) ==
    /\ DOMAIN maps \subseteq Nat
    /\ \A p \in DOMAIN maps : DOMAIN maps[p] \subseteq Nat

LEMMA SlotFacts ==
    ASSUME NEW maps
    PROVE  /\ \A s \in Slots(maps) : s = <<s[1], s[2]>> /\ s[1] \in DOMAIN maps /\ s[2] \in DOMAIN maps[s[1]]
           /\ \A p \in DOMAIN maps : \A i \in DOMAIN maps[p] : <<p, i>> \in Slots(maps)
  BY DEF Slots

\* The range of a loop comes from the first place that it indexes alone.
LEMMA RangeIs ==
    ASSUME NEW dims, NEW maps, IsMaps(maps),
           NEW p \in DOMAIN maps, NEW i \in DOMAIN maps[p], NEW l, maps[p][i] = Loop(l),
           \A q \in DOMAIN maps : \A j \in DOMAIN maps[q] :
               maps[q][j] = Loop(l) => p < q \/ (p = q /\ i <= j)
    PROVE  l \in DOMAIN Ranges(dims, maps) /\ Ranges(dims, maps)[l] = dims[p][i]
<1> DEFINE IsFirst(s) ==
        /\ IndexAt(maps, s) = Loop(l)
        /\ \A t \in Slots(maps) :
              IndexAt(maps, t) = Loop(l) => s[1] < t[1] \/ (s[1] = t[1] /\ s[2] <= t[2])
<1>1. <<p, i>> \in Slots(maps) /\ IsFirst(<<p, i>>)
  BY SlotFacts DEF IndexAt
<1>2. ASSUME NEW s \in Slots(maps), IsFirst(s) PROVE s = <<p, i>>
  <2>1. s[1] < p \/ (s[1] = p /\ s[2] <= i)
    BY <1>1, <1>2
  <2>2. p < s[1] \/ (p = s[1] /\ i <= s[2])
    BY <1>1, <1>2
  <2>3. s = <<s[1], s[2]>> /\ s[1] \in Nat /\ s[2] \in Nat /\ p \in Nat /\ i \in Nat
    BY SlotFacts DEF IsMaps
  <2> QED  BY <2>1, <2>2, <2>3
<1>3. First(maps, l) = CHOOSE s \in Slots(maps) : IsFirst(s)
  BY DEF First
<1>4. First(maps, l) = <<p, i>>
  <2> HIDE DEF IsFirst
  <2> QED  BY <1>1, <1>2, <1>3
<1>5. l \in Loops(maps)
  <2>1. IndexAt(maps, <<p, i>>).loop = l
    BY DEF IndexAt, Loop
  <2> QED  BY <1>1, <2>1 DEF Loops
<1> QED  BY <1>4, <1>5 DEF Ranges

\* Every loop of an operation is at some place.
LEMMA RangeDomain ==
    ASSUME NEW dims, NEW maps, NEW l \in DOMAIN Ranges(dims, maps)
    PROVE  \E p \in DOMAIN maps : \E i \in DOMAIN maps[p] :
               maps[p][i].loop = l \/ (maps[p][i].plus = l /\ l # 0)
  BY SlotFacts DEF Ranges, Loops, IndexAt

\* What is verified is right where no size is unknown or 0.
LEMMA VerifiedIsRight ==
    ASSUME NEW dims, NEW maps, Verified(dims, maps),
           \A l \in DOMAIN Ranges(dims, maps) : Ranges(dims, maps)[l] # Dynamic,
           \A p \in DOMAIN maps : \A i \in DOMAIN maps[p] :
               dims[p][i] \notin {Dynamic, 0} \/ Matches(dims[p][i], maps[p][i], Ranges(dims, maps))
    PROVE  Right(dims, maps)
  BY DEF Verified, Right

-----------------------------------------------------------------------------
(* Operations whose first operand gives all ranges *)

\* The first operand of rank n has one loop for each dimension, and there are no others.
IsPlain(maps, n) ==
    /\ n \in Nat /\ IsMaps(maps)
    /\ 1 \in DOMAIN maps /\ \A p \in DOMAIN maps : p >= 1
    /\ maps[1] = Identity(n)
    /\ \A p \in DOMAIN maps : \A i \in DOMAIN maps[p] : maps[p][i] = Loop(maps[p][i].loop)
                                                          /\ maps[p][i].loop \in 1 .. n

LEMMA LoopFacts ==
    ASSUME NEW k, NEW l, k # 0
    PROVE  /\ Loop(l).loop = l /\ Loop(l).plus = 0 /\ IsLoop(Loop(l))
           /\ Loop(k) = Loop(l) <=> k = l
<1>1. Loop(l).loop = l /\ Loop(k).loop = k /\ Loop(l).plus = 0
  BY DEF Loop
<1> QED  BY <1>1, Zenon DEF IsLoop

LEMMA PlainRanges ==
    ASSUME NEW dims, NEW maps, NEW n, IsPlain(maps, n)
    PROVE  /\ DOMAIN Ranges(dims, maps) = 1 .. n
           /\ \A l \in 1 .. n : Ranges(dims, maps)[l] = dims[1][l]
<1>1. n \in Nat /\ DOMAIN maps[1] = 1 .. n /\ \A i \in 1 .. n : maps[1][i] = Loop(i)
  BY DEF IsPlain, Identity
<1>2. ASSUME NEW l \in 1 .. n
      PROVE  l \in DOMAIN Ranges(dims, maps) /\ Ranges(dims, maps)[l] = dims[1][l]
  <2>1. IsMaps(maps) /\ 1 \in DOMAIN maps /\ l \in DOMAIN maps[1] /\ maps[1][l] = Loop(l)
    BY <1>1 DEF IsPlain
  <2>2. ASSUME NEW q \in DOMAIN maps, NEW j \in DOMAIN maps[q], maps[q][j] = Loop(l)
        PROVE  1 < q \/ (1 = q /\ l <= j)
    <3>1. q = 1 => j = l
      BY <1>1, <2>2, LoopFacts
    <3>2. q \in Nat /\ q >= 1
      BY DEF IsPlain, IsMaps
    <3> QED  BY <3>1, <3>2
  <2> QED  BY <2>1, <2>2, RangeIs
<1>3. ASSUME NEW l \in DOMAIN Ranges(dims, maps) PROVE l \in 1 .. n
  <2>1. PICK p \in DOMAIN maps : \E i \in DOMAIN maps[p] :
            maps[p][i].loop = l \/ (maps[p][i].plus = l /\ l # 0)
    BY <1>3, RangeDomain
  <2>0. PICK i \in DOMAIN maps[p] : maps[p][i].loop = l \/ (maps[p][i].plus = l /\ l # 0)
    BY <2>1
  <2>2. maps[p][i] = Loop(maps[p][i].loop) /\ maps[p][i].loop \in 1 .. n
    BY DEF IsPlain
  <2>3. maps[p][i].plus = 0
    <3>1. Loop(maps[p][i].loop).plus = 0
      BY DEF Loop
    <3> QED  BY <2>2, <3>1
  <2> QED  BY <2>0, <2>2, <2>3
<1> QED  BY <1>2, <1>3

PlainMatch(dims, maps) == \A p \in DOMAIN maps : \A i \in DOMAIN maps[p] :
                              dims[p][i] = dims[1][maps[p][i].loop]

LEMMA PlainOperation ==
    ASSUME NEW dims, NEW maps, NEW n, IsPlain(maps, n)
    PROVE  /\ Right(dims, maps) <=> PlainMatch(dims, maps)
           /\ (\A l \in 1 .. n : dims[1][l] # Dynamic) /\ Verified(dims, maps) =>
                 \A p \in DOMAIN maps : \A i \in DOMAIN maps[p] :
                     dims[p][i] \in {Dynamic, 0} \/ dims[p][i] = dims[1][maps[p][i].loop]
           /\ PlainMatch(dims, maps) => Verified(dims, maps)
<1> DEFINE range == Ranges(dims, maps)
<1>1. DOMAIN range = 1 .. n /\ \A l \in 1 .. n : range[l] = dims[1][l]
  BY PlainRanges
<1>2. ASSUME NEW p \in DOMAIN maps, NEW i \in DOMAIN maps[p]
      PROVE  /\ Matches(dims[p][i], maps[p][i], range) <=> dims[p][i] = dims[1][maps[p][i].loop]
             /\ IsLoop(maps[p][i])
  <2>1. maps[p][i] = Loop(maps[p][i].loop) /\ maps[p][i].loop \in 1 .. n
    BY DEF IsPlain
  <2>2. IsLoop(maps[p][i])
    BY <2>1, LoopFacts, Zenon DEF IsLoop, Loop
  <2> QED  BY <1>1, <2>1, <2>2 DEF Matches
<1> HIDE DEF range
<1>3. Right(dims, maps) <=> PlainMatch(dims, maps)
  <2>1. Right(dims, maps) <=>
            \A p \in DOMAIN maps : \A i \in DOMAIN maps[p] :
                \/ Matches(dims[p][i], maps[p][i], range)
                \/ ~IsLoop(maps[p][i]) /\ \E l \in DOMAIN range : range[l] = 0
    BY DEF Right, range
  <2> QED  BY <1>2, <2>1, Zenon DEF PlainMatch
<1>4. Verified(dims, maps) <=>
          ((\A l \in DOMAIN range : range[l] # Dynamic) =>
               \A p \in DOMAIN maps : \A i \in DOMAIN maps[p] :
                   dims[p][i] \in {Dynamic, 0} \/ Matches(dims[p][i], maps[p][i], range))
  BY DEF Verified, range
<1> QED  BY <1>1, <1>2, <1>3, <1>4, Zenon DEF PlainMatch

-----------------------------------------------------------------------------
(* What every emitter keeps *)

\* A tensor with elements whose type says what is known of its shape.
IsTensor(t) == t.type \in Seq(Int) /\ t.shape \in Lists(1) /\ Agrees(t.type, t.shape)
Full(t)     == 0 \notin ToSet(t.shape)

AllVerified(e) == \A op \in e.ops : op.verified
AllRight(e)    == \A op \in e.ops : op.right

\* Given a tensor, and with all its sizes known or not: what runs has ONNX's sizes; what
\* passes all checks runs, if all sizes are known; and what is supported passes them.
Keeps(e, reference, supported, known) ==
    /\ e.fits /\ e.defined /\ AllVerified(e) /\ AllRight(e) /\ Full(e.result) =>
           IsTensor(e.result) /\ (reference # Invalid => e.result.shape = reference)
    /\ known /\ e.fits /\ e.defined /\ AllVerified(e) =>
           /\ AllRight(e)
           /\ Full(e.result) => reference # Invalid /\ e.result.type = e.result.shape
    /\ known /\ supported /\ reference # Invalid /\ e.fits =>
           e.defined /\ AllVerified(e) /\ Full(e.result)

LEMMA TensorFacts ==
    ASSUME NEW t, IsTensor(t)
    PROVE  /\ t.type \in Seq(Int) /\ t.shape \in Seq(Int) /\ Len(t.type) = Len(t.shape) /\ Len(t.type) \in Nat
           /\ DOMAIN t.type = 1 .. Len(t.type) /\ DOMAIN t.shape = 1 .. Len(t.type)
           /\ \A i \in 1 .. Len(t.type) :
                 /\ t.type[i] \in Int /\ t.shape[i] \in Int /\ t.shape[i] > 0
                 /\ t.type[i] = t.shape[i] \/ t.type[i] = Dynamic
                 /\ t.type[i] # 0 /\ t.shape[i] # Dynamic
           /\ Full(t) /\ t.shape # Invalid
<1>1. t.type \in Seq(Int) /\ t.shape \in Lists(1) /\ Len(t.type) = Len(t.shape)
      /\ \A i \in DOMAIN t.type : t.type[i] = t.shape[i] \/ t.type[i] = Dynamic
  BY DEF IsTensor, Agrees
<1>2. t.shape \in Seq(Int) /\ \A i \in 1 .. Len(t.shape) : t.shape[i] \in Int /\ t.shape[i] >= 1
  BY <1>1, ListFacts
<1>3. Full(t)
  BY <1>2 DEF Full, ToSet
<1>4. t.shape # Invalid
  BY <1>2 DEF Invalid
<1> QED  BY <1>1, <1>2, <1>3, <1>4, DynamicFacts

LEMMA ConstantIsTensor ==
    ASSUME NEW dims \in Lists(1)
    PROVE  IsTensor(Constant(dims)) /\ Constant(dims).type = dims /\ Constant(dims).shape = dims
  BY DEF Constant, IsTensor, Agrees, Lists

\* Maps of which every index is a loop of the first operand.
LEMMA PlainMaps ==
    ASSUME NEW n \in Nat, NEW maps \in Seq(Seq({Loop(l) : l \in 1 .. n})), maps # << >>,
           maps[1] = Identity(n)
    PROVE  IsPlain(maps, n)
<1>1. DOMAIN maps = 1 .. Len(maps) /\ Len(maps) \in Nat /\ 1 \in DOMAIN maps
  OBVIOUS
<1>2. ASSUME NEW p \in DOMAIN maps
      PROVE  maps[p] \in Seq({Loop(l) : l \in 1 .. n}) /\ DOMAIN maps[p] \subseteq Nat
  OBVIOUS
<1>3. ASSUME NEW p \in DOMAIN maps, NEW i \in DOMAIN maps[p]
      PROVE  maps[p][i] = Loop(maps[p][i].loop) /\ maps[p][i].loop \in 1 .. n
  <2>1. maps[p][i] \in {Loop(l) : l \in 1 .. n}
    BY <1>2
  <2>2. PICK l \in 1 .. n : maps[p][i] = Loop(l)
    BY <2>1
  <2> QED  BY <2>2 DEF Loop
<1> QED  BY <1>1, <1>2, <1>3 DEF IsPlain, IsMaps

LEMMA IdentityFacts ==
    ASSUME NEW n \in Nat
    PROVE  /\ Identity(n) \in Seq({Loop(l) : l \in 1 .. n}) /\ Len(Identity(n)) = n
           /\ \A i \in 1 .. n : Identity(n)[i] = Loop(i) /\ Identity(n)[i].loop = i
<1>1. \A i \in 1 .. n : Identity(n)[i] = Loop(i)
  BY DEF Identity
<1>2. Identity(n) \in Seq({Loop(l) : l \in 1 .. n}) /\ Len(Identity(n)) = n
  BY DEF Identity
<1> QED  BY <1>1, <1>2 DEF Loop

\* Sizes that are those of the loops in a map.
Follows(dims, map, range) == Len(dims) = Len(map) /\ \A i \in 1 .. Len(map) : dims[i] = range[map[i].loop]

LEMMA PlainLinalg ==
    ASSUME NEW n, NEW maps, IsPlain(maps, n), NEW operands, DOMAIN operands = DOMAIN maps,
           \A p \in DOMAIN maps : IsTensor(operands[p]) /\ DOMAIN maps[p] = 1 .. Len(maps[p])
    PROVE  LET op == Linalg(operands, maps)
           IN  /\ op.right =>
                     \A p \in DOMAIN maps : Follows(operands[p].shape, maps[p], operands[1].shape)
               /\ (\A p \in DOMAIN maps : Follows(operands[p].type, maps[p], operands[1].type)) =>
                     op.verified
               /\ (\A p \in DOMAIN maps : operands[p].type = operands[p].shape) /\ op.verified =>
                     op.right
<1> DEFINE types  == [p \in DOMAIN operands |-> operands[p].type]
           shapes == [p \in DOMAIN operands |-> operands[p].shape]
           op     == Linalg(operands, maps)
           fit    == \A p \in DOMAIN maps : Len(types[p]) = Len(maps[p])
<1>1. op = IF fit THEN Op(Verified(types, maps), Right(shapes, maps)) ELSE Op(FALSE, FALSE)
  <2>1. op = IF \E p \in DOMAIN maps : Len(types[p]) # Len(maps[p]) THEN Op(FALSE, FALSE)
             ELSE Op(Verified(types, maps), Right(shapes, maps))
    BY DEF Linalg
  <2>2. (\E p \in DOMAIN maps : Len(types[p]) # Len(maps[p])) <=> ~fit
    OBVIOUS
  <2> HIDE DEF fit, op, types, shapes
  <2> QED  BY <2>1, <2>2
<1>2. (op.verified <=> fit /\ Verified(types, maps)) /\ (op.right <=> fit /\ Right(shapes, maps))
  <2>1. \A a, b : Op(a, b).verified = a /\ Op(a, b).right = b
    BY DEF Op
  <2> HIDE DEF fit, op, types, shapes
  <2>2. CASE fit
    <3>1. op = Op(Verified(types, maps), Right(shapes, maps))
      BY <1>1, <2>2, Zenon
    <3>2. op.verified = Verified(types, maps) /\ op.right = Right(shapes, maps)
      BY <2>1, <3>1
    <3> QED  BY <2>2, <3>2
  <2>3. CASE ~fit
    <3>1. op = Op(FALSE, FALSE)
      BY <1>1, <2>3, Zenon
    <3>2. op.verified = FALSE /\ op.right = FALSE
      BY <2>1, <3>1, Zenon
    <3> QED  BY <2>3, <3>2, Zenon
  <2> QED  BY <2>2, <2>3, Zenon
<1>3. \A p \in DOMAIN maps : Len(types[p]) = Len(shapes[p])
  BY TensorFacts
<1>4. (PlainMatch(shapes, maps) <=> Right(shapes, maps)) /\ (PlainMatch(types, maps) => Verified(types, maps))
  BY PlainOperation
<1>5. ASSUME types = shapes, fit, Verified(types, maps) PROVE PlainMatch(types, maps)
  <2>0. ASSUME NEW p \in DOMAIN maps, NEW i \in DOMAIN maps[p] PROVE types[p][i] \notin {Dynamic, 0}
    <3>1. types[p] = operands[p].type /\ operands[p].type = operands[p].shape
      BY <1>5
    <3>2. IsTensor(operands[p]) /\ i \in 1 .. Len(operands[p].type)
      BY <1>5
    <3> HIDE DEF types
    <3> QED  BY <3>1, <3>2, TensorFacts
  <2>1. \A l \in 1 .. n : types[1][l] # Dynamic
    <3>1. 1 \in DOMAIN maps /\ DOMAIN maps[1] = 1 .. n
      BY DEF IsPlain, Identity
    <3> HIDE DEF types
    <3> QED  BY <2>0, <3>1
  <2> HIDE DEF types, shapes, fit, op
  <2>2. \A p \in DOMAIN maps : \A i \in DOMAIN maps[p] :
            types[p][i] \in {Dynamic, 0} \/ types[p][i] = types[1][maps[p][i].loop]
    BY <1>5, <2>1, PlainOperation
  <2> QED  BY <2>0, <2>2, Zenon DEF PlainMatch
<1>6. /\ 1 \in DOMAIN maps
      /\ \A p \in DOMAIN maps : types[p] = operands[p].type /\ shapes[p] = operands[p].shape
  BY DEF IsPlain
<1> HIDE DEF types, shapes, op
<1>7. op.right => \A p \in DOMAIN maps : Follows(operands[p].shape, maps[p], operands[1].shape)
  BY <1>2, <1>3, <1>4, <1>6 DEF PlainMatch, Follows
<1>8. (\A p \in DOMAIN maps : Follows(operands[p].type, maps[p], operands[1].type)) => op.verified
  BY <1>2, <1>4, <1>6 DEF PlainMatch, Follows
<1>9. (\A p \in DOMAIN maps : operands[p].type = operands[p].shape) /\ op.verified => op.right
  BY <1>2, <1>4, <1>5 DEF types, shapes
<1> QED  BY <1>7, <1>8, <1>9 DEF op

\* The two forms that most emitters use.
IsPlainMap(map, n) == n \in Nat /\ map \in Seq({Loop(l) : l \in 1 .. n})

LEMMA PlainMapFacts ==
    ASSUME NEW map, NEW n, IsPlainMap(map, n)
    PROVE  /\ DOMAIN map = 1 .. Len(map) /\ Len(map) \in Nat
           /\ IsPlainMap(Identity(n), n)
           /\ \A dims : Follows(dims, Identity(n), dims) <=> Len(dims) = n
<1>1. n \in Nat /\ map \in Seq({Loop(l) : l \in 1 .. n})
  BY DEF IsPlainMap
<1> QED  BY <1>1, IdentityFacts DEF IsPlainMap, Follows

LEMMA TwoOperands ==
    ASSUME NEW a, NEW b, IsTensor(a), IsTensor(b), NEW map, NEW n, IsPlainMap(map, n)
    PROVE  LET op == Linalg(<<a, b>>, <<Identity(n), map>>)
           IN  /\ op.right => Len(a.type) = n /\ Follows(b.shape, map, a.shape)
               /\ Len(a.type) = n /\ Follows(b.type, map, a.type) => op.verified
               /\ a.type = a.shape /\ b.type = b.shape /\ op.verified => op.right
<1> DEFINE id == Identity(n)
           maps == <<id, map>>
           operands == <<a, b>>
           op == Linalg(operands, maps)
<1>1. /\ DOMAIN map = 1 .. Len(map) /\ DOMAIN id = 1 .. Len(id) /\ n \in Nat
      /\ map \in Seq({Loop(l) : l \in 1 .. n}) /\ id \in Seq({Loop(l) : l \in 1 .. n})
      /\ \A dims : Follows(dims, id, dims) <=> Len(dims) = n
  BY PlainMapFacts DEF IsPlainMap
<1> HIDE DEF id
<1>2. maps \in Seq(Seq({Loop(l) : l \in 1 .. n})) /\ maps # << >> /\ maps[1] = id
  BY <1>1
<1>3. DOMAIN maps = {1, 2} /\ DOMAIN operands = {1, 2}
      /\ maps[1] = id /\ maps[2] = map /\ operands[1] = a /\ operands[2] = b
  OBVIOUS
<1> HIDE DEF maps, operands, op
<1>4. IsPlain(maps, n)
  BY <1>1, <1>2, PlainMaps DEF id
<1>5. \A p \in DOMAIN maps : IsTensor(operands[p]) /\ DOMAIN maps[p] = 1 .. Len(maps[p])
  BY <1>1, <1>3
<1>6. /\ op.right =>
             \A p \in DOMAIN maps : Follows(operands[p].shape, maps[p], operands[1].shape)
      /\ (\A p \in DOMAIN maps : Follows(operands[p].type, maps[p], operands[1].type)) => op.verified
      /\ (\A p \in DOMAIN maps : operands[p].type = operands[p].shape) /\ op.verified => op.right
  BY <1>3, <1>4, <1>5, PlainLinalg DEF op
<1>7. Len(a.type) = Len(a.shape)
  BY TensorFacts
<1>8. op.right => Len(a.type) = n /\ Follows(b.shape, map, a.shape)
  BY <1>1, <1>3, <1>6, <1>7
<1>9. Len(a.type) = n /\ Follows(b.type, map, a.type) => op.verified
  BY <1>1, <1>3, <1>6
<1>10. a.type = a.shape /\ b.type = b.shape /\ op.verified => op.right
  BY <1>3, <1>6
<1> QED  BY <1>8, <1>9, <1>10, Zenon DEF op, operands, maps, id

LEMMA ThreeOperands ==
    ASSUME NEW a, NEW b, IsTensor(a), IsTensor(b), NEW map, NEW n, IsPlainMap(map, n)
    PROVE  LET op == Linalg(<<a, b, a>>, <<Identity(n), map, Identity(n)>>)
           IN  /\ op.right => Len(a.type) = n /\ Follows(b.shape, map, a.shape)
               /\ Len(a.type) = n /\ Follows(b.type, map, a.type) => op.verified
               /\ a.type = a.shape /\ b.type = b.shape /\ op.verified => op.right
<1> DEFINE id == Identity(n)
           maps == <<id, map, id>>
           operands == <<a, b, a>>
           op == Linalg(operands, maps)
<1>1. /\ DOMAIN map = 1 .. Len(map) /\ DOMAIN id = 1 .. Len(id) /\ n \in Nat
      /\ map \in Seq({Loop(l) : l \in 1 .. n}) /\ id \in Seq({Loop(l) : l \in 1 .. n})
      /\ \A dims : Follows(dims, id, dims) <=> Len(dims) = n
  BY PlainMapFacts DEF IsPlainMap
<1> HIDE DEF id
<1>2. maps \in Seq(Seq({Loop(l) : l \in 1 .. n})) /\ maps # << >> /\ maps[1] = id
  BY <1>1
<1>3. DOMAIN maps = {1, 2, 3} /\ DOMAIN operands = {1, 2, 3}
      /\ maps[1] = id /\ maps[2] = map /\ maps[3] = id
      /\ operands[1] = a /\ operands[2] = b /\ operands[3] = a
  OBVIOUS
<1> HIDE DEF maps, operands, op
<1>4. IsPlain(maps, n)
  BY <1>1, <1>2, PlainMaps DEF id
<1>5. \A p \in DOMAIN maps : IsTensor(operands[p]) /\ DOMAIN maps[p] = 1 .. Len(maps[p])
  BY <1>1, <1>3
<1>6. /\ op.right =>
             \A p \in DOMAIN maps : Follows(operands[p].shape, maps[p], operands[1].shape)
      /\ (\A p \in DOMAIN maps : Follows(operands[p].type, maps[p], operands[1].type)) => op.verified
      /\ (\A p \in DOMAIN maps : operands[p].type = operands[p].shape) /\ op.verified => op.right
  BY <1>3, <1>4, <1>5, PlainLinalg DEF op
<1>7. Len(a.type) = Len(a.shape)
  BY TensorFacts
<1>8. op.right => Len(a.type) = n /\ Follows(b.shape, map, a.shape)
  BY <1>1, <1>3, <1>6, <1>7
<1>9. Len(a.type) = n /\ Follows(b.type, map, a.type) => op.verified
  BY <1>1, <1>3, <1>6
<1>10. a.type = a.shape /\ b.type = b.shape /\ op.verified => op.right
  BY <1>3, <1>6
<1> QED  BY <1>8, <1>9, <1>10, Zenon DEF op, operands, maps, id

LEMMA EqualLists ==
    ASSUME NEW s \in Seq(Int), NEW t \in Seq(Int), Len(s) = Len(t), \A i \in 1 .. Len(s) : s[i] = t[i]
    PROVE  s = t
  OBVIOUS

LEMMA BroadcastSelf ==
    ASSUME NEW s \in Seq(Int)
    PROVE  Broadcast(s, s) = s
<1> DEFINE rank == IF Len(s) > Len(s) THEN Len(s) ELSE Len(s)
           Long(u) == [i \in 1 .. rank - Len(u) |-> 1] \o u
<1>1. rank = Len(s) /\ Len(s) \in Nat
  OBVIOUS
<1>2. Long(s) = s
  <2>1. [i \in 1 .. rank - Len(s) |-> 1] = << >>
    BY <1>1
  <2> QED  BY <2>1
<1>3. Broadcast(s, s) =
          IF \A i \in 1 .. rank : Long(s)[i] = Long(s)[i] \/ 1 \in {Long(s)[i], Long(s)[i]}
          THEN [i \in 1 .. rank |-> IF Long(s)[i] = 1 THEN Long(s)[i] ELSE Long(s)[i]] ELSE Invalid
  BY DEF Broadcast
<1>4. Broadcast(s, s) = [i \in 1 .. rank |-> s[i]]
  <2> HIDE DEF rank, Long
  <2> QED  BY <1>2, <1>3, Zenon
<1> QED  BY <1>1, <1>4

-----------------------------------------------------------------------------
(* The emitters that compute no sizes *)

\* Sizes along the identity.
LEMMA SameSizes ==
    ASSUME NEW a, NEW b, IsTensor(a), IsTensor(b)
    PROVE  LET id == Identity(Len(a.type))
           IN  /\ IsPlainMap(id, Len(a.type))
               /\ Follows(b.shape, id, a.shape) => b.shape = a.shape
               /\ Follows(a.type, id, a.type)
<1> DEFINE n == Len(a.type)
           id == Identity(n)
<1>1. n \in Nat /\ Len(id) = n /\ \A i \in 1 .. n : id[i].loop = i
  BY TensorFacts, IdentityFacts
<1>2. IsPlainMap(id, n)
  BY <1>1, IdentityFacts DEF IsPlainMap
<1> HIDE DEF id
<1>3. Follows(b.shape, id, a.shape) => Len(b.shape) = n /\ \A i \in 1 .. n : b.shape[i] = a.shape[i]
  BY <1>1 DEF Follows
<1>4. Follows(b.shape, id, a.shape) => b.shape = a.shape
  <2> HIDE DEF n
  <2>1. a.shape \in Seq(Int) /\ b.shape \in Seq(Int) /\ Len(a.shape) = n
    BY TensorFacts DEF n
  <2> QED  BY <1>3, <2>1, EqualLists
<1>5. Follows(a.type, id, a.type)
  BY <1>1 DEF Follows
<1> QED  BY <1>2, <1>4, <1>5 DEF id

LEMMA ElementwiseKeeps ==
    ASSUME NEW t, IsTensor(t), NEW rhs, IsTensor(rhs), t.type = t.shape => rhs.type = rhs.shape
    PROVE  Keeps(emit_elementwise(t, rhs), Broadcast(t.shape, rhs.shape), t.shape = rhs.shape,
                 t.type = t.shape)
<1> DEFINE n == Len(t.type)
           id == Identity(n)
           op == Linalg(<<t, rhs, t>>, <<id, id, id>>)
           e == emit_elementwise(t, rhs)
<1>1. e.fits = TRUE /\ e.defined = TRUE /\ e.ops = {op} /\ e.result = t
  BY DEF emit_elementwise, Emission
<1>2. IsPlainMap(id, n) /\ (Follows(rhs.shape, id, t.shape) => rhs.shape = t.shape)
      /\ Follows(t.type, id, t.type)
  BY SameSizes
<1>3. /\ op.right => Follows(rhs.shape, id, t.shape)
      /\ Follows(rhs.type, id, t.type) => op.verified
      /\ t.type = t.shape /\ rhs.type = rhs.shape /\ op.verified => op.right
  <2> HIDE DEF id, n
  <2>1. Len(t.type) = n
    BY DEF n
  <2> QED  BY <1>2, <2>1, ThreeOperands DEF id
<1>4. Broadcast(t.shape, t.shape) = t.shape /\ t.shape # Invalid /\ Full(t)
  BY TensorFacts, BroadcastSelf
<1> HIDE DEF e, op, id, n
<1> QED  BY <1>1, <1>2, <1>3, <1>4, Zenon DEF Keeps, AllVerified, AllRight, e

\* One operand, and an output slot like it.
LEMMA OneOperand ==
    ASSUME NEW t, IsTensor(t)
    PROVE  LET id == Identity(Len(t.type))
               op == Linalg(<<t, t>>, <<id, id>>)
           IN  op.verified /\ (t.type = t.shape => op.right)
<1>1. IsPlainMap(Identity(Len(t.type)), Len(t.type)) /\ Follows(t.type, Identity(Len(t.type)), t.type)
  BY SameSizes
<1> QED  BY <1>1, TwoOperands, Zenon

LEMMA ReluKeeps ==
    ASSUME NEW t, IsTensor(t)
    PROVE  Keeps(emit_relu(t), t.shape, TRUE, t.type = t.shape)
<1> DEFINE id == Identity(Len(t.type))
           op == Linalg(<<t, t>>, <<id, id>>)
           e == emit_relu(t)
<1>1. e.fits = TRUE /\ e.defined = TRUE /\ e.ops = {op} /\ e.result = t
  BY DEF emit_relu, Emission
<1>2. op.verified /\ (t.type = t.shape => op.right)
  BY OneOperand
<1>3. t.shape # Invalid /\ Full(t)
  BY TensorFacts
<1> HIDE DEF e, op
<1> QED  BY <1>1, <1>2, <1>3, Zenon DEF Keeps, AllVerified, AllRight, e

LEMMA ScaleFacts ==
    ASSUME NEW t, IsTensor(t)
    PROVE  scale_tensor(t).verified /\ (t.type = t.shape => scale_tensor(t).right)
  BY OneOperand, Zenon DEF scale_tensor

\* One size of the first operand goes with the second.
LEMMA ChannelMap ==
    ASSUME NEW n \in Nat, n >= 2
    PROVE  /\ IsPlainMap(<<Loop(2)>>, n)
           /\ Len(<<Loop(2)>>) = 1 /\ <<Loop(2)>>[1].loop = 2
           /\ \A dims, range : Follows(dims, <<Loop(2)>>, range) <=> Len(dims) = 1 /\ dims[1] = range[2]
<1>1. Loop(2) \in {Loop(l) : l \in 1 .. n} /\ Loop(2).loop = 2
  BY DEF Loop
<1> HIDE DEF Loop
<1>2. <<Loop(2)>> \in Seq({Loop(l) : l \in 1 .. n})
  BY <1>1
<1>3. Len(<<Loop(2)>>) = 1 /\ <<Loop(2)>>[1] = Loop(2) /\ 1 .. 1 = {1}
  OBVIOUS
<1> QED  BY <1>1, <1>2, <1>3 DEF IsPlainMap, Follows

LEMMA SingleList ==
    ASSUME NEW s \in Seq(Int), NEW a \in Int
    PROVE  Len(s) = 1 /\ s[1] = a <=> s = <<a>>
  OBVIOUS

\* The bias of Gemm and Conv, whose results have static types, perhaps with empty sizes.
LEMMA AddBiasFacts ==
    ASSUME NEW out \in Lists(0), NEW c \in Lists(1), Len(out) >= 2, out[2] > 0
    PROVE  LET op == AddBias(Constant(out), Constant(c))
           IN  (op.right <=> c = <<out[2]>>) /\ (op.verified <=> c = <<out[2]>>)
<1> DEFINE n == Len(out)
           id == Identity(n)
           two == <<Loop(2)>>
           maps == <<id, two, id>>
           dims == <<out, c, out>>
           operands == <<Constant(out), Constant(c), Constant(out)>>
           op == Linalg(operands, maps)
<1>1. /\ out \in Seq(Int) /\ n \in Nat /\ n >= 2 /\ 2 \in 1 .. n /\ out[2] \in Int /\ out[2] > 0
      /\ c \in Seq(Int) /\ Len(c) \in Nat /\ \A i \in 1 .. Len(c) : c[i] \in Int /\ c[i] >= 1
      /\ \A i \in 1 .. n : out[i] # Dynamic
  BY ListFacts, DynamicFacts
<1>2. /\ id \in Seq({Loop(l) : l \in 1 .. n}) /\ Len(id) = n /\ DOMAIN id = 1 .. n
      /\ \A i \in 1 .. n : id[i].loop = i
  <2> HIDE DEF n
  <2>1. id \in Seq({Loop(l) : l \in 1 .. n}) /\ Len(id) = n /\ \A i \in 1 .. n : id[i].loop = i
    BY <1>1, IdentityFacts
  <2> HIDE DEF id
  <2> QED  BY <2>1
<1>3. two \in Seq({Loop(l) : l \in 1 .. n}) /\ Len(two) = 1 /\ DOMAIN two = {1} /\ two[1].loop = 2
  <2> HIDE DEF n
  <2>1. IsPlainMap(two, n) /\ Len(two) = 1 /\ two[1].loop = 2
    BY <1>1, ChannelMap
  <2> HIDE DEF two
  <2> QED  BY <2>1 DEF IsPlainMap
<1>4. DOMAIN maps = {1, 2, 3} /\ maps[1] = id /\ maps[2] = two /\ maps[3] = id
      /\ dims[1] = out /\ dims[2] = c /\ dims[3] = out
  OBVIOUS
<1>5. IsPlain(maps, n)
  <2> HIDE DEF id, n, two
  <2>1. maps \in Seq(Seq({Loop(l) : l \in 1 .. n})) /\ maps # << >> /\ maps[1] = id
    BY <1>2, <1>3
  <2> QED  BY <1>1, <2>1, PlainMaps DEF id
<1>6. AddBias(Constant(out), Constant(c)) = op
  BY DEF AddBias, Constant
<1>7. [p \in DOMAIN operands |-> operands[p].type] = dims /\ [p \in DOMAIN operands |-> operands[p].shape] = dims
  <2>1. Constant(out).type = out /\ Constant(out).shape = out /\ Constant(c).type = c /\ Constant(c).shape = c
    BY DEF Constant
  <2> QED  BY <2>1
<1>8. op = IF Len(c) # 1 THEN Op(FALSE, FALSE) ELSE Op(Verified(dims, maps), Right(dims, maps))
  <2> HIDE DEF operands, dims, maps
  <2>1. op = IF \E p \in DOMAIN maps : Len(dims[p]) # Len(maps[p]) THEN Op(FALSE, FALSE)
             ELSE Op(Verified(dims, maps), Right(dims, maps))
    BY <1>7 DEF Linalg
  <2>2. (\E p \in DOMAIN maps : Len(dims[p]) # Len(maps[p])) <=> Len(c) # 1
    BY <1>1, <1>2, <1>3, <1>4
  <2> HIDE DEF op
  <2> QED  BY <2>1, <2>2
<1> HIDE DEF op, operands
<1>9. c = <<out[2]>> <=> Len(c) = 1 /\ c[1] = out[2]
  BY <1>1, SingleList
<1>10. ASSUME Len(c) = 1
       PROVE  /\ PlainMatch(dims, maps) <=> c[1] = out[2]
              /\ Verified(dims, maps) => c[1] = out[2]
  <2>1. PlainMatch(dims, maps) <=> c[1] = out[2]
    <3> HIDE DEF maps, dims, id, two
    <3>1. \A i \in 1 .. n : out[i] = out[id[i].loop]
      BY <1>2
    <3>2. DOMAIN two = {1} /\ two[1].loop = 2
      BY <1>3
    <3> HIDE DEF n
    <3>3. /\ \A i \in DOMAIN maps[1] : dims[1][i] = dims[1][maps[1][i].loop]
          /\ \A i \in DOMAIN maps[3] : dims[3][i] = dims[1][maps[3][i].loop]
      BY <1>2, <1>4, <3>1
    <3>4. (\A i \in DOMAIN maps[2] : dims[2][i] = dims[1][maps[2][i].loop]) <=> c[1] = out[2]
      BY <1>4, <3>2
    <3>5. PlainMatch(dims, maps) <=> \A p \in {1, 2, 3} :
              \A i \in DOMAIN maps[p] : dims[p][i] = dims[1][maps[p][i].loop]
      BY <1>4 DEF PlainMatch
    <3> QED  BY <3>3, <3>4, <3>5
  <2>2. ASSUME Verified(dims, maps) PROVE c[1] = out[2]
    <3> HIDE DEF maps, dims, id, two
    <3>1. \A l \in 1 .. n : dims[1][l] # Dynamic
      BY <1>1, <1>4
    <3>2. dims[2][1] \in {Dynamic, 0} \/ dims[2][1] = dims[1][maps[2][1].loop]
      <4>1. 2 \in DOMAIN maps /\ 1 \in DOMAIN maps[2]
        BY <1>3, <1>4
      <4> QED  BY <1>5, <2>2, <3>1, <4>1, PlainOperation
    <3>3. maps[2][1].loop = 2
      BY <1>3, <1>4
    <3>4. c[1] >= 1 /\ c[1] \in Int
      BY <1>1, <1>10
    <3> QED  BY <1>3, <1>4, <3>2, <3>3, <3>4, DynamicFacts
  <2> QED  BY <2>1, <2>2
<1> HIDE DEF maps, dims
<1>11. CASE Len(c) # 1
  BY <1>6, <1>8, <1>9, <1>11 DEF Op
<1>12. CASE Len(c) = 1
  <2>1. Right(dims, maps) <=> PlainMatch(dims, maps)
    BY <1>5, PlainOperation
  <2>2. PlainMatch(dims, maps) => Verified(dims, maps)
    BY <1>5, PlainOperation
  <2>3. op.verified = Verified(dims, maps) /\ op.right = Right(dims, maps)
    BY <1>8, <1>12 DEF Op
  <2> QED  BY <1>6, <1>9, <1>10, <1>12, <2>1, <2>2, <2>3
<1> QED  BY <1>11, <1>12

LEMMA SixOperands ==
    ASSUME NEW a, NEW c
    PROVE  <<a>> \o [i \in 1 .. 4 |-> c] \o <<a>> = <<a, c, c, c, c, a>>
<1> DEFINE S == {a, c}
           f == [i \in 1 .. 4 |-> c]
           one == <<a>>
           s == one \o f
           t == s \o one
           u == <<a, c, c, c, c, a>>
<1>1. f \in Seq(S) /\ Len(f) = 4 /\ \A i \in 1 .. 4 : f[i] = c
  OBVIOUS
<1>2. one \in Seq(S) /\ Len(one) = 1 /\ one[1] = a
  OBVIOUS
<1>3. u \in Seq(S) /\ Len(u) = 6 /\ u[1] = a /\ u[6] = a /\ \A i \in 2 .. 5 : u[i] = c
  OBVIOUS
<1> HIDE DEF f, S, u, one
<1>4. s \in Seq(S) /\ Len(s) = 5 /\ s[1] = a /\ \A i \in 2 .. 5 : s[i] = c
  <2>1. /\ s \in Seq(S) /\ Len(s) = Len(one) + Len(f)
        /\ \A i \in 1 .. Len(one) + Len(f) :
               s[i] = IF i <= Len(one) THEN one[i] ELSE f[i - Len(one)]
    BY <1>1, <1>2, ConcatProperties, Zenon
  <2> HIDE DEF s
  <2> QED  BY <1>1, <1>2, <2>1
<1> HIDE DEF s
<1>5. t \in Seq(S) /\ Len(t) = 6 /\ t[6] = a /\ \A i \in 1 .. 5 : t[i] = s[i]
  <2>1. /\ t \in Seq(S) /\ Len(t) = Len(s) + Len(one)
        /\ \A i \in 1 .. Len(s) + Len(one) :
               t[i] = IF i <= Len(s) THEN s[i] ELSE one[i - Len(s)]
    BY <1>2, <1>4, ConcatProperties, Zenon
  <2> HIDE DEF t
  <2> QED  BY <1>2, <1>4, <2>1
<1> HIDE DEF t
<1>6. \A i \in 1 .. 6 : t[i] = u[i]
  <2>1. \A i \in 1 .. 6 : i = 1 \/ i = 6 \/ i \in 2 .. 5
    OBVIOUS
  <2> QED  BY <1>3, <1>4, <1>5, <2>1
<1>7. t = u
  BY <1>3, <1>5, <1>6, SeqEqual
<1> QED  BY <1>7 DEF t, s, f, u, one

LEMMA BatchnormKeeps ==
    ASSUME NEW t, IsTensor(t), Len(t.type) >= 4, NEW w \in Lists(1)
    PROVE  Keeps(emit_batchnorm(t, [i \in 1 .. 4 |-> Constant(w)]),
                 IF w = <<t.shape[2]>> THEN t.shape ELSE Invalid, Len(t.type) = 4, t.type = t.shape)
<1> DEFINE c == Constant(w)
           params == [i \in 1 .. 4 |-> c]
           id == Identity(4)
           two == <<Loop(2)>>
           maps == <<id, two, two, two, two, id>>
           operands == <<t, c, c, c, c, t>>
           op == Linalg(operands, maps)
           e == emit_batchnorm(t, params)
<1>1. e.fits = TRUE /\ e.defined = TRUE /\ e.ops = {op} /\ e.result = t
  <2>1. <<t>> \o params \o <<t>> = operands
    BY SixOperands, Zenon
  <2> QED  BY <2>1 DEF emit_batchnorm, Emission
<1>2. IsTensor(c) /\ c.type = w /\ c.shape = w /\ w \in Seq(Int) /\ t.shape[2] \in Int
  BY ConstantIsTensor, ListFacts, TensorFacts
<1>3. IsPlainMap(two, 4) /\ \A dims, range : Follows(dims, two, range) <=> Len(dims) = 1 /\ dims[1] = range[2]
  BY ChannelMap
<1>4. IsPlainMap(id, 4) /\ \A dims : Follows(dims, id, dims) <=> Len(dims) = 4
  <2> HIDE DEF two, id
  <2> QED  BY <1>3, PlainMapFacts DEF id
<1> HIDE DEF two, id, c
<1>5. DOMAIN maps = 1 .. 6 /\ maps[1] = id /\ maps[6] = id /\ \A p \in 2 .. 5 : maps[p] = two
  OBVIOUS
<1>6. DOMAIN operands = 1 .. 6 /\ operands[1] = t /\ operands[6] = t /\ \A p \in 2 .. 5 : operands[p] = c
  OBVIOUS
<1>7. IsPlain(maps, 4)
  <2>1. maps \in Seq(Seq({Loop(l) : l \in 1 .. 4})) /\ maps # << >>
    BY <1>3, <1>4 DEF IsPlainMap
  <2> QED  BY <1>5, <2>1, PlainMaps DEF id
<1>8. DOMAIN two = 1 .. Len(two) /\ DOMAIN id = 1 .. Len(id)
  BY <1>3, <1>4, PlainMapFacts
<1> HIDE DEF maps, operands, op
<1>9. /\ op.right => \A p \in DOMAIN maps : Follows(operands[p].shape, maps[p], operands[1].shape)
      /\ (\A p \in DOMAIN maps : Follows(operands[p].type, maps[p], operands[1].type)) => op.verified
      /\ (\A p \in DOMAIN maps : operands[p].type = operands[p].shape) /\ op.verified => op.right
  <2>1. \A p \in DOMAIN maps : IsTensor(operands[p]) /\ DOMAIN maps[p] = 1 .. Len(maps[p])
    <3>1. 1 .. 6 = {1, 6} \cup 2 .. 5
      OBVIOUS
    <3> QED  BY <1>2, <1>5, <1>6, <1>8, <3>1
  <2> QED  BY <1>5, <1>6, <1>7, <2>1, PlainLinalg DEF op
<1>10. w = <<t.shape[2]>> <=> Len(w) = 1 /\ w[1] = t.shape[2]
  BY <1>2, SingleList
<1>11. op.right => w = <<t.shape[2]>>
  <2>1. op.right => Follows(w, two, t.shape)
    <3>1. 2 \in DOMAIN maps /\ 2 \in 2 .. 5
      BY <1>5
    <3> QED  BY <1>2, <1>5, <1>6, <1>9, <3>1
  <2> QED  BY <1>3, <1>10, <2>1
<1>12. t.type = t.shape /\ Len(t.type) = 4 /\ w = <<t.shape[2]>> => op.verified
  <2>1. ASSUME t.type = t.shape, Len(t.type) = 4, w = <<t.shape[2]>>
        PROVE  \A p \in DOMAIN maps : Follows(operands[p].type, maps[p], operands[1].type)
    <3>1. \A p \in 1 .. 6 : p = 1 \/ p = 6 \/ p \in 2 .. 5
      OBVIOUS
    <3>2. Follows(w, two, t.type) /\ Follows(t.type, id, t.type)
      BY <1>3, <1>4, <1>10, <2>1
    <3> QED  BY <1>2, <1>5, <1>6, <3>1, <3>2
  <2> QED  BY <1>9, <2>1
<1>13. t.type = t.shape /\ op.verified => op.right
  <2>1. \A p \in 1 .. 6 : p = 1 \/ p = 6 \/ p \in 2 .. 5
    OBVIOUS
  <2> QED  BY <1>2, <1>5, <1>6, <1>9, <2>1
<1>14. t.shape # Invalid /\ Full(t)
  BY TensorFacts
<1>15. Keeps(e, IF w = <<t.shape[2]>> THEN t.shape ELSE Invalid, Len(t.type) = 4, t.type = t.shape)
  <2> HIDE DEF e
  <2> QED  BY <1>1, <1>11, <1>12, <1>13, <1>14 DEF Keeps, AllVerified, AllRight
<1> QED  BY <1>15 DEF c

LEMMA PairMap ==
    ASSUME NEW n \in Nat, n >= 2
    PROVE  /\ IsPlainMap(<<Loop(1), Loop(2)>>, n)
           /\ \A dims, range : Follows(dims, <<Loop(1), Loop(2)>>, range)
                                 <=> Len(dims) = 2 /\ dims[1] = range[1] /\ dims[2] = range[2]
<1>1. Loop(1) \in {Loop(l) : l \in 1 .. n} /\ Loop(1).loop = 1
      /\ Loop(2) \in {Loop(l) : l \in 1 .. n} /\ Loop(2).loop = 2
  BY DEF Loop
<1> HIDE DEF Loop
<1> DEFINE two == <<Loop(1), Loop(2)>>
<1>2. two \in Seq({Loop(l) : l \in 1 .. n}) /\ Len(two) = 2 /\ two[1].loop = 1 /\ two[2].loop = 2
  BY <1>1
<1>3. 1 .. 2 = {1, 2}
  OBVIOUS
<1> HIDE DEF two
<1>4. IsPlainMap(two, n)
      /\ \A dims, range : Follows(dims, two, range)
                            <=> Len(dims) = 2 /\ dims[1] = range[1] /\ dims[2] = range[2]
  BY <1>2, <1>3 DEF IsPlainMap, Follows
<1> QED  BY <1>4 DEF two

LEMMA ShortList ==
    ASSUME NEW a \in Int, NEW b \in Int, a > 0, b > 0
    PROVE  /\ <<a, b>> \in Lists(1) /\ Len(<<a, b>>) = 2
           /\ <<a, b>>[1] = a /\ <<a, b>>[2] = b /\ <<a, b>> # Invalid
<1>1. 1 .. 2 = {1, 2} /\ Len(<<a, b>>) = 2 /\ Len(Invalid) = 1
  BY DEF Invalid
<1> QED  BY <1>1 DEF Lists

LEMMA LongList ==
    ASSUME NEW size \in Int, NEW a \in Int, NEW b \in Int, NEW c \in Int, NEW d \in Int,
           a >= size, b >= size, c >= size, d >= size
    PROVE  /\ <<a, b, c, d>> \in Lists(size) /\ Len(<<a, b, c, d>>) = 4 /\ <<a, b, c, d>> # Invalid
           /\ DOMAIN <<a, b, c, d>> = 1 .. 4
<1>1. 1 .. 4 = {1, 2, 3, 4} /\ Len(<<a, b, c, d>>) = 4 /\ Len(Invalid) = 1
  BY DEF Invalid
<1> QED  BY <1>1 DEF Lists

LEMMA GlobalAvgPoolKeeps ==
    ASSUME NEW t, IsTensor(t), Len(t.type) >= 4
    PROVE  Keeps(emit_global_avg_pool(t), <<t.shape[1], t.shape[2], 1, 1>>, Len(t.type) = 4,
                 t.type = t.shape)
<1> DEFINE sum == Constant(<<t.type[1], t.type[2]>>)
           map == <<Loop(1), Loop(2)>>
           divisor == t.type[3] * t.type[4]
           op == Linalg(<<t, sum>>, <<Identity(4), map>>)
           div == Op(TRUE, divisor = t.shape[3] * t.shape[4])
           result == Constant(<<t.type[1], t.type[2], 1, 1>>)
           e == emit_global_avg_pool(t)
<1>1. e.defined = Static(sum.type) /\ e.ops = {op, scale_tensor(sum), div} /\ e.result = result
  BY DEF emit_global_avg_pool, Emission
<1>2. /\ \A i \in {1, 2} : t.type[i] \in Int /\ t.shape[i] \in Int /\ t.shape[i] > 0
                            /\ (t.type[i] = t.shape[i] \/ t.type[i] = Dynamic) /\ t.shape[i] # Dynamic
  BY TensorFacts
<1>3. sum.type = <<t.type[1], t.type[2]>> /\ sum.shape = <<t.type[1], t.type[2]>>
  BY DEF Constant
<1>4. Static(sum.type) <=> t.type[1] = t.shape[1] /\ t.type[2] = t.shape[2]
  <2>1. Static(sum.type) <=> t.type[1] # Dynamic /\ t.type[2] # Dynamic
    <3>1. DOMAIN sum.type = {1, 2}
      BY <1>3
    <3> QED  BY <1>3, <3>1 DEF Static
  <2> QED  BY <1>2, <2>1
<1> HIDE DEF e
<1>5. ASSUME e.defined
      PROVE  /\ IsTensor(sum) /\ IsTensor(result) /\ sum.type = sum.shape
             /\ result.shape = <<t.shape[1], t.shape[2], 1, 1>> /\ result.type = result.shape
             /\ scale_tensor(sum).verified /\ scale_tensor(sum).right
  <2>1. t.type[1] = t.shape[1] /\ t.type[2] = t.shape[2]
    BY <1>1, <1>4, <1>5
  <2>2. IsTensor(sum) /\ sum.type = sum.shape
    BY <1>2, <2>1, ShortList, ConstantIsTensor
  <2>3. IsTensor(result) /\ result.shape = <<t.shape[1], t.shape[2], 1, 1>> /\ result.type = result.shape
    BY <1>2, <2>1, LongList, ConstantIsTensor
  <2> QED  BY <2>2, <2>3, ScaleFacts
<1>6. IsPlainMap(map, 4) /\ \A dims, range : Follows(dims, map, range)
                               <=> Len(dims) = 2 /\ dims[1] = range[1] /\ dims[2] = range[2]
  BY PairMap
<1>7. ASSUME e.defined
      PROVE  /\ Len(t.type) = 4 => op.verified
             /\ t.type = t.shape /\ op.verified => op.right
  <2> DEFINE o == Linalg(<<t, sum>>, <<Identity(4), map>>)
  <2> HIDE DEF map, sum
  <2>1. /\ Len(t.type) = 4 /\ Follows(sum.type, map, t.type) => o.verified
        /\ t.type = t.shape /\ sum.type = sum.shape /\ o.verified => o.right
    BY <1>5, <1>6, <1>7, TwoOperands
  <2>2. Follows(sum.type, map, t.type)
    BY <1>3, <1>6
  <2> QED  BY <1>5, <1>7, <2>1, <2>2
<1>8. t.type = t.shape => div.right
  BY DEF Op
<1>9. div.verified
  BY DEF Op
<1>10. e.defined => Full(result)
  BY <1>5, TensorFacts
<1>11. t.type = t.shape => e.defined
  BY <1>1, <1>4
<1>12. <<t.shape[1], t.shape[2], 1, 1>> # Invalid
  BY <1>2, LongList
<1> DEFINE reference == <<t.shape[1], t.shape[2], 1, 1>>
<1>13. Keeps(e, reference, Len(t.type) = 4, t.type = t.shape)
  <2> HIDE DEF op, div, sum, result, reference
  <2>1. e.defined => result.shape = reference /\ reference # Invalid
    BY <1>5, <1>12 DEF reference
  <2> QED  BY <1>1, <1>5, <1>7, <1>8, <1>9, <1>10, <1>11, <2>1 DEF Keeps, AllVerified, AllRight
<1> QED  BY <1>13 DEF e

\* A list without one of its members.
LEMMA RemoveAtFacts ==
    ASSUME NEW S, NEW s \in Seq(S), NEW at \in 1 .. Len(s)
    PROVE  /\ RemoveAt(s, at) \in Seq(S) /\ Len(RemoveAt(s, at)) = Len(s) - 1
           /\ \A i \in 1 .. Len(s) - 1 : RemoveAt(s, at)[i] = IF i < at THEN s[i] ELSE s[i + 1]
<1> DEFINE low == SubSeq(s, 1, at - 1)
           high == SubSeq(s, at + 1, Len(s))
<1>1. Len(s) \in Nat /\ at \in Nat /\ at >= 1 /\ at <= Len(s)
  OBVIOUS
<1>2. low \in Seq(S) /\ Len(low) = at - 1 /\ \A i \in 1 .. at - 1 : low[i] = s[i]
  BY <1>1
<1>3. high \in Seq(S) /\ Len(high) = Len(s) - at /\ \A i \in 1 .. Len(s) - at : high[i] = s[at + i]
  BY <1>1
<1> HIDE DEF low, high
<1> DEFINE r == low \o high
<1>4. /\ r \in Seq(S) /\ Len(r) = Len(low) + Len(high)
      /\ \A i \in 1 .. Len(low) + Len(high) : r[i] = IF i <= Len(low) THEN low[i] ELSE high[i - Len(low)]
  BY <1>2, <1>3, ConcatProperties, Zenon
<1> HIDE DEF r
<1>5. r \in Seq(S) /\ Len(r) = Len(s) - 1
  BY <1>1, <1>2, <1>3, <1>4
<1>6. ASSUME NEW i \in 1 .. Len(s) - 1 PROVE r[i] = IF i < at THEN s[i] ELSE s[i + 1]
  <2>0. r[i] = IF i <= at - 1 THEN low[i] ELSE high[i - (at - 1)]
    BY <1>1, <1>2, <1>3, <1>4
  <2>1. CASE i < at
    <3>1. i \in 1 .. at - 1
      BY <1>1, <2>1
    <3> QED  BY <1>1, <1>2, <2>0, <2>1, <3>1
  <2>2. CASE ~(i < at)
    <3>1. i - (at - 1) \in 1 .. Len(s) - at /\ at + (i - (at - 1)) = i + 1 /\ ~(i <= at - 1)
      BY <1>1, <2>2
    <3>2. high[i - (at - 1)] = s[at + (i - (at - 1))]
      BY <1>3, <3>1, Zenon
    <3> QED  BY <2>0, <2>2, <3>1, <3>2
  <2> QED  BY <2>1, <2>2
<1> QED  BY <1>5, <1>6 DEF r, low, high, RemoveAt

LEMMA SoftmaxKeeps ==
    ASSUME NEW t, IsTensor(t), NEW axis \in Int
    PROVE  Keeps(emit_softmax(t, axis),
                 IF axis \in -Len(t.shape) .. Len(t.shape) - 1 THEN t.shape ELSE Invalid,
                 TRUE, t.type = t.shape)
<1> DEFINE n == Len(t.type)
           at == IF axis < 0 THEN axis + n + 1 ELSE axis + 1
           id == Identity(n)
           map == RemoveAt(id, at)
           dims == RemoveAt(t.type, at)
           dropped == Constant(dims)
           reduce == Linalg(<<t, dropped>>, <<id, map>>)
           spread == Linalg(<<t, dropped, t>>, <<id, map, id>>)
           e == emit_softmax(t, axis)
           reference == IF axis \in -Len(t.shape) .. Len(t.shape) - 1 THEN t.shape ELSE Invalid
<1>1. n \in Nat /\ Len(t.shape) = n /\ DOMAIN t.type = 1 .. n /\ t.type \in Seq(Int)
      /\ t.shape # Invalid /\ Full(t)
  BY TensorFacts
<1>2. at \in 1 .. n <=> axis \in -n .. n - 1
  BY <1>1
<1>3. e = IF at \notin 1 .. n THEN Emission(TRUE, TRUE, {Throw}, t)
          ELSE Emission(TRUE, Static(dropped.type), {reduce, spread}, t)
  BY <1>1 DEF emit_softmax
<1>4. reference = IF at \in 1 .. n THEN t.shape ELSE Invalid
  BY <1>1, <1>2
<1> HIDE DEF n, at, e, reference
<1>5. CASE at \notin 1 .. n
  <2>1. e.ops = {Throw} /\ ~Throw.verified /\ reference = Invalid
    BY <1>3, <1>4, <1>5 DEF Emission, Throw, Op
  <2>2. ~AllVerified(e)
    BY <2>1 DEF AllVerified
  <2>3. Keeps(e, reference, TRUE, t.type = t.shape)
    BY <2>1, <2>2 DEF Keeps
  <2> QED  BY <2>3 DEF e, reference, n
<1>6. CASE at \in 1 .. n
  <2>1. e.fits /\ e.defined = Static(dropped.type) /\ e.ops = {reduce, spread} /\ e.result = t
        /\ reference = t.shape
    BY <1>3, <1>4, <1>6 DEF Emission
  <2>2. dims \in Seq(Int) /\ Len(dims) = n - 1
        /\ \A i \in 1 .. n - 1 : dims[i] = IF i < at THEN t.type[i] ELSE t.type[i + 1]
    BY <1>1, <1>6, RemoveAtFacts DEF n
  <2>3. /\ id \in Seq({Loop(l) : l \in 1 .. n}) /\ Len(id) = n /\ \A i \in 1 .. n : id[i].loop = i
    BY <1>1, IdentityFacts
  <2> HIDE DEF id
  <2>4. map \in Seq({Loop(l) : l \in 1 .. n}) /\ Len(map) = n - 1
        /\ \A i \in 1 .. n - 1 : map[i].loop = IF i < at THEN i ELSE i + 1
    <3>1. map \in Seq({Loop(l) : l \in 1 .. n}) /\ Len(map) = n - 1
          /\ \A i \in 1 .. n - 1 : map[i] = IF i < at THEN id[i] ELSE id[i + 1]
      BY <1>6, <2>3, RemoveAtFacts
    <3> HIDE DEF map
    <3> QED  BY <1>1, <1>6, <2>3, <3>1
  <2>5. IsPlainMap(map, n)
    BY <1>1, <2>4 DEF IsPlainMap
  <2> HIDE DEF map, dims
  <2>6. Follows(dims, map, t.type)
    BY <1>1, <1>6, <2>2, <2>4 DEF Follows
  <2>7. dropped.type = dims /\ dropped.shape = dims
    BY DEF Constant
  <2>8. ASSUME Static(dims) PROVE IsTensor(dropped)
    <3>1. \A i \in 1 .. n - 1 : dims[i] \in Int /\ dims[i] >= 1
      <4> TAKE i \in 1 .. n - 1
      <4>1. dims[i] # Dynamic
        BY <1>1, <2>2, <2>8 DEF Static
      <4>2. \E j \in 1 .. n : dims[i] = t.type[j]
        BY <1>1, <1>6, <2>2
      <4>3. PICK j \in 1 .. n : dims[i] = t.type[j]
        BY <4>2
      <4>4. t.type[j] \in Int /\ t.shape[j] \in Int /\ t.shape[j] > 0
            /\ (t.type[j] = t.shape[j] \/ t.type[j] = Dynamic)
        BY TensorFacts DEF n
      <4> QED  BY <4>1, <4>3, <4>4
    <3>2. dims \in Lists(1)
      BY <1>1, <2>2, <3>1 DEF Lists
    <3> QED  BY <3>2, ConstantIsTensor
  <2>9. t.type = t.shape => Static(dims)
    <3>1. ASSUME t.type = t.shape, NEW i \in 1 .. n - 1 PROVE dims[i] # Dynamic
      <4>1. \E j \in 1 .. n : dims[i] = t.shape[j]
        BY <1>1, <1>6, <2>2, <3>1
      <4> QED  BY <4>1, TensorFacts DEF n
    <3> QED  BY <1>1, <2>2, <3>1 DEF Static
  <2> HIDE DEF dropped
  <2>10. ASSUME Static(dims)
         PROVE  /\ reduce.verified /\ spread.verified
                /\ t.type = t.shape => reduce.right /\ spread.right
    <3>1. IsTensor(dropped) /\ Len(t.type) = n
      BY <2>8, <2>10 DEF n
    <3>2. reduce.verified /\ (t.type = t.shape => reduce.right)
      BY <2>5, <2>6, <2>7, <3>1, TwoOperands DEF id
    <3>3. spread.verified /\ (t.type = t.shape => spread.right)
      BY <2>5, <2>6, <2>7, <3>1, ThreeOperands DEF id
    <3> QED  BY <3>2, <3>3
  <2>11. Keeps(e, reference, TRUE, t.type = t.shape)
    <3> HIDE DEF reduce, spread
    <3> QED  BY <1>1, <2>1, <2>7, <2>9, <2>10 DEF Keeps, AllVerified, AllRight
  <2> QED  BY <2>11 DEF e, reference, n
<1> QED  BY <1>5, <1>6

-----------------------------------------------------------------------------
(* Products of matrices *)

\* Three operands of rank 2 with loops m, n and k, the first two perhaps transposed.
LEMMA MatrixMaps ==
    ASSUME NEW dims, NEW maps, DOMAIN maps = {1, 2, 3}, \A p \in {1, 2, 3} : DOMAIN maps[p] = {1, 2},
           NEW i \in {1, 2}, NEW j \in {1, 2}, i # j, NEW g \in {1, 2}, NEW h \in {1, 2}, g # h,
           maps[1][i] = Loop(1), maps[1][j] = Loop(3),
           maps[2][g] = Loop(3), maps[2][h] = Loop(2),
           maps[3][1] = Loop(1), maps[3][2] = Loop(2)
    PROVE  LET go == dims[2][g] = dims[1][j] /\ dims[3][1] = dims[1][i] /\ dims[3][2] = dims[2][h]
           IN  /\ Right(dims, maps) <=> go
               /\ go => Verified(dims, maps)
               /\ /\ Verified(dims, maps)
                  /\ \A p \in {1, 2, 3} : \A q \in {1, 2} : dims[p][q] \notin {0, Dynamic}
                  => go
<1> DEFINE range == Ranges(dims, maps)
           go == dims[2][g] = dims[1][j] /\ dims[3][1] = dims[1][i] /\ dims[3][2] = dims[2][h]
<1>1. IsMaps(maps)
  BY DEF IsMaps
<1>2. Loop(1) # Loop(2) /\ Loop(1) # Loop(3) /\ Loop(2) # Loop(3)
  BY LoopFacts
<1>3. \A p \in {1, 2, 3} : \A q \in {1, 2} : maps[p][q] =
          IF p = 1 THEN IF q = i THEN Loop(1) ELSE Loop(3)
          ELSE IF p = 2 THEN IF q = g THEN Loop(3) ELSE Loop(2)
          ELSE IF q = 1 THEN Loop(1) ELSE Loop(2)
  OBVIOUS
<1>4. 1 \in DOMAIN range /\ range[1] = dims[1][i]
  <2>1. ASSUME NEW q \in {1, 2, 3}, NEW r \in {1, 2}, maps[q][r] = Loop(1) PROVE 1 < q \/ (1 = q /\ i <= r)
    BY <1>2, <1>3, <2>1
  <2> QED  BY <1>1, <2>1, RangeIs
<1>5. 3 \in DOMAIN range /\ range[3] = dims[1][j]
  <2>1. ASSUME NEW q \in {1, 2, 3}, NEW r \in {1, 2}, maps[q][r] = Loop(3) PROVE 1 < q \/ (1 = q /\ j <= r)
    BY <1>2, <1>3, <2>1
  <2> QED  BY <1>1, <2>1, RangeIs
<1>6. 2 \in DOMAIN range /\ range[2] = dims[2][h]
  <2>1. ASSUME NEW q \in {1, 2, 3}, NEW r \in {1, 2}, maps[q][r] = Loop(2) PROVE 2 < q \/ (2 = q /\ h <= r)
    BY <1>2, <1>3, <2>1
  <2> QED  BY <1>1, <2>1, RangeIs
<1>7. ASSUME NEW l \in DOMAIN range PROVE l \in {1, 2, 3}
  <2>1. PICK p \in {1, 2, 3} : \E q \in {1, 2} : maps[p][q].loop = l \/ (maps[p][q].plus = l /\ l # 0)
    BY RangeDomain
  <2>2. PICK q \in {1, 2} : maps[p][q].loop = l \/ (maps[p][q].plus = l /\ l # 0)
    BY <2>1
  <2>3. PICK k \in {1, 2, 3} : maps[p][q] = Loop(k)
    BY <1>3
  <2> QED  BY <2>2, <2>3 DEF Loop
<1> HIDE DEF range
<1>8. ASSUME NEW size, NEW k \in {1, 2, 3}
      PROVE  (Matches(size, Loop(k), range) <=> size = range[k]) /\ IsLoop(Loop(k))
  <2>1. IsLoop(Loop(k)) /\ Loop(k).loop = k
    BY LoopFacts
  <2> QED  BY <2>1 DEF Matches
<1>9. \A p \in {1, 2, 3} : \A q \in {1, 2} : IsLoop(maps[p][q])
  BY <1>3, <1>8
<1>10. (\A p \in {1, 2, 3} : \A q \in {1, 2} : Matches(dims[p][q], maps[p][q], range)) <=> go
  <2>1. /\ Matches(dims[1][i], Loop(1), range) /\ Matches(dims[1][j], Loop(3), range)
        /\ Matches(dims[2][h], Loop(2), range)
        /\ (Matches(dims[2][g], Loop(3), range) <=> dims[2][g] = dims[1][j])
        /\ (Matches(dims[3][1], Loop(1), range) <=> dims[3][1] = dims[1][i])
        /\ (Matches(dims[3][2], Loop(2), range) <=> dims[3][2] = dims[2][h])
    BY <1>4, <1>5, <1>6, <1>8
  <2>2. {1, 2} = {i, j} /\ {1, 2} = {g, h}
    OBVIOUS
  <2>3. \A q \in {1, 2} : Matches(dims[1][q], maps[1][q], range)
    BY <2>1, <2>2
  <2>4. (\A q \in {1, 2} : Matches(dims[2][q], maps[2][q], range)) <=> dims[2][g] = dims[1][j]
    BY <2>1, <2>2
  <2>5. (\A q \in {1, 2} : Matches(dims[3][q], maps[3][q], range)) <=>
            dims[3][1] = dims[1][i] /\ dims[3][2] = dims[2][h]
    BY <2>1
  <2> QED  BY <2>3, <2>4, <2>5
<1> HIDE DEF go
<1>11. Right(dims, maps) <=> go
  BY <1>9, <1>10 DEF Right, range
<1>12. go => Verified(dims, maps)
  BY <1>10 DEF Verified, range
<1>13. ASSUME Verified(dims, maps), \A p \in {1, 2, 3} : \A q \in {1, 2} : dims[p][q] \notin {0, Dynamic}
       PROVE  go
  <2>1. \A l \in DOMAIN range : range[l] # Dynamic
    BY <1>4, <1>5, <1>6, <1>7, <1>13
  <2>2. \A p \in {1, 2, 3} : \A q \in {1, 2} :
            dims[p][q] \in {Dynamic, 0} \/ Matches(dims[p][q], maps[p][q], range)
    BY <1>13, <2>1 DEF Verified, range
  <2> QED  BY <1>10, <1>13, <2>2
<1> QED  BY <1>11, <1>12, <1>13 DEF go

\* The dimensions of an operand along the product and across it.
Across(transposed) == IF transposed THEN 2 ELSE 1
Along(transposed)  == IF transposed THEN 1 ELSE 2

LEMMA MatmulFacts ==
    ASSUME NEW a, NEW b, NEW out, IsTensor(a), IsTensor(b), IsTensor(out),
           NEW trans, Len(out.type) = 2
    PROVE  LET op   == Matmul(a, b, out, trans)
               i    == Across("A" \in trans)
               j    == Along("A" \in trans)
               g    == Across("B" \in trans)
               h    == Along("B" \in trans)
               Go(p, q, r) == /\ Len(p) = 2 /\ Len(q) = 2 /\ q[g] = p[j]
                              /\ r[1] = p[i] /\ r[2] = q[h]
           IN  /\ op.right => Go(a.shape, b.shape, out.shape)
               /\ Go(a.type, b.type, out.type) => op.verified
               /\ a.type = a.shape /\ b.type = b.shape /\ out.type = out.shape /\ op.verified => op.right
<1> DEFINE i == Across("A" \in trans)
           j == Along("A" \in trans)
           g == Across("B" \in trans)
           h == Along("B" \in trans)
           Go(p, q, r) == /\ Len(p) = 2 /\ Len(q) = 2 /\ q[g] = p[j] /\ r[1] = p[i] /\ r[2] = q[h]
           first == IF "A" \in trans THEN <<Loop(3), Loop(1)>> ELSE <<Loop(1), Loop(3)>>
           second == IF "B" \in trans THEN <<Loop(2), Loop(3)>> ELSE <<Loop(3), Loop(2)>>
           third == <<Loop(1), Loop(2)>>
           maps == <<first, second, third>>
           operands == <<a, b, out>>
           types  == [p \in DOMAIN operands |-> operands[p].type]
           shapes == [p \in DOMAIN operands |-> operands[p].shape]
           op == Matmul(a, b, out, trans)
<1>1. op = Linalg(operands, maps)
  BY DEF Matmul
<1>2. i \in {1, 2} /\ j \in {1, 2} /\ i # j /\ g \in {1, 2} /\ h \in {1, 2} /\ g # h
  BY DEF Across, Along
<1>3. /\ Len(first) = 2 /\ DOMAIN first = {1, 2} /\ first[i] = Loop(1) /\ first[j] = Loop(3)
      /\ Len(second) = 2 /\ DOMAIN second = {1, 2} /\ second[g] = Loop(3) /\ second[h] = Loop(2)
      /\ Len(third) = 2 /\ DOMAIN third = {1, 2} /\ third[1] = Loop(1) /\ third[2] = Loop(2)
  <2> HIDE DEF Loop
  <2> QED  BY DEF Across, Along
<1> HIDE DEF i, j, g, h, first, second, third
<1>4. DOMAIN maps = {1, 2, 3} /\ maps[1] = first /\ maps[2] = second /\ maps[3] = third
  OBVIOUS
<1>5. /\ types[1] = a.type /\ types[2] = b.type /\ types[3] = out.type
      /\ shapes[1] = a.shape /\ shapes[2] = b.shape /\ shapes[3] = out.shape
  OBVIOUS
<1> HIDE DEF maps, op
<1> DEFINE fit == Len(a.type) = 2 /\ Len(b.type) = 2
<1>6. op = IF fit THEN Op(Verified(types, maps), Right(shapes, maps)) ELSE Op(FALSE, FALSE)
  <2> HIDE DEF operands
  <2>1. op = IF \E p \in DOMAIN maps : Len(types[p]) # Len(maps[p]) THEN Op(FALSE, FALSE)
             ELSE Op(Verified(types, maps), Right(shapes, maps))
    BY <1>1 DEF Linalg
  <2> HIDE DEF types, shapes
  <2>2. (\E p \in DOMAIN maps : Len(types[p]) # Len(maps[p])) <=> ~fit
    BY <1>3, <1>4, <1>5
  <2> HIDE DEF fit
  <2> QED  BY <2>1, <2>2
<1>7. (op.verified <=> fit /\ Verified(types, maps)) /\ (op.right <=> fit /\ Right(shapes, maps))
  <2> HIDE DEF fit, types, shapes
  <2>1. CASE fit
    BY <1>6, <2>1 DEF Op
  <2>2. CASE ~fit
    BY <1>6, <2>2 DEF Op
  <2> QED  BY <2>1, <2>2
<1> HIDE DEF types, shapes
<1> DEFINE Equal(d) == d[2][g] = d[1][j] /\ d[3][1] = d[1][i] /\ d[3][2] = d[2][h]
<1>8. ASSUME NEW d
      PROVE  /\ Right(d, maps) <=> Equal(d)
             /\ Equal(d) => Verified(d, maps)
             /\ /\ Verified(d, maps)
                /\ \A p \in {1, 2, 3} : \A q \in {1, 2} : d[p][q] \notin {0, Dynamic}
                => Equal(d)
  <2>1. \A p \in {1, 2, 3} : DOMAIN maps[p] = {1, 2}
    BY <1>3, <1>4
  <2>2. /\ maps[1][i] = Loop(1) /\ maps[1][j] = Loop(3) /\ maps[2][g] = Loop(3) /\ maps[2][h] = Loop(2)
        /\ maps[3][1] = Loop(1) /\ maps[3][2] = Loop(2)
    BY <1>3, <1>4
  <2> QED  BY <1>2, <1>4, <2>1, <2>2, MatrixMaps
<1>9. Len(a.type) = Len(a.shape) /\ Len(b.type) = Len(b.shape)
  BY TensorFacts
<1>10. (fit /\ Equal(shapes) => Go(a.shape, b.shape, out.shape))
       /\ (Go(a.type, b.type, out.type) => fit /\ Equal(types))
  BY <1>5, <1>9
<1>11. ASSUME a.type = a.shape, b.type = b.shape, out.type = out.shape, fit, Verified(types, maps)
       PROVE  Right(shapes, maps)
  <2>1. types[1] = shapes[1] /\ types[2] = shapes[2] /\ types[3] = shapes[3]
    BY <1>5, <1>11
  <2>2. \A p \in {1, 2, 3} : \A q \in {1, 2} : types[p][q] \notin {0, Dynamic}
    <3>1. ASSUME NEW t, IsTensor(t), t.type = t.shape, Len(t.type) = 2, NEW q \in {1, 2}
          PROVE  t.type[q] \notin {0, Dynamic}
      BY <3>1, TensorFacts
    <3> QED  BY <1>5, <1>11, <3>1
  <2>3. Equal(types)
    BY <1>8, <1>11, <2>2
  <2>4. Equal(shapes)
    BY <2>1, <2>3
  <2> QED  BY <1>8, <2>4
<1> HIDE DEF fit, Equal, Go
<1>12. /\ op.right => Go(a.shape, b.shape, out.shape)
       /\ Go(a.type, b.type, out.type) => op.verified
       /\ a.type = a.shape /\ b.type = b.shape /\ out.type = out.shape /\ op.verified => op.right
  BY <1>7, <1>8, <1>10, <1>11
<1> QED  BY <1>12 DEF Go, op, i, j, g, h

LEMMA PairList ==
    ASSUME NEW s \in Seq(Int), Len(s) = 2
    PROVE  s = <<s[1], s[2]>> /\ Reverse(s) = <<s[2], s[1]>>
<1>1. Reverse(s) = [i \in 1 .. 2 |-> s[(2 - i) + 1]]
  BY DEF Reverse
<1>2. s = <<s[1], s[2]>>
  OBVIOUS
<1>3. [i \in 1 .. 2 |-> s[(2 - i) + 1]] = <<s[2], s[1]>>
  OBVIOUS
<1> QED  BY <1>1, <1>2, <1>3

\* ONNX's product of matrices that are perhaps transposed.
LEMMA ProductIs ==
    ASSUME NEW s \in Seq(Int), NEW t \in Seq(Int), NEW ta \in BOOLEAN, NEW tb \in BOOLEAN
    PROVE  OnnxMatMul(IF ta THEN Reverse(s) ELSE s, IF tb THEN Reverse(t) ELSE t)
             = IF Len(s) = 2 /\ Len(t) = 2 /\ s[Along(ta)] = t[Across(tb)]
               THEN <<s[Across(ta)], t[Along(tb)]>> ELSE Invalid
<1> DEFINE p == IF ta THEN Reverse(s) ELSE s
           q == IF tb THEN Reverse(t) ELSE t
<1>1. Len(p) = Len(s) /\ Len(q) = Len(t)
  BY DEF Reverse
<1>2. Len(s) = 2 => p[1] = s[Across(ta)] /\ p[2] = s[Along(ta)]
  BY PairList DEF Across, Along
<1>3. Len(t) = 2 => q[1] = t[Across(tb)] /\ q[2] = t[Along(tb)]
  BY PairList DEF Across, Along
<1> HIDE DEF p, q
<1>4. OnnxMatMul(p, q) = IF Len(s) = 2 /\ Len(t) = 2 /\ s[Along(ta)] = t[Across(tb)]
                         THEN <<s[Across(ta)], t[Along(tb)]>> ELSE Invalid
  BY <1>1, <1>2, <1>3 DEF OnnxMatMul
<1> QED  BY <1>4 DEF p, q

LEMMA BroadcastBias ==
    ASSUME NEW a \in Int, NEW b \in Int
    PROVE  Broadcast(<<a, b>>, <<b>>) = <<a, b>>
<1> DEFINE s == <<a, b>>
           t == <<b>>
           rank == IF Len(s) > Len(t) THEN Len(s) ELSE Len(t)
           Long(u) == [i \in 1 .. rank - Len(u) |-> 1] \o u
           ls == Long(s)
           lt == Long(t)
<1>1. rank = 2 /\ rank - Len(s) = 0 /\ rank - Len(t) = 1
  OBVIOUS
<1>2. ls[1] = a /\ ls[2] = b
  <2> DEFINE none == [i \in 1 .. rank - Len(s) |-> 1]
  <2>1. none \in Seq(Int) /\ Len(none) = 0 /\ s \in Seq(Int) /\ Len(s) = 2 /\ s[1] = a /\ s[2] = b
    BY <1>1
  <2> HIDE DEF none, s, rank
  <2> DEFINE both == none \o s
  <2>2. /\ Len(both) = Len(none) + Len(s)
        /\ \A i \in 1 .. Len(none) + Len(s) :
               both[i] = IF i <= Len(none) THEN none[i] ELSE s[i - Len(none)]
    BY <2>1, ConcatProperties, Zenon
  <2> HIDE DEF both
  <2>3. both[1] = s[1] /\ both[2] = s[2]
    BY <2>1, <2>2
  <2> QED  BY <2>1, <2>3 DEF both, none, rank
<1>3. lt[1] = 1 /\ lt[2] = b
  <2> DEFINE ones == [i \in 1 .. rank - Len(t) |-> 1]
  <2>1. ones \in Seq(Int) /\ Len(ones) = 1 /\ ones[1] = 1 /\ t \in Seq(Int) /\ Len(t) = 1 /\ t[1] = b
    BY <1>1
  <2> HIDE DEF ones, t, rank
  <2> DEFINE both == ones \o t
  <2>2. /\ Len(both) = Len(ones) + Len(t)
        /\ \A i \in 1 .. Len(ones) + Len(t) :
               both[i] = IF i <= Len(ones) THEN ones[i] ELSE t[i - Len(ones)]
    BY <2>1, ConcatProperties, Zenon
  <2> HIDE DEF both
  <2>3. both[1] = ones[1] /\ both[2] = t[1]
    BY <2>1, <2>2
  <2> QED  BY <2>1, <2>3 DEF both, ones, rank
<1>4. Broadcast(s, t) =
          IF \A i \in 1 .. rank : ls[i] = lt[i] \/ 1 \in {ls[i], lt[i]}
          THEN [i \in 1 .. rank |-> IF ls[i] = 1 THEN lt[i] ELSE ls[i]] ELSE Invalid
  BY DEF Broadcast
<1> HIDE DEF ls, lt, rank
<1>5. \A i \in 1 .. rank : ls[i] = lt[i] \/ 1 \in {ls[i], lt[i]}
  BY <1>1, <1>2, <1>3
<1>6. [i \in 1 .. rank |-> IF ls[i] = 1 THEN lt[i] ELSE ls[i]] = <<a, b>>
  BY <1>1, <1>2, <1>3
<1> QED  BY <1>4, <1>5, <1>6

LEMMA GemmKeeps ==
    ASSUME NEW a, IsTensor(a), NEW w \in Lists(1), NEW bias \in SUBSET Lists(1),
           NEW trans \in SUBSET {"A", "B"}, NEW beta \in 0 .. 2,
           Len(a.type) >= Across("A" \in trans), Len(w) >= Along("B" \in trans)
    PROVE  Keeps(emit_gemm(a, Constant(w), {Constant(c) : c \in bias}, trans, beta),
                 OnnxGemm(a.shape, w, IF beta = 0 THEN {} ELSE bias, trans),
                 /\ trans # {"A", "B"} /\ OnnxGemm(a.shape, w, {}, trans) # Invalid
                 /\ \A c \in bias : c = Tail(OnnxGemm(a.shape, w, {}, trans)),
                 a.type = a.shape)
<1> DEFINE i == Across("A" \in trans)
           j == Along("A" \in trans)
           g == Across("B" \in trans)
           h == Along("B" \in trans)
           o == <<a.type[i], w[h]>>
           biases == {Constant(c) : c \in bias}
           b == Constant(w)
           out == Constant(o)
           main == IF trans = {"A", "B"} THEN Throw ELSE Matmul(a, b, out, trans)
           e == emit_gemm(a, b, biases, trans, beta)
           used == IF beta = 0 THEN {} ELSE bias
           reference == OnnxGemm(a.shape, w, used, trans)
           product == OnnxGemm(a.shape, w, {}, trans)
           supported == trans # {"A", "B"} /\ product # Invalid /\ \A c \in bias : c = Tail(product)
<1>1. i \in {1, 2} /\ j \in {1, 2} /\ g \in {1, 2} /\ h \in {1, 2}
  BY DEF Across, Along
<1>2. b.type = w /\ b.shape = w /\ IsTensor(b) /\ w \in Seq(Int) /\ a.shape \in Seq(Int)
  BY ConstantIsTensor, ListFacts, TensorFacts
<1>3. a.type[i] \in Int /\ a.shape[i] \in Int /\ a.shape[i] > 0 /\ (a.type[i] = a.shape[i] \/ a.type[i] = Dynamic)
      /\ a.shape[i] # Dynamic /\ w[h] \in Int /\ w[h] > 0
  <2> HIDE DEF i, h
  <2>1. i \in 1 .. Len(a.type) /\ h \in 1 .. Len(w)
    <3>1. i \in Nat /\ i >= 1 /\ h \in Nat /\ h >= 1 /\ Len(a.type) \in Nat /\ Len(w) \in Nat
      BY <1>1, <1>2, TensorFacts
    <3>2. Len(a.type) >= i /\ Len(w) >= h
      BY DEF i, h
    <3> QED  BY <3>1, <3>2
  <2> QED  BY <2>1, TensorFacts, ListFacts
<1>4. out.type = o /\ out.shape = o /\ o[1] = a.type[i] /\ o[2] = w[h] /\ Len(o) = 2
  BY DEF Constant
<1>5. /\ e.fits /\ e.defined = Static(out.type) /\ e.result = out
      /\ e.ops = {main, scale_tensor(out)}
                     \cup {AddBias(out, Constant(c)) : c \in used}
                     \cup {scale_tensor(Constant(c)) : c \in IF beta \in {0, 1} THEN {} ELSE bias}
  <2> DEFINE same == Constant(<<IF "A" \in trans THEN a.type[2] ELSE a.type[1],
                                IF "B" \in trans THEN b.type[1] ELSE b.type[2]>>)
             added(t) == {AddBias(t, c) : c \in IF beta = 0 THEN {} ELSE biases}
             scaled == {scale_tensor(c) : c \in IF beta \in {0, 1} THEN {} ELSE biases}
             emitted(t) == Emission(TRUE, Static(t.type),
                                    {IF trans = {"A", "B"} THEN Throw ELSE Matmul(a, b, t, trans),
                                     scale_tensor(t)} \cup added(t) \cup scaled, t)
  <2>1. out = same
    <3>1. a.type[i] = (IF "A" \in trans THEN a.type[2] ELSE a.type[1])
          /\ w[h] = (IF "B" \in trans THEN b.type[1] ELSE b.type[2])
      BY <1>2 DEF Across, Along
    <3> QED  BY <3>1
  <2>2. added(out) = {AddBias(out, Constant(c)) : c \in used}
    <3> HIDE DEF out
    <3> QED  OBVIOUS
  <2>3. scaled = {scale_tensor(Constant(c)) : c \in IF beta \in {0, 1} THEN {} ELSE bias}
    OBVIOUS
  <2>4. e = emitted(same)
    BY DEF emit_gemm
  <2>5. e = emitted(out)
    <3> HIDE DEF e, out, same, emitted
    <3> QED  BY <2>1, <2>4
  <2> HIDE DEF e, out, used, added, scaled
  <2>6. /\ e.fits /\ e.defined = Static(out.type) /\ e.result = out
        /\ e.ops = {main, scale_tensor(out)} \cup added(out) \cup scaled
    BY <2>5 DEF Emission
  <2> HIDE DEF main, emitted
  <2> QED  BY <2>2, <2>3, <2>6
<1>6. e.defined <=> a.type[i] = a.shape[i]
  <2>1. Static(o) <=> o[1] # Dynamic /\ o[2] # Dynamic
    <3>1. DOMAIN o = {1, 2}
      OBVIOUS
    <3> QED  BY <3>1 DEF Static
  <2>2. o[1] # Dynamic /\ o[2] # Dynamic <=> a.type[i] = a.shape[i]
    <3> HIDE DEF o, i, h
    <3> QED  BY <1>3, <1>4, DynamicFacts
  <2> HIDE DEF o, out, e, i
  <2> QED  BY <1>4, <1>5, <2>1, <2>2
<1> HIDE DEF e, i, j, g, h
<1>7. ASSUME e.defined
      PROVE  /\ o = <<a.shape[i], w[h]>> /\ o \in Lists(1) /\ o # Invalid
             /\ IsTensor(out) /\ Full(out)
             /\ scale_tensor(out).verified /\ scale_tensor(out).right
  <2>1. a.type[i] = a.shape[i]
    BY <1>6, <1>7
  <2>2. o \in Lists(1) /\ o # Invalid
    BY <1>3, <2>1, ShortList
  <2>3. IsTensor(out)
    BY <2>2, ConstantIsTensor
  <2> QED  BY <1>4, <2>1, <2>2, <2>3, TensorFacts, ScaleFacts
<1>8. \A c \in bias : scale_tensor(Constant(c)).verified /\ scale_tensor(Constant(c)).right
  BY ConstantIsTensor, ScaleFacts
<1>9. ASSUME e.defined, NEW c \in bias
      PROVE  LET op == AddBias(out, Constant(c))
             IN  (op.right <=> c = <<w[h]>>) /\ (op.verified <=> c = <<w[h]>>)
  <2>1. o \in Lists(0) /\ Len(o) >= 2 /\ o[2] > 0
    <3> HIDE DEF o
    <3> QED  BY <1>3, <1>4, <1>7, <1>9 DEF Lists
  <2> HIDE DEF o
  <2> QED  BY <1>4, <2>1, AddBiasFacts
<1>10. product = IF Len(a.shape) = 2 /\ Len(w) = 2 /\ a.shape[j] = w[g] THEN <<a.shape[i], w[h]>> ELSE Invalid
  <2>1. product = OnnxMatMul(IF "A" \in trans THEN Reverse(a.shape) ELSE a.shape,
                             IF "B" \in trans THEN Reverse(w) ELSE w)
    BY DEF OnnxGemm
  <2>2. ("A" \in trans) \in BOOLEAN /\ ("B" \in trans) \in BOOLEAN
    OBVIOUS
  <2> HIDE DEF product
  <2> QED  BY <1>2, <2>1, <2>2, ProductIs DEF i, j, g, h
<1>11. reference = IF product # Invalid /\ \A c \in used : Broadcast(product, c) = product
                   THEN product ELSE Invalid
  BY DEF OnnxGemm
<1>12. ASSUME e.defined
       PROVE  /\ main.right => product = o /\ trans # {"A", "B"}
              /\ a.type = a.shape /\ product # Invalid /\ trans # {"A", "B"} => main.verified
              /\ a.type = a.shape /\ main.verified => main.right
  <2>1. CASE trans = {"A", "B"}
    BY <2>1 DEF Throw, Op
  <2>2. CASE trans # {"A", "B"}
    <3> DEFINE op == Matmul(a, b, out, trans)
    <3>1. main = op
      BY <2>2
    <3>2. /\ op.right => Len(a.shape) = 2 /\ Len(w) = 2 /\ w[g] = a.shape[j] /\ o[1] = a.shape[i] /\ o[2] = w[h]
          /\ Len(a.type) = 2 /\ Len(w) = 2 /\ w[g] = a.type[j] /\ o[1] = a.type[i] /\ o[2] = w[h] => op.verified
          /\ a.type = a.shape /\ op.verified => op.right
      <4> HIDE DEF b, out, o
      <4> QED  BY <1>2, <1>4, <1>7, <1>12, MatmulFacts DEF i, j, g, h
    <3>3. op.right => product = o
      BY <1>7, <1>10, <1>12, <3>2
    <3>4. a.type = a.shape /\ product # Invalid => op.verified
      BY <1>4, <1>10, <3>2
    <3> QED  BY <2>2, <3>1, <3>2, <3>3, <3>4
  <2> QED  BY <2>1, <2>2
<1>13. Broadcast(o, <<w[h]>>) = o
  BY <1>3, BroadcastBias
<1>14. ASSUME a.type = a.shape
       PROVE  e.defined
  BY <1>6, <1>14
<1>15. Tail(<<a.shape[i], w[h]>>) = <<w[h]>>
  <2>1. <<a.shape[i], w[h]>> \in Seq(Int) /\ <<w[h]>> \in Seq(Int)
    BY <1>3
  <2> QED  BY <2>1
<1> HIDE DEF o, out, main, used, reference, product, b
<1>16. ASSUME e.defined, AllRight(e)
       PROVE  product = o /\ reference = o
  <2>1. product = o
    BY <1>5, <1>12, <1>16 DEF AllRight
  <2>2. \A c \in used : c = <<w[h]>>
    BY <1>5, <1>9, <1>16 DEF AllRight, used
  <2> QED  BY <1>7, <1>11, <1>13, <1>16, <2>1, <2>2
<1>17. ASSUME a.type = a.shape, e.defined, AllVerified(e)
       PROVE  AllRight(e)
  <2>1. main.right /\ scale_tensor(out).right
    BY <1>5, <1>7, <1>12, <1>17 DEF AllVerified
  <2>2. \A c \in used : AddBias(out, Constant(c)).right
    BY <1>5, <1>9, <1>17 DEF AllVerified, used
  <2> QED  BY <1>5, <1>8, <2>1, <2>2 DEF AllRight
<1>18. ASSUME a.type = a.shape, supported
       PROVE  e.defined /\ AllVerified(e) /\ Full(e.result)
  <2>1. main.verified
    BY <1>12, <1>14, <1>18
  <2>2. \A c \in bias : c = <<w[h]>>
    BY <1>10, <1>15, <1>18
  <2>3. \A c \in used : AddBias(out, Constant(c)).verified
    BY <1>9, <1>14, <1>18, <2>2 DEF used
  <2> QED  BY <1>5, <1>7, <1>8, <1>14, <1>18, <2>1, <2>3 DEF AllVerified
<1>19. Keeps(e, reference, supported, a.type = a.shape)
  <2> HIDE DEF supported
  <2> QED  BY <1>4, <1>5, <1>7, <1>16, <1>17, <1>18 DEF Keeps
<1> QED  BY <1>19 DEF e, reference, product, used, b

LEMMA MatmulKeeps ==
    ASSUME NEW a, IsTensor(a), NEW w \in Lists(1), Len(a.type) >= 1, Len(w) >= 2
    PROVE  Keeps(emit_matmul(a, Constant(w)), OnnxMatMul(a.shape, w), Len(a.type) = 2, a.type = a.shape)
<1> DEFINE o == <<a.type[1], w[2]>>
           b == Constant(w)
           out == Constant(o)
           op == Matmul(a, b, out, {})
           e == emit_matmul(a, b)
           reference == OnnxMatMul(a.shape, w)
<1>1. b.type = w /\ b.shape = w /\ IsTensor(b) /\ w \in Seq(Int) /\ a.shape \in Seq(Int)
  BY ConstantIsTensor, ListFacts, TensorFacts
<1>2. a.type[1] \in Int /\ a.shape[1] \in Int /\ a.shape[1] > 0 /\ (a.type[1] = a.shape[1] \/ a.type[1] = Dynamic)
      /\ a.shape[1] # Dynamic /\ w[2] \in Int /\ w[2] > 0
  BY TensorFacts, ListFacts
<1>3. out.type = o /\ out.shape = o /\ o[1] = a.type[1] /\ o[2] = w[2] /\ Len(o) = 2
  BY DEF Constant
<1>4. e.fits /\ e.defined = Static(out.type) /\ e.result = out /\ e.ops = {op}
  BY <1>1 DEF emit_matmul, Emission
<1>5. e.defined <=> a.type[1] = a.shape[1]
  <2>1. Static(o) <=> o[1] # Dynamic /\ o[2] # Dynamic
    <3>1. DOMAIN o = {1, 2}
      OBVIOUS
    <3> QED  BY <3>1 DEF Static
  <2>2. o[1] # Dynamic /\ o[2] # Dynamic <=> a.type[1] = a.shape[1]
    <3> HIDE DEF o
    <3> QED  BY <1>2, <1>3, DynamicFacts
  <2> HIDE DEF o, out, e
  <2> QED  BY <1>3, <1>4, <2>1, <2>2
<1> HIDE DEF e
<1>6. ASSUME e.defined
      PROVE  o = <<a.shape[1], w[2]>> /\ o # Invalid /\ IsTensor(out) /\ Full(out)
  <2>1. a.type[1] = a.shape[1]
    BY <1>5, <1>6
  <2>2. o \in Lists(1) /\ o # Invalid
    BY <1>2, <2>1, ShortList
  <2>3. IsTensor(out)
    BY <2>2, ConstantIsTensor
  <2> QED  BY <2>1, <2>2, <2>3, TensorFacts
<1>7. reference = IF Len(a.shape) = 2 /\ Len(w) = 2 /\ a.shape[2] = w[1] THEN <<a.shape[1], w[2]>> ELSE Invalid
  BY DEF OnnxMatMul
<1>8. ASSUME e.defined
      PROVE  /\ op.right => Len(a.shape) = 2 /\ Len(w) = 2 /\ w[1] = a.shape[2] /\ o[1] = a.shape[1] /\ o[2] = w[2]
             /\ Len(a.type) = 2 /\ Len(w) = 2 /\ w[1] = a.type[2] /\ o[1] = a.type[1] /\ o[2] = w[2] => op.verified
             /\ a.type = a.shape /\ op.verified => op.right
  <2>1. Across("A" \in {}) = 1 /\ Across("B" \in {}) = 1 /\ Along("A" \in {}) = 2 /\ Along("B" \in {}) = 2
    BY DEF Across, Along
  <2> DEFINE trans == {}
             i == Across("A" \in trans)
             j == Along("A" \in trans)
             g == Across("B" \in trans)
             h == Along("B" \in trans)
  <2>2. i = 1 /\ g = 1 /\ j = 2 /\ h = 2
    BY <2>1
  <2>3. op = Matmul(a, b, out, trans)
    OBVIOUS
  <2> HIDE DEF op
  <2> DEFINE m == Matmul(a, b, out, trans)
  <2> HIDE DEF b, out, o, trans
  <2>5. IsTensor(a) /\ IsTensor(b) /\ IsTensor(out) /\ Len(out.type) = 2
    BY <1>1, <1>3, <1>6, <1>8
  <2>4. /\ m.right => Len(a.shape) = 2 /\ Len(b.shape) = 2 /\ b.shape[g] = a.shape[j]
                          /\ out.shape[1] = a.shape[i] /\ out.shape[2] = b.shape[h]
        /\ Len(a.type) = 2 /\ Len(b.type) = 2 /\ b.type[g] = a.type[j]
                          /\ out.type[1] = a.type[i] /\ out.type[2] = b.type[h] => m.verified
        /\ a.type = a.shape /\ b.type = b.shape /\ out.type = out.shape /\ m.verified => m.right
    <3> HIDE DEF i, j, g, h
    <3> QED  BY <2>5, MatmulFacts DEF i, j, g, h
  <2> HIDE DEF m
  <2> HIDE DEF i, j, g, h
  <2>6. op = m
    BY <2>3 DEF m
  <2> QED  BY <1>1, <1>3, <2>2, <2>4, <2>6
<1> HIDE DEF op, o, out, reference, b
<1>9. ASSUME e.defined, op.right
      PROVE  reference = o
  BY <1>6, <1>7, <1>8, <1>9
<1>10. a.type = a.shape /\ reference # Invalid => e.defined /\ op.verified
  BY <1>3, <1>5, <1>7, <1>8
<1>11. Keeps(e, reference, Len(a.type) = 2, a.type = a.shape)
  BY <1>3, <1>4, <1>6, <1>8, <1>9, <1>10 DEF Keeps, AllVerified, AllRight
<1> QED  BY <1>11 DEF e, reference, b

-----------------------------------------------------------------------------
(* New shapes of the same elements *)

LEMMA ReshapeIs ==
    ASSUME NEW s \in Seq(Int), NEW target \in Lists(1)
    PROVE  OnnxReshape(s, target) = IF NumElements(target) = NumElements(s) THEN target ELSE Invalid
<1> DEFINE open   == {i \in DOMAIN target : target[i] = -1}
           copied == [i \in DOMAIN target |-> IF target[i] = 0 THEN s[i] ELSE target[i]]
           known  == NumElements([i \in DOMAIN target |-> IF i \in open THEN 1 ELSE copied[i]])
<1>1. target \in Seq(Int) /\ \A i \in DOMAIN target : target[i] \in Int /\ target[i] >= 1
  BY ListFacts
<1>2. open = {} /\ copied = target
  BY <1>1
<1> HIDE DEF open, copied
<1>3. [i \in DOMAIN target |-> IF i \in open THEN 1 ELSE copied[i]] = target
  BY <1>1, <1>2
<1>4. known = NumElements(target)
  BY <1>3
<1>5. ~\E i \in DOMAIN target : target[i] = 0 /\ i > Len(s)
  BY <1>1
<1>6. OnnxReshape(s, target) =
          CASE \E i \in DOMAIN target : target[i] = 0 /\ i > Len(s) -> Invalid
            [] open = {} -> IF known = NumElements(s) THEN copied ELSE Invalid
            [] OTHER -> IF Cardinality(open) = 1 /\ known > 0 /\ NumElements(s) % known = 0
                        THEN [i \in DOMAIN target |->
                                 IF i \in open THEN NumElements(s) \div known ELSE copied[i]]
                        ELSE Invalid
  BY DEF OnnxReshape, open, copied
<1> HIDE DEF known
<1> QED  BY <1>2, <1>4, <1>5, <1>6

LEMMA ReshapeKeeps ==
    ASSUME NEW t, IsTensor(t), NEW target \in Lists(-1)
    PROVE  Keeps(emit_reshape(t, target), OnnxReshape(t.shape, target),
                 \A i \in DOMAIN target : target[i] > 0, t.type = t.shape)
<1> DEFINE op == TensorReshape(t, target, target)
           e == emit_reshape(t, target)
           reference == OnnxReshape(t.shape, target)
           supported == \A i \in DOMAIN target : target[i] > 0
           same == NumElements(t.shape) = NumElements(target)
<1>1. e.fits /\ e.defined = WellFormed(target) /\ e.ops = {op} /\ e.result = Constant(target)
  BY DEF emit_reshape, Emission
<1>2. target \in Seq(Int) /\ DOMAIN target = 1 .. Len(target)
      /\ \A i \in DOMAIN target : target[i] \in Int /\ target[i] >= -1 /\ target[i] # Dynamic
  BY ListFacts, DynamicFacts
<1>3. op.right <=> same
  BY DEF TensorReshape, Op
<1>4. op.verified <=> (Static(t.type) => NumElements(t.type) = NumElements(target))
  <2>1. Static(target)
    BY <1>2 DEF Static
  <2> QED  BY <2>1 DEF TensorReshape, Op
<1>5. t.type = t.shape => (op.verified <=> same)
  <2>1. t.type = t.shape => Static(t.type)
    BY TensorFacts DEF Static
  <2> QED  BY <1>4, <2>1
<1>6. target \in Lists(0) <=> WellFormed(target)
  BY <1>2 DEF Lists, WellFormed
<1>7. target \in Lists(1) <=> supported
  BY <1>2 DEF Lists
<1>8. ASSUME target \in Lists(0), same
      PROVE  target \in Lists(1)
  <2>1. NumElements(t.shape) > 0
    <3>1. t.shape \in Lists(0) /\ \A i \in DOMAIN t.shape : t.shape[i] > 0
      BY DEF IsTensor, Lists
    <3> QED  BY <3>1, ProductOfNaturals
  <2>2. \A i \in DOMAIN target : target[i] > 0
    BY <1>8, <2>1, ProductOfNaturals
  <2> QED  BY <1>7, <2>2
<1>9. ASSUME target \in Lists(1)
      PROVE  /\ IsTensor(Constant(target)) /\ Constant(target).type = target /\ Constant(target).shape = target
             /\ Full(Constant(target)) /\ target # Invalid
             /\ reference = IF same THEN target ELSE Invalid
  <2>1. t.shape \in Seq(Int)
    BY TensorFacts
  <2>2. IsTensor(Constant(target)) /\ Constant(target).type = target /\ Constant(target).shape = target
    BY <1>9, ConstantIsTensor
  <2> QED  BY <1>9, <2>1, <2>2, ReshapeIs, TensorFacts
<1>10. target \in Lists(1) => target \in Lists(0)
  BY DEF Lists
<1> HIDE DEF e, op, reference, supported, same
<1>11. Keeps(e, reference, supported, t.type = t.shape)
  BY <1>1, <1>3, <1>5, <1>6, <1>7, <1>8, <1>9, <1>10 DEF Keeps, AllVerified, AllRight
<1> QED  BY <1>11 DEF e, reference, supported

LEMMA PairProduct ==
    ASSUME NEW a \in Int, NEW b \in Int
    PROVE  NumElements(<<a, b>>) = a * b
<1> DEFINE s == <<a, b>>
           f == Products(s)
<1>1. s \in Seq(Int) /\ Len(s) = 2 /\ s[1] = a /\ s[2] = b
  OBVIOUS
<1> HIDE DEF s
<1>2. IsProducts(f, s, 2)
  BY <1>1, ProductsDef
<1> HIDE DEF f
<1>3. f[0] = 1 /\ f[1] = f[0] * a /\ f[2] = f[1] * b
  <2>1. f[0] = 1 /\ \A k \in 1 .. 2 : f[k] = f[k - 1] * s[k]
    BY <1>2, ProductStep
  <2>2. f[1] = f[1 - 1] * s[1] /\ f[2] = f[2 - 1] * s[2]
    BY <2>1
  <2> QED  BY <1>1, <2>1, <2>2
<1>4. f[2] = a * b
  BY <1>3
<1> QED  BY <1>1, <1>4 DEF NumElements, f, s

LEMMA FlattenKeeps ==
    ASSUME NEW t, IsTensor(t), NEW at \in 0 .. Len(t.type)
    PROVE  Keeps(emit_flatten(t, at), FlattenAt(t.shape, at), TRUE, t.type = t.shape)
<1> DEFINE Halves(dims) == <<SubSeq(dims, 1, at), SubSeq(dims, at + 1, Len(dims))>>
           Flat(dims)   == [h \in 1 .. 2 |-> NumElements(Halves(dims)[h])]
           op == TensorReshape(t, Flat(t.type), Flat(t.shape))
           result == [type |-> Flat(t.type), shape |-> Flat(t.shape)]
           e == emit_flatten(t, at)
           reference == FlattenAt(t.shape, at)
           low == NumElements(SubSeq(t.shape, 1, at))
           high == NumElements(SubSeq(t.shape, at + 1, Len(t.shape)))
<1>1. e.defined = WellFormed(Flat(t.type)) /\ e.ops = {op} /\ e.result = result
  BY DEF emit_flatten, Emission
<1>2. Flat(t.shape) = <<low, high>> /\ reference = <<low, high>>
  <2>1. Flat(t.shape)[1] = low /\ Flat(t.shape)[2] = high
    <3>1. Halves(t.shape)[1] = SubSeq(t.shape, 1, at)
          /\ Halves(t.shape)[2] = SubSeq(t.shape, at + 1, Len(t.shape))
      OBVIOUS
    <3> HIDE DEF Halves
    <3>2. Flat(t.shape)[1] = NumElements(Halves(t.shape)[1])
          /\ Flat(t.shape)[2] = NumElements(Halves(t.shape)[2])
      OBVIOUS
    <3> QED  BY <3>1, <3>2, Zenon
  <2> DEFINE flat == Flat(t.shape)
  <2>2. flat = [h \in 1 .. 2 |-> flat[h]]
    OBVIOUS
  <2>3. reference = <<low, high>>
    BY DEF FlattenAt
  <2> HIDE DEF low, high, flat
  <2>4. flat = <<low, high>>
    BY <2>1, <2>2 DEF flat
  <2> QED  BY <2>3, <2>4 DEF flat
<1>3. t.shape \in Seq(Int) /\ Len(t.shape) = Len(t.type) /\ Len(t.type) \in Nat /\ at \in Int
      /\ at >= 0 /\ at <= Len(t.type) /\ \A i \in 1 .. Len(t.type) : t.shape[i] \in Int /\ t.shape[i] > 0
  BY TensorFacts
<1>4. low \in Int /\ low > 0 /\ high \in Int /\ high > 0
  <2>1. ASSUME NEW s \in Seq(Int), \A i \in DOMAIN s : \E j \in 1 .. Len(t.type) : s[i] = t.shape[j]
        PROVE  NumElements(s) \in Int /\ NumElements(s) > 0
    <3>1. \A i \in DOMAIN s : s[i] > 0
      BY <1>3, <2>1
    <3>2. s \in Lists(0)
      BY <3>1 DEF Lists
    <3> QED  BY <3>1, <3>2, ProductOfNaturals
  <2>2. SubSeq(t.shape, 1, at) \in Seq(Int)
        /\ \A i \in DOMAIN SubSeq(t.shape, 1, at) : \E j \in 1 .. Len(t.type) : SubSeq(t.shape, 1, at)[i] = t.shape[j]
    BY <1>3
  <2> DEFINE tail == SubSeq(t.shape, at + 1, Len(t.shape))
  <2>3. tail \in Seq(Int) /\ \A i \in DOMAIN tail : \E j \in 1 .. Len(t.type) : tail[i] = t.shape[j]
    <3>1. tail \in Seq(Int) /\ Len(tail) = Len(t.type) - at
          /\ \A i \in 1 .. Len(t.type) - at : tail[i] = t.shape[at + i]
      BY <1>3
    <3>2. \A i \in 1 .. Len(t.type) - at : at + i \in 1 .. Len(t.type)
      BY <1>3
    <3>3. DOMAIN tail = 1 .. Len(t.type) - at
      <4> HIDE DEF tail
      <4> QED  BY <1>3, <3>1
    <3> HIDE DEF tail
    <3> QED  BY <3>1, <3>2, <3>3
  <2> QED  BY <2>1, <2>2, <2>3
<1>5. NumElements(t.shape) = NumElements(<<low, high>>)
  <2>1. NumElements(t.shape) = low * high
    BY <1>3, ProductSplit
  <2> HIDE DEF low, high
  <2> QED  BY <1>4, <2>1, PairProduct
<1> DEFINE o == <<low, high>>
<1>6. o \in Lists(1) /\ o # Invalid /\ o \in Seq(Int)
  <2> HIDE DEF low, high
  <2>1. o \in Lists(1) /\ o # Invalid
    BY <1>4, ShortList
  <2> HIDE DEF o
  <2> QED  BY <2>1 DEF Lists
<1> HIDE DEF low, high, o, e, reference
<1>7. op.right <=> Flat(t.type) = o
  <2> HIDE DEF Flat, Halves
  <2> QED  BY <1>2, <1>5 DEF TensorReshape, Op, o
<1>8. t.type = t.shape => Flat(t.type) = o /\ op.verified
  <2> HIDE DEF Flat, Halves
  <2> QED  BY <1>2, <1>5 DEF TensorReshape, Op, o
<1>9. Flat(t.type) = o => e.defined
  <2> HIDE DEF Flat, Halves
  <2> QED  BY <1>1, <1>6, ListFacts DEF WellFormed
<1>10. Flat(t.type) = o => IsTensor(result) /\ Full(result) /\ result.type = result.shape /\ result.shape = o
  <2> HIDE DEF Flat, Halves
  <2>1. ASSUME Flat(t.type) = o PROVE result = Constant(o)
    BY <1>2, <2>1 DEF Constant, o
  <2> QED  BY <1>6, <2>1, ConstantIsTensor, TensorFacts
<1>11. reference = o
  BY <1>2 DEF o
<1> HIDE DEF op, result, Flat, Halves
<1>12. Keeps(e, reference, TRUE, t.type = t.shape)
  BY <1>1, <1>6, <1>7, <1>8, <1>9, <1>10, <1>11 DEF Keeps, AllVerified, AllRight
<1> QED  BY <1>12 DEF e, reference

-----------------------------------------------------------------------------
(* Sliding windows *)

Window(size, out, kernel, stride, dilation) ==
    (out - 1) * stride + (kernel - 1) * dilation \in 0 .. size - 1

\* The size that is computed is ONNX's if the last window stays inside.
LEMMA OutSizeFacts ==
    ASSUME NEW size \in Nat, NEW kernel \in Nat, kernel > 0, NEW stride \in Nat, stride > 0,
           NEW dilation \in Nat, dilation > 0
    PROVE  LET extent == size - dilation * (kernel - 1) - 1
               out    == OutSize(extent, stride)
               fits   == Fitting(size, kernel, stride, dilation)
           IN  /\ out \in Int /\ fits \in Nat
               /\ fits > 0 => out = fits /\ Window(size, out, kernel, stride, dilation)
               /\ out > 0 /\ Window(size, out, kernel, stride, dilation) => out = fits
<1> DEFINE reach == dilation * (kernel - 1)
           extent == size - reach - 1
           out == OutSize(extent, stride)
           fits == Fitting(size, kernel, stride, dilation)
<1>1. reach \in Nat /\ reach = (kernel - 1) * dilation
  <2>1. \A a, b \in Nat : a * b \in Nat /\ a * b = b * a
    OBVIOUS
  <2>2. kernel - 1 \in Nat
    OBVIOUS
  <2> QED  BY <2>1, <2>2
<1>2. (extent >= 0 => fits = extent \div stride + 1) /\ (extent < 0 => fits = 0)
  BY FittingIs
<1>3. extent \in Int
  <2> HIDE DEF reach
  <2> QED  BY <1>1
<1> HIDE DEF extent, fits
<1>4. CASE extent >= 0
  <2> DEFINE q == extent \div stride
  <2>1. q \in Nat /\ stride * q <= extent
    BY <1>3, <1>4, Division
  <2>2. out = q + 1 /\ fits = q + 1
    BY <1>2, <1>4 DEF OutSize, Quotient
  <2> HIDE DEF q, out
  <2>3. Window(size, out, kernel, stride, dilation)
    <3>1. (out - 1) * stride \in Nat /\ (out - 1) * stride <= extent
      <4>1. \A a, b \in Nat : a * b \in Nat /\ a * b = b * a
        OBVIOUS
      <4>2. out - 1 = q
        BY <2>1, <2>2
      <4> QED  BY <2>1, <4>1, <4>2
    <3> DEFINE along == (out - 1) * stride
    <3> HIDE DEF along, reach
    <3>2. along \in Nat /\ along <= extent
      BY <3>1 DEF along
    <3>3. along + reach \in 0 .. size - 1
      BY <1>1, <3>2 DEF extent
    <3> QED  BY <1>1, <3>3 DEF Window, along
  <2> QED  BY <2>1, <2>2, <2>3 DEF out, extent, fits
<1>5. CASE extent < 0
  <2> DEFINE q == (-extent) \div stride
  <2>1. q \in Nat
    <3>1. -extent \in Nat
      BY <1>3, <1>5
    <3> QED  BY <3>1, Division
  <2>2. out = -q + 1 /\ fits = 0
    BY <1>2, <1>3, <1>5 DEF OutSize, Quotient
  <2> HIDE DEF q, out
  <2>3. ~(out > 0 /\ Window(size, out, kernel, stride, dilation))
    <3> SUFFICES ASSUME out > 0, Window(size, out, kernel, stride, dilation) PROVE FALSE
      OBVIOUS
    <3>1. out = 1
      BY <2>1, <2>2
    <3>2. (out - 1) * stride = 0
      BY <3>1
    <3> HIDE DEF reach
    <3>3. reach \in 0 .. size - 1
      BY <1>1, <3>2 DEF Window
    <3> QED  BY <1>1, <1>5, <3>3 DEF extent
  <2> QED  BY <2>1, <2>2, <2>3 DEF out, extent, fits
<1> QED  BY <1>3, <1>4, <1>5

IsWindows(win) ==
    /\ win.strides \in Lists(1) /\ win.dilations \in Lists(1) /\ win.pads \in Lists(0)
    /\ Len(win.strides) = 2 /\ Len(win.dilations) = 2 /\ Len(win.pads) = 4

\* The members of a list of known length.
LEMMA Entries ==
    ASSUME NEW n, NEW s \in Seq(Int), Len(s) = n
    PROVE  DOMAIN s = 1 .. n /\ \A i \in 1 .. n : s[i] \in Int
  OBVIOUS

LEMMA WindowsFacts ==
    ASSUME NEW win, IsWindows(win)
    PROVE  /\ \A i \in 1 .. 2 : win.strides[i] \in Nat /\ win.strides[i] > 0
                                 /\ win.dilations[i] \in Nat /\ win.dilations[i] > 0
           /\ DOMAIN win.pads = 1 .. 4 /\ \A i \in 1 .. 4 : win.pads[i] \in Nat
<1>1. win.pads \in Lists(0) /\ Len(win.pads) = 4 /\ win.strides \in Lists(1) /\ Len(win.strides) = 2
      /\ win.dilations \in Lists(1) /\ Len(win.dilations) = 2
  BY DEF IsWindows
<1>2. DOMAIN win.pads = 1 .. 4 /\ \A i \in 1 .. 4 : win.pads[i] \in Nat
  BY <1>1, ListFacts
<1>3. ASSUME NEW list \in Lists(1), Len(list) = 2 PROVE \A i \in 1 .. 2 : list[i] \in Nat /\ list[i] > 0
  BY <1>3, ListFacts
<1>4. (\A i \in 1 .. 2 : win.strides[i] \in Nat /\ win.strides[i] > 0)
      /\ (\A i \in 1 .. 2 : win.dilations[i] \in Nat /\ win.dilations[i] > 0)
  BY <1>1, <1>3
<1> QED  BY <1>2, <1>4, Zenon

IsPadded(d, dims, pads) ==
    /\ d \in Seq(Int) /\ Len(d) = 4 /\ d[1] = dims[1] /\ d[2] = dims[2]
    /\ d[3] = dims[3] + pads[1] + pads[3] /\ d[4] = dims[4] + pads[2] + pads[4]

\* Padding, whether or not there is an operation for it.
LEMMA PadFacts ==
    ASSUME NEW t, IsTensor(t), Len(t.type) = 4, NEW win, IsWindows(win)
    PROVE  LET padded == Pad(t, win.pads)
           IN  /\ IsPadded(padded.type, t.type, win.pads) /\ IsPadded(padded.shape, t.shape, win.pads)
               /\ t.type = t.shape => padded.type = padded.shape
<1> DEFINE padded == Pad(t, win.pads)
           pads == win.pads
<1>1. /\ \A i \in 1 .. 4 : t.type[i] \in Int /\ t.shape[i] \in Int
      /\ t.type \in Seq(Int) /\ t.shape \in Seq(Int) /\ Len(t.shape) = 4 /\ Len(t.type) = 4
  BY TensorFacts
<1>2. DOMAIN pads = 1 .. 4 /\ \A i \in 1 .. 4 : pads[i] \in Nat
  BY WindowsFacts
<1>3. ASSUME NEW dims \in Seq(Int), Len(dims) = 4
      PROVE  /\ IsPadded(Padded(dims, pads), dims, pads)
             /\ (\A i \in 1 .. 4 : pads[i] = 0) => IsPadded(dims, dims, pads)
  <2> HIDE DEF pads
  <2>1. /\ dims[1] \in Int /\ dims[2] \in Int /\ dims[3] \in Int /\ dims[4] \in Int
        /\ pads[1] \in Int /\ pads[2] \in Int /\ pads[3] \in Int /\ pads[4] \in Int
    <3>1. \A i \in 1 .. 4 : dims[i] \in Int
      BY <1>3, Entries, Zenon
    <3>2. \A i \in 1 .. 4 : pads[i] \in Int
      BY <1>2
    <3> QED  BY <3>1, <3>2
  <2>2. (\A i \in 1 .. 4 : pads[i] = 0) => IsPadded(dims, dims, pads)
    BY <1>3, <2>1 DEF IsPadded
  <2>3. IsPadded(Padded(dims, pads), dims, pads)
    <3>1. \A a, b, c, d \in Int : /\ <<a, b, c, d>> \in Seq(Int) /\ Len(<<a, b, c, d>>) = 4
                                    /\ <<a, b, c, d>>[1] = a /\ <<a, b, c, d>>[2] = b
                                    /\ <<a, b, c, d>>[3] = c /\ <<a, b, c, d>>[4] = d
      OBVIOUS
    <3>2. \A a, b, c \in Int : a + b + c \in Int
      OBVIOUS
    <3>3. dims[3] + pads[1] + pads[3] \in Int /\ dims[4] + pads[2] + pads[4] \in Int
      BY <2>1, <3>2, Zenon
    <3> DEFINE c == dims[3] + pads[1] + pads[3]
               d == dims[4] + pads[2] + pads[4]
    <3> HIDE DEF c, d
    <3>5. c \in Int /\ d \in Int
      BY <3>3 DEF c, d
    <3>4. LET p == <<dims[1], dims[2], c, d>>
          IN  p \in Seq(Int) /\ Len(p) = 4 /\ p[1] = dims[1] /\ p[2] = dims[2] /\ p[3] = c /\ p[4] = d
      BY <2>1, <3>1, <3>5
    <3> QED  BY <3>4, Zenon DEF IsPadded, Padded, c, d
  <2> QED  BY <2>2, <2>3
<1>4. padded = IF \A i \in 1 .. 4 : pads[i] = 0 THEN t
               ELSE [type |-> Padded(t.type, pads), shape |-> Padded(t.shape, pads)]
  BY <1>2 DEF Pad
<1> HIDE DEF padded, pads
<1>5. IsPadded(padded.type, t.type, pads) /\ IsPadded(padded.shape, t.shape, pads)
      /\ (t.type = t.shape => padded.type = padded.shape)
  <2>1. CASE \A i \in 1 .. 4 : pads[i] = 0
    BY <1>1, <1>3, <1>4, <2>1
  <2>2. CASE ~\A i \in 1 .. 4 : pads[i] = 0
    BY <1>1, <1>3, <1>4, <2>2
  <2> QED  BY <2>1, <2>2
<1> QED  BY <1>5 DEF padded, pads

\* One spatial size: padding an unknown size or computing with it overflows; a known
\* one comes out as ONNX has it, when the window fits.
IsOneSize(type, shape, low, high, kernel, stride, dilation) ==
    LET extent == Extent(type, low, high, kernel, dilation)
        size   == shape + low + high
        out    == OutSize(extent, stride)
        fits   == Fitting(size, kernel, stride, dilation)
    IN  /\ size \in Nat /\ size > 0 /\ fits \in Nat
        /\ /\ NoOverflow(extent) /\ NoOverflow(size)
           /\ type + low + high >= 0 \/ type + low + high = Dynamic
           => type = shape
        /\ type = shape =>
              /\ out \in Int
              /\ fits > 0 => out = fits /\ Window(size, out, kernel, stride, dilation)
              /\ out > 0 /\ Window(size, out, kernel, stride, dilation) => out = fits

\* One spatial size of Conv and MaxPool.
LEMMA OneSize ==
    ASSUME NEW type \in Int, NEW shape \in Int, shape > 0, type = shape \/ type = Dynamic,
           NEW low \in Nat, NEW high \in Nat, NEW kernel \in Nat, kernel > 0,
           NEW stride \in Nat, stride > 0, NEW dilation \in Nat, dilation > 0
    PROVE  IsOneSize(type, shape, low, high, kernel, stride, dilation)
<1> DEFINE reach == dilation * (kernel - 1)
           extent == Extent(type, low, high, kernel, dilation)
           size == shape + low + high
           out == OutSize(extent, stride)
           fits == Fitting(size, kernel, stride, dilation)
<1>1. reach \in Nat
  <2>1. \A a, b \in Nat : a * b \in Nat
    OBVIOUS
  <2>2. kernel - 1 \in Nat
    OBVIOUS
  <2> QED  BY <2>1, <2>2
<1>2. extent = type + low + high - reach - 1
  BY DEF Extent
<1>3. size \in Nat /\ size > 0
  OBVIOUS
<1>4. LET inner == OutSize(size - dilation * (kernel - 1) - 1, stride)
      IN  /\ inner \in Int /\ fits \in Nat
          /\ fits > 0 => inner = fits /\ Window(size, inner, kernel, stride, dilation)
          /\ inner > 0 /\ Window(size, inner, kernel, stride, dilation) => inner = fits
  <2> HIDE DEF size
  <2> QED  BY <1>3, OutSizeFacts
<1>5. type = shape => out = OutSize(size - dilation * (kernel - 1) - 1, stride)
  <2>1. type = shape => extent = size - dilation * (kernel - 1) - 1
    <3> HIDE DEF extent
    <3> QED  BY <1>2
  <2> HIDE DEF extent, size
  <2> QED  BY <2>1
<1>6. ASSUME NoOverflow(extent), NoOverflow(size),
             type + low + high >= 0 \/ type + low + high = Dynamic
      PROVE  type = shape
  <2> HIDE DEF reach, extent
  <2> SUFFICES ASSUME type = Dynamic PROVE FALSE
    OBVIOUS
  <2>1. low + high > 0
    <3>1. extent >= Dynamic
      BY <1>6 DEF NoOverflow
    <3> QED  BY <1>1, <1>2, <3>1, DynamicFacts
  <2>2. low + high >= Limit
    BY <1>6, <2>1, DynamicFacts
  <2>3. size < Limit
    BY <1>6 DEF NoOverflow
  <2> QED  BY <2>2, <2>3, DynamicFacts
<1> HIDE DEF extent, size, out, fits
<1>7. type = shape => /\ out \in Int
                      /\ fits > 0 => out = fits /\ Window(size, out, kernel, stride, dilation)
                      /\ out > 0 /\ Window(size, out, kernel, stride, dilation) => out = fits
  BY <1>4, <1>5
<1> QED  BY <1>3, <1>4, <1>6, <1>7 DEF IsOneSize, extent, size, out, fits

LEMMA TwoPairs ==
    ASSUME NEW a, NEW b, NEW c, NEW d
    PROVE  <<a, b>> \o <<c, d>> = <<a, b, c, d>>
<1> DEFINE S == {a, b, c, d}
           p == <<a, b>>
           q == <<c, d>>
           r == <<a, b, c, d>>
<1>1. p \in Seq(S) /\ q \in Seq(S) /\ r \in Seq(S) /\ Len(p) = 2 /\ Len(q) = 2 /\ Len(r) = 4
      /\ p[1] = a /\ p[2] = b /\ q[1] = c /\ q[2] = d
      /\ r[1] = a /\ r[2] = b /\ r[3] = c /\ r[4] = d
  OBVIOUS
<1> HIDE DEF S, p, q, r
<1>2. /\ p \o q \in Seq(S) /\ Len(p \o q) = Len(p) + Len(q)
      /\ \A i \in 1 .. Len(p) + Len(q) :
            (p \o q)[i] = IF i <= Len(p) THEN p[i] ELSE q[i - Len(p)]
  BY <1>1, ConcatProperties, Zenon
<1> DEFINE pq == p \o q
<1> HIDE DEF pq
<1>3. pq \in Seq(S) /\ Len(pq) = 4 /\ pq[1] = a /\ pq[2] = b /\ pq[3] = c /\ pq[4] = d
  <2>1. Len(p) + Len(q) = 4
    BY <1>1
  <2>2. \A i \in 1 .. 4 : pq[i] = IF i <= 2 THEN p[i] ELSE q[i - 2]
    BY <1>1, <1>2, <2>1, Zenon DEF pq
  <2>3. pq \in Seq(S) /\ Len(pq) = 4
    BY <1>2, <2>1, Zenon DEF pq
  <2> QED  BY <1>1, <2>2, <2>3
<1>4. \A i \in 1 .. 4 : pq[i] = r[i]
  BY <1>1, <1>3
<1>5. pq = r
  BY <1>1, <1>3, <1>4, SeqEqual
<1> QED  BY <1>5, Zenon DEF p, q, r, pq

\* What Conv and MaxPool compute: output slot, limits, and the last windows staying inside.
SlidingOut(t, kernel, channels, win) ==
    <<t.type[1], channels, OutSize(Extents(t.type, kernel, win)[1], win.strides[1]),
                           OutSize(Extents(t.type, kernel, win)[2], win.strides[2])>>
SlidingFits(t, kernel, win) ==
    \A i \in 1 .. 2 : NoOverflow(Extents(t.type, kernel, win)[i]) /\ NoOverflow(Pad(t, win.pads).shape[i + 2])
SlidingDefined(t, kernel, channels, win) ==
    LET o == SlidingOut(t, kernel, channels, win)
    IN  WellFormed(Pad(t, win.pads).type) /\ WellFormed(o) /\ Static(o)
SlidingInside(t, kernel, o, win) ==
    /\ Window(Pad(t, win.pads).shape[3], o[3], kernel[1], win.strides[1], win.dilations[1])
    /\ Window(Pad(t, win.pads).shape[4], o[4], kernel[2], win.strides[2], win.dilations[2])

\* The sizes are ONNX's.
LEMMA SlidingSizes ==
    ASSUME NEW t, IsTensor(t), Len(t.type) = 4, NEW win, IsWindows(win),
           NEW kernel, \A i \in {1, 2} : kernel[i] \in Nat /\ kernel[i] > 0, NEW channels \in Int, NEW meant
    PROVE  LET o == SlidingOut(t, kernel, channels, win)
               reference == OnnxSliding(t.shape, kernel, meant, win)
               W1 == Window(Pad(t, win.pads).shape[3], o[3], kernel[1], win.strides[1], win.dilations[1])
               W2 == Window(Pad(t, win.pads).shape[4], o[4], kernel[2], win.strides[2], win.dilations[2])
           IN  /\ reference = <<t.shape[1], meant, reference[3], reference[4]>>
               /\ SlidingFits(t, kernel, win) /\ SlidingDefined(t, kernel, channels, win) =>
                     /\ t.type[1] = t.shape[1] /\ channels >= 0 /\ channels # Dynamic
                     /\ o[3] \in Nat /\ o[4] \in Nat
                     /\ W1 /\ o[3] > 0 => o[3] = reference[3]
                     /\ W2 /\ o[4] > 0 => o[4] = reference[4]
               /\ t.type = t.shape /\ channels > 0 /\ reference[3] > 0 /\ reference[4] > 0 =>
                     /\ SlidingDefined(t, kernel, channels, win)
                     /\ o[3] = reference[3] /\ o[4] = reference[4] /\ W1 /\ W2
<1> DEFINE extents == Extents(t.type, kernel, win)
           padded  == Pad(t, win.pads)
           out(i)  == OutSize(extents[i], win.strides[i])
           o == <<t.type[1], channels, out(1), out(2)>>
           fits == \A i \in 1 .. 2 : NoOverflow(extents[i]) /\ NoOverflow(padded.shape[i + 2])
           defined == WellFormed(padded.type) /\ WellFormed(o) /\ Static(o)
           reference == OnnxSliding(t.shape, kernel, meant, win)
           size(i) == t.shape[i + 2] + win.pads[i] + win.pads[i + 2]
           fitting(i) == Fitting(size(i), kernel[i], win.strides[i], win.dilations[i])
           W1 == Window(padded.shape[3], o[3], kernel[1], win.strides[1], win.dilations[1])
           W2 == Window(padded.shape[4], o[4], kernel[2], win.strides[2], win.dilations[2])
<1>1. \A i \in 1 .. 4 : /\ t.type[i] \in Int /\ t.shape[i] \in Int /\ t.shape[i] > 0
                        /\ t.type[i] = t.shape[i] \/ t.type[i] = Dynamic
                        /\ t.shape[i] # Dynamic
  BY TensorFacts
<1>2. /\ \A i \in 1 .. 2 : win.strides[i] \in Nat /\ win.strides[i] > 0
                           /\ win.dilations[i] \in Nat /\ win.dilations[i] > 0
      /\ \A i \in 1 .. 4 : win.pads[i] \in Nat
  BY WindowsFacts
<1>3. IsPadded(padded.type, t.type, win.pads) /\ IsPadded(padded.shape, t.shape, win.pads)
      /\ (t.type = t.shape => padded.type = padded.shape)
  BY PadFacts
<1> HIDE DEF padded
<1>4. ASSUME NEW i \in {1, 2}
      PROVE  /\ extents[i] = Extent(t.type[i + 2], win.pads[i], win.pads[i + 2], kernel[i], win.dilations[i])
             /\ padded.shape[i + 2] = size(i)
             /\ padded.type[i + 2] = t.type[i + 2] + win.pads[i] + win.pads[i + 2]
             /\ t.type[i + 2] \in Int /\ t.shape[i + 2] \in Int /\ t.shape[i + 2] > 0
             /\ t.type[i + 2] = t.shape[i + 2] \/ t.type[i + 2] = Dynamic
             /\ win.pads[i] \in Nat /\ win.pads[i + 2] \in Nat
  <2>1. i + 2 \in 1 .. 4 /\ i \in 1 .. 4 /\ i \in 1 .. 2
    OBVIOUS
  <2>2. extents[i] = Extent(t.type[i + 2], win.pads[i], win.pads[i + 2], kernel[i], win.dilations[i])
    BY <2>1 DEF Extents
  <2> HIDE DEF extents
  <2>3. padded.shape[i + 2] = size(i)
        /\ padded.type[i + 2] = t.type[i + 2] + win.pads[i] + win.pads[i + 2]
    <3>1. /\ padded.shape[3] = t.shape[3] + win.pads[1] + win.pads[3]
          /\ padded.shape[4] = t.shape[4] + win.pads[2] + win.pads[4]
          /\ padded.type[3] = t.type[3] + win.pads[1] + win.pads[3]
          /\ padded.type[4] = t.type[4] + win.pads[2] + win.pads[4]
      BY <1>3, Zenon DEF IsPadded
    <3>2. CASE i = 1
      <4>1. i + 2 = 3
        BY <3>2
      <4> QED  BY <3>1, <3>2, <4>1, Zenon
    <3>3. CASE i = 2
      <4>1. i + 2 = 4
        BY <3>3
      <4> QED  BY <3>1, <3>3, <4>1, Zenon
    <3> QED  BY <3>2, <3>3
  <2> QED  BY <1>1, <1>2, <2>1, <2>2, <2>3
<1> HIDE DEF extents
<1>5. ASSUME NEW i \in {1, 2}
      PROVE  /\ size(i) \in Nat /\ size(i) > 0 /\ fitting(i) \in Nat
             /\ fits /\ WellFormed(padded.type) => t.type[i + 2] = t.shape[i + 2]
             /\ t.type[i + 2] = t.shape[i + 2] =>
                   /\ out(i) \in Int
                   /\ fitting(i) > 0 =>
                         out(i) = fitting(i) /\ Window(size(i), out(i), kernel[i], win.strides[i], win.dilations[i])
                   /\ out(i) > 0 /\ Window(size(i), out(i), kernel[i], win.strides[i], win.dilations[i]) =>
                         out(i) = fitting(i)
  <2>1. i \in 1 .. 2 /\ i + 2 \in 1 .. 4
    OBVIOUS
  <2>2. /\ size(i) \in Nat /\ size(i) > 0 /\ fitting(i) \in Nat
        /\ /\ NoOverflow(extents[i]) /\ NoOverflow(size(i))
           /\ padded.type[i + 2] >= 0 \/ padded.type[i + 2] = Dynamic
           => t.type[i + 2] = t.shape[i + 2]
        /\ t.type[i + 2] = t.shape[i + 2] =>
              /\ out(i) \in Int
              /\ fitting(i) > 0 =>
                    out(i) = fitting(i) /\ Window(size(i), out(i), kernel[i], win.strides[i], win.dilations[i])
              /\ out(i) > 0 /\ Window(size(i), out(i), kernel[i], win.strides[i], win.dilations[i]) =>
                    out(i) = fitting(i)
    <3>1. /\ kernel[i] \in Nat /\ kernel[i] > 0 /\ win.strides[i] \in Nat /\ win.strides[i] > 0
          /\ win.dilations[i] \in Nat /\ win.dilations[i] > 0
      BY <1>2, <2>1
    <3> DEFINE type == t.type[i + 2]
               shape == t.shape[i + 2]
               low == win.pads[i]
               high == win.pads[i + 2]
               k == kernel[i]
               stride == win.strides[i]
               dilation == win.dilations[i]
               extent == Extent(type, low, high, k, dilation)
    <3>2. /\ type \in Int /\ shape \in Int /\ shape > 0 /\ (type = shape \/ type = Dynamic)
          /\ low \in Nat /\ high \in Nat /\ k \in Nat /\ k > 0 /\ stride \in Nat /\ stride > 0
          /\ dilation \in Nat /\ dilation > 0
      BY <1>4, <3>1
    <3>3. extents[i] = extent /\ padded.type[i + 2] = type + low + high
      BY <1>4
    <3> HIDE DEF type, shape, low, high, k, stride, dilation
    <3>4. IsOneSize(type, shape, low, high, k, stride, dilation)
      BY <3>2, OneSize
    <3> HIDE DEF extent
    <3> QED  BY <3>3, <3>4, Zenon DEF IsOneSize, type, shape, low, high, k, stride, dilation, extent
  <2>3. fits => NoOverflow(extents[i]) /\ NoOverflow(size(i))
    <3> HIDE DEF size
    <3> QED  BY <1>4, <2>1
  <2>4. WellFormed(padded.type) => padded.type[i + 2] >= 0 \/ padded.type[i + 2] = Dynamic
    <3>1. i + 2 \in DOMAIN padded.type
      BY <1>3, <2>1, Entries DEF IsPadded
    <3> QED  BY <3>1 DEF WellFormed
  <2> HIDE DEF size, out, fitting, fits
  <2> QED  BY <2>2, <2>3, <2>4
<1>6. reference = <<t.shape[1], meant, fitting(1), fitting(2)>>
  <2> DEFINE spatial == [i \in 1 .. 2 |->
          Fitting(win.pads[i] + t.shape[i + 2] + win.pads[i + 2], kernel[i], win.strides[i], win.dilations[i])]
  <2>1. reference = <<t.shape[1], meant>> \o spatial
    BY DEF OnnxSliding
  <2>2. ASSUME NEW i \in {1, 2} PROVE win.pads[i] + t.shape[i + 2] + win.pads[i + 2] = size(i)
    BY <1>4
  <2>3. spatial = <<fitting(1), fitting(2)>>
    <3>1. spatial[1] = fitting(1) /\ spatial[2] = fitting(2)
      <4>1. spatial[1] = Fitting(win.pads[1] + t.shape[1 + 2] + win.pads[1 + 2], kernel[1], win.strides[1], win.dilations[1])
            /\ spatial[2] = Fitting(win.pads[2] + t.shape[2 + 2] + win.pads[2 + 2], kernel[2], win.strides[2], win.dilations[2])
        OBVIOUS
      <4> HIDE DEF spatial, size
      <4> QED  BY <2>2, <4>1, Zenon
    <3>2. spatial = [i \in 1 .. 2 |-> spatial[i]]
      OBVIOUS
    <3> HIDE DEF spatial, fitting
    <3> QED  BY <3>1, <3>2
  <2> HIDE DEF spatial, reference, fitting
  <2>4. <<t.shape[1], meant>> \o <<fitting(1), fitting(2)>> = <<t.shape[1], meant, fitting(1), fitting(2)>>
    BY TwoPairs, Zenon
  <2> QED  BY <2>1, <2>3, <2>4
<1> HIDE DEF reference, fits, size, fitting, out
<1>7. o[1] = t.type[1] /\ o[2] = channels /\ o[3] = out(1) /\ o[4] = out(2) /\ DOMAIN o = 1 .. 4
  OBVIOUS
<1>8. reference[1] = t.shape[1] /\ reference[2] = meant /\ reference[3] = fitting(1) /\ reference[4] = fitting(2)
      /\ reference = <<t.shape[1], meant, reference[3], reference[4]>>
  BY <1>6
<1> HIDE DEF o
<1>9. /\ padded.shape[3] = size(1) /\ padded.shape[4] = size(2)
      /\ (W1 <=> Window(size(1), out(1), kernel[1], win.strides[1], win.dilations[1]))
      /\ (W2 <=> Window(size(2), out(2), kernel[2], win.strides[2], win.dilations[2]))
  <2>1. padded.shape[1 + 2] = size(1) /\ padded.shape[2 + 2] = size(2)
    BY <1>4
  <2>2. padded.shape[3] = size(1) /\ padded.shape[4] = size(2)
    BY <2>1
  <2> QED  BY <1>7, <2>2
<1> HIDE DEF W1, W2
<1>10. (fits /\ WellFormed(padded.type) => t.type[3] = t.shape[3])
       /\ (fits /\ WellFormed(padded.type) => t.type[4] = t.shape[4])
  <2>1. fits /\ WellFormed(padded.type) => t.type[1 + 2] = t.shape[1 + 2]
    BY <1>5
  <2>2. fits /\ WellFormed(padded.type) => t.type[2 + 2] = t.shape[2 + 2]
    BY <1>5
  <2> QED  BY <2>1, <2>2
<1>11. ASSUME t.type[3] = t.shape[3], t.type[4] = t.shape[4]
       PROVE  /\ out(1) \in Int /\ out(2) \in Int
              /\ fitting(1) > 0 => out(1) = fitting(1) /\ W1
              /\ fitting(2) > 0 => out(2) = fitting(2) /\ W2
              /\ out(1) > 0 /\ W1 => out(1) = fitting(1)
              /\ out(2) > 0 /\ W2 => out(2) = fitting(2)
  <2>1. t.type[1 + 2] = t.shape[1 + 2] /\ t.type[2 + 2] = t.shape[2 + 2]
    BY <1>11
  <2> QED  BY <1>5, <1>9, <2>1
<1>12. fits /\ defined =>
          /\ t.type[1] = t.shape[1] /\ channels >= 0 /\ channels # Dynamic
          /\ o[3] \in Nat /\ o[4] \in Nat
          /\ W1 /\ o[3] > 0 => o[3] = reference[3]
          /\ W2 /\ o[4] > 0 => o[4] = reference[4]
  <2> SUFFICES ASSUME fits, defined
               PROVE  /\ t.type[1] = t.shape[1] /\ channels >= 0 /\ channels # Dynamic
                      /\ o[3] \in Nat /\ o[4] \in Nat
                      /\ W1 /\ o[3] > 0 => o[3] = reference[3]
                      /\ W2 /\ o[4] > 0 => o[4] = reference[4]
    OBVIOUS
  <2>1. \A i \in 1 .. 4 : o[i] # Dynamic /\ (o[i] >= 0 \/ o[i] = Dynamic)
    BY <1>7 DEF Static, WellFormed
  <2>2. t.type[3] = t.shape[3] /\ t.type[4] = t.shape[4]
    BY <1>10
  <2>3. \A i \in 1 .. 4 : o[i] # Dynamic /\ o[i] >= 0
    BY <2>1
  <2> HIDE DEF defined
  <2>4. t.type[1] = t.shape[1] /\ channels >= 0 /\ channels # Dynamic
    <3>1. o[1] # Dynamic /\ o[2] # Dynamic /\ o[2] >= 0
      BY <2>3
    <3> QED  BY <1>1, <1>7, <3>1
  <2>5. out(1) \in Nat /\ out(2) \in Nat
    <3>1. o[3] >= 0 /\ o[4] >= 0
      BY <2>3
    <3> QED  BY <1>7, <1>11, <2>2, <3>1
  <2> QED  BY <1>7, <1>8, <1>11, <2>2, <2>4, <2>5
<1>13. t.type = t.shape /\ channels > 0 /\ reference[3] > 0 /\ reference[4] > 0 =>
           defined /\ o[3] = reference[3] /\ o[4] = reference[4] /\ W1 /\ W2
  <2> SUFFICES ASSUME t.type = t.shape, channels > 0, reference[3] > 0, reference[4] > 0
               PROVE  defined /\ o[3] = reference[3] /\ o[4] = reference[4] /\ W1 /\ W2
    OBVIOUS
  <2>1. out(1) = fitting(1) /\ out(2) = fitting(2) /\ W1 /\ W2 /\ out(1) > 0 /\ out(2) > 0
        /\ out(1) \in Int /\ out(2) \in Int
    BY <1>8, <1>11
  <2>2. \A i \in 1 .. 4 : o[i] \in Int /\ o[i] > 0
    <3>1. t.type[1] \in Int /\ t.type[1] > 0
      BY <1>1
    <3>2. \A i \in 1 .. 4 : i = 1 \/ i = 2 \/ i = 3 \/ i = 4
      OBVIOUS
    <3> QED  BY <1>7, <2>1, <3>1, <3>2
  <2>3. Static(o) /\ WellFormed(o)
    BY <1>7, <2>2, DynamicFacts DEF Static, WellFormed
  <2>4. WellFormed(padded.type)
    <3>1. padded.type = padded.shape
      BY <1>3
    <3>2. padded.shape \in Seq(Int) /\ Len(padded.shape) = 4
          /\ padded.shape[1] = t.shape[1] /\ padded.shape[2] = t.shape[2]
      BY <1>3 DEF IsPadded
    <3>3. size(1) > 0 /\ size(2) > 0
      BY <1>5
    <3>4. DOMAIN padded.shape = 1 .. 4
      BY <3>2, Entries, Zenon
    <3>5. \A i \in 1 .. 4 : padded.shape[i] >= 0
      <4>1. t.shape[1] >= 0 /\ t.shape[2] >= 0
        BY <1>1
      <4>2. size(1) >= 0 /\ size(2) >= 0
        BY <1>5
      <4>3. \A i \in 1 .. 4 : i = 1 \/ i = 2 \/ i = 3 \/ i = 4
        OBVIOUS
      <4> QED  BY <1>9, <3>2, <4>1, <4>2, <4>3
    <3> QED  BY <3>1, <3>4, <3>5 DEF WellFormed
  <2> QED  BY <1>7, <1>8, <2>1, <2>3, <2>4
<1> HIDE DEF defined
<1>14. /\ reference = <<t.shape[1], meant, reference[3], reference[4]>>
       /\ fits /\ defined =>
             /\ t.type[1] = t.shape[1] /\ channels >= 0 /\ channels # Dynamic
             /\ o[3] \in Nat /\ o[4] \in Nat
             /\ W1 /\ o[3] > 0 => o[3] = reference[3]
             /\ W2 /\ o[4] > 0 => o[4] = reference[4]
       /\ t.type = t.shape /\ channels > 0 /\ reference[3] > 0 /\ reference[4] > 0 =>
             defined /\ o[3] = reference[3] /\ o[4] = reference[4] /\ W1 /\ W2
  BY <1>8, <1>12, <1>13, Zenon
<1>15. /\ o = SlidingOut(t, kernel, channels, win)
       /\ fits <=> SlidingFits(t, kernel, win)
       /\ defined <=> SlidingDefined(t, kernel, channels, win)
  <2>1. o = SlidingOut(t, kernel, channels, win)
    BY Zenon DEF o, out, extents, SlidingOut
  <2>2. fits <=> SlidingFits(t, kernel, win)
    BY Zenon DEF fits, extents, padded, SlidingFits
  <2>3. defined <=> SlidingDefined(t, kernel, channels, win)
    BY <2>1, Zenon DEF defined, padded, SlidingDefined
  <2> QED  BY <2>1, <2>2, <2>3
<1> QED  BY <1>14, <1>15, Zenon DEF reference, padded, W1, W2

\* All the sizes of an operation go together.
AllMatch(dims, maps) == \A p \in DOMAIN maps : \A i \in DOMAIN maps[p] :
                            Matches(dims[p][i], maps[p][i], Ranges(dims, maps))

\* What MLIR takes, and what runs, when no size is in the way.
LEMMA MatchFacts ==
    ASSUME NEW dims, NEW maps
    PROVE  /\ AllMatch(dims, maps) => Verified(dims, maps) /\ Right(dims, maps)
           /\ Right(dims, maps) /\ (\A l \in DOMAIN Ranges(dims, maps) : Ranges(dims, maps)[l] # 0) =>
                 AllMatch(dims, maps)
           /\ /\ Verified(dims, maps)
              /\ \A l \in DOMAIN Ranges(dims, maps) : Ranges(dims, maps)[l] # Dynamic
              /\ \A p \in DOMAIN maps : \A i \in DOMAIN maps[p] :
                    dims[p][i] \notin {Dynamic, 0} \/ Matches(dims[p][i], maps[p][i], Ranges(dims, maps))
              => AllMatch(dims, maps)
<1>1. AllMatch(dims, maps) => Verified(dims, maps) /\ Right(dims, maps)
  BY DEF AllMatch, Verified, Right
<1>2. Right(dims, maps) /\ (\A l \in DOMAIN Ranges(dims, maps) : Ranges(dims, maps)[l] # 0) =>
          AllMatch(dims, maps)
  BY DEF AllMatch, Right
<1>3. /\ Verified(dims, maps)
      /\ \A l \in DOMAIN Ranges(dims, maps) : Ranges(dims, maps)[l] # Dynamic
      /\ \A p \in DOMAIN maps : \A i \in DOMAIN maps[p] :
            dims[p][i] \notin {Dynamic, 0} \/ Matches(dims[p][i], maps[p][i], Ranges(dims, maps))
      => AllMatch(dims, maps)
  BY DEF AllMatch, Verified
<1> QED  BY <1>1, <1>2, <1>3

\* A window's index, and what it is for a dimension to end there.
LEMMA SlideFacts ==
    ASSUME NEW l, NEW by, NEW plus, NEW step, plus # 0, NEW range, NEW size
    PROVE  LET index == Slide(l, by, plus, step)
           IN  /\ index.loop = l /\ index.plus = plus /\ ~IsLoop(index)
               /\ \A k : index # Loop(k)
               /\ Matches(size, index, range) <=> Window(size, range[l], range[plus], by, step)
<1> DEFINE index == Slide(l, by, plus, step)
<1>1. index.loop = l /\ index.plus = plus /\ index.by = by /\ index.step = step
  BY DEF Slide
<1>2. \A k : Loop(k).plus = 0
  BY DEF Loop
<1> HIDE DEF index
<1>3. ~IsLoop(index)
  BY <1>1 DEF IsLoop
<1>4. LastIndex(index, range) = (range[l] - 1) * by + (range[plus] - 1) * step
  BY <1>1, <1>3, Zenon DEF LastIndex
<1>5. Matches(size, index, range) <=> Window(size, range[l], range[plus], by, step)
  BY <1>3, <1>4, Zenon DEF Matches, Window
<1> QED  BY <1>1, <1>2, <1>3, <1>5, Zenon DEF index

LEMMA LoopMatches ==
    ASSUME NEW range
    PROVE  \A size, k : Matches(size, Loop(k), range) <=> size = range[k]
<1>1. \A k : Loop(k).loop = k /\ IsLoop(Loop(k))
  BY DEF Loop, IsLoop
<1> QED  BY <1>1, Zenon DEF Matches

\* The maps of linalg.conv_2d_nchw_fchw.
IsConvolution(maps, win) ==
    /\ DOMAIN maps = {1, 2, 3} /\ \A p \in {1, 2, 3} : DOMAIN maps[p] = 1 .. 4
    /\ maps[1][1] = Loop(1) /\ maps[1][2] = Loop(5)
    /\ maps[1][3] = Slide(3, win.strides[1], 6, win.dilations[1])
    /\ maps[1][4] = Slide(4, win.strides[2], 7, win.dilations[2])
    /\ maps[2][1] = Loop(2) /\ maps[2][2] = Loop(5) /\ maps[2][3] = Loop(6) /\ maps[2][4] = Loop(7)
    /\ \A i \in 1 .. 4 : maps[3][i] = Loop(i)

LEMMA ConvolutionRanges ==
    ASSUME NEW dims, NEW maps, NEW win, IsConvolution(maps, win)
    PROVE  LET range == Ranges(dims, maps)
           IN  /\ DOMAIN range = 1 .. 7
               /\ range[1] = dims[1][1] /\ range[5] = dims[1][2]
               /\ range[2] = dims[2][1] /\ range[6] = dims[2][3] /\ range[7] = dims[2][4]
               /\ range[3] = dims[3][3] /\ range[4] = dims[3][4]
<1> DEFINE range == Ranges(dims, maps)
<1>1. /\ DOMAIN maps = {1, 2, 3} /\ \A p \in {1, 2, 3} : DOMAIN maps[p] = 1 .. 4
      /\ maps[1][1] = Loop(1) /\ maps[1][2] = Loop(5)
      /\ maps[2][1] = Loop(2) /\ maps[2][2] = Loop(5) /\ maps[2][3] = Loop(6) /\ maps[2][4] = Loop(7)
      /\ \A i \in 1 .. 4 : maps[3][i] = Loop(i)
  BY DEF IsConvolution
<1>2. \A l : maps[1][3] # Loop(l) /\ maps[1][4] # Loop(l)
  BY SlideFacts DEF IsConvolution
<1>3. maps[1][3].loop = 3 /\ maps[1][3].plus = 6 /\ maps[1][4].loop = 4 /\ maps[1][4].plus = 7
  BY SlideFacts DEF IsConvolution
<1>4. IsMaps(maps)
  BY <1>1 DEF IsMaps
<1>5. \A k, l : k # 0 => (Loop(k) = Loop(l) <=> k = l)
  BY LoopFacts
<1>6. \A i \in 1 .. 4 : i = 1 \/ i = 2 \/ i = 3 \/ i = 4
  OBVIOUS
\* Where a loop is first alone.
<1>7. ASSUME NEW l \in 1 .. 7, NEW q \in {1, 2, 3}, NEW j \in 1 .. 4, maps[q][j] = Loop(l)
      PROVE  \/ <<q, j, l>> \in {<<1, 1, 1>>, <<1, 2, 5>>, <<2, 1, 2>>, <<2, 2, 5>>, <<2, 3, 6>>, <<2, 4, 7>>}
             \/ q = 3 /\ j = l
  BY <1>1, <1>2, <1>5, <1>6, <1>7
<1>8. ASSUME NEW l \in 1 .. 7, NEW p \in {1, 2, 3}, NEW i \in 1 .. 4,
             <<l, p, i>> \in {<<1, 1, 1>>, <<5, 1, 2>>, <<2, 2, 1>>, <<6, 2, 3>>, <<7, 2, 4>>, <<3, 3, 3>>, <<4, 3, 4>>}
      PROVE  l \in DOMAIN range /\ range[l] = dims[p][i]
  <2>1. maps[p][i] = Loop(l)
    BY <1>1, <1>8
  <2>2. ASSUME NEW q \in {1, 2, 3}, NEW j \in 1 .. 4, maps[q][j] = Loop(l)
        PROVE  p < q \/ (p = q /\ i <= j)
    BY <1>7, <1>8, <2>2
  <2>3. \A q \in DOMAIN maps : \A j \in DOMAIN maps[q] :
            maps[q][j] = Loop(l) => p < q \/ (p = q /\ i <= j)
    BY <1>1, <2>2
  <2>4. p \in DOMAIN maps /\ i \in DOMAIN maps[p]
    BY <1>1
  <2> QED  BY <1>4, <2>1, <2>3, <2>4, RangeIs
<1>9. /\ 1 \in DOMAIN range /\ range[1] = dims[1][1] /\ 5 \in DOMAIN range /\ range[5] = dims[1][2]
      /\ 2 \in DOMAIN range /\ range[2] = dims[2][1] /\ 6 \in DOMAIN range /\ range[6] = dims[2][3]
      /\ 7 \in DOMAIN range /\ range[7] = dims[2][4]
      /\ 3 \in DOMAIN range /\ range[3] = dims[3][3] /\ 4 \in DOMAIN range /\ range[4] = dims[3][4]
  <2> HIDE DEF range
  <2> QED  BY <1>8
<1>10. ASSUME NEW l \in DOMAIN range PROVE l \in 1 .. 7
  <2>1. PICK p \in {1, 2, 3} : \E i \in 1 .. 4 : maps[p][i].loop = l \/ (maps[p][i].plus = l /\ l # 0)
    BY <1>1, RangeDomain
  <2>2. PICK i \in 1 .. 4 : maps[p][i].loop = l \/ (maps[p][i].plus = l /\ l # 0)
    BY <2>1
  <2>3. \A k : Loop(k).loop = k /\ Loop(k).plus = 0
    BY DEF Loop
  <2> QED  BY <1>1, <1>3, <1>6, <2>2, <2>3
<1> HIDE DEF range
<1>11. DOMAIN range = 1 .. 7
  <2>1. \A l \in 1 .. 7 : l = 1 \/ l = 2 \/ l = 3 \/ l = 4 \/ l = 5 \/ l = 6 \/ l = 7
    OBVIOUS
  <2> QED  BY <1>9, <1>10, <2>1
<1> QED  BY <1>9, <1>11 DEF range

\* Sizes that suit linalg.conv_2d_nchw_fchw.
ConvolutionSizes(dims, win) ==
    /\ dims[2][2] = dims[1][2] /\ dims[3][1] = dims[1][1] /\ dims[3][2] = dims[2][1]
    /\ Window(dims[1][3], dims[3][3], dims[2][3], win.strides[1], win.dilations[1])
    /\ Window(dims[1][4], dims[3][4], dims[2][4], win.strides[2], win.dilations[2])

LEMMA ConvolutionFacts ==
    ASSUME NEW dims, NEW maps, NEW win, IsConvolution(maps, win)
    PROVE  /\ ConvolutionSizes(dims, win) => Verified(dims, maps) /\ Right(dims, maps)
           /\ /\ Right(dims, maps)
              /\ \A p \in {1, 2, 3} : \A i \in 1 .. 4 : dims[p][i] # 0
              => ConvolutionSizes(dims, win)
           /\ /\ Verified(dims, maps)
              /\ \A p \in {1, 2, 3} : \A i \in 1 .. 4 : dims[p][i] # Dynamic
              /\ \A i \in 1 .. 4 : dims[1][i] # 0 /\ dims[2][i] # 0
              /\ dims[3][1] # 0 /\ dims[3][2] # 0
              => ConvolutionSizes(dims, win)
<1> DEFINE range == Ranges(dims, maps)
<1>1. /\ DOMAIN maps = {1, 2, 3} /\ \A p \in {1, 2, 3} : DOMAIN maps[p] = 1 .. 4
      /\ maps[1][1] = Loop(1) /\ maps[1][2] = Loop(5)
      /\ maps[1][3] = Slide(3, win.strides[1], 6, win.dilations[1])
      /\ maps[1][4] = Slide(4, win.strides[2], 7, win.dilations[2])
      /\ maps[2][1] = Loop(2) /\ maps[2][2] = Loop(5) /\ maps[2][3] = Loop(6) /\ maps[2][4] = Loop(7)
      /\ maps[3][1] = Loop(1) /\ maps[3][2] = Loop(2) /\ maps[3][3] = Loop(3) /\ maps[3][4] = Loop(4)
  BY DEF IsConvolution
<1>2. /\ DOMAIN range = 1 .. 7
      /\ range[1] = dims[1][1] /\ range[5] = dims[1][2]
      /\ range[2] = dims[2][1] /\ range[6] = dims[2][3] /\ range[7] = dims[2][4]
      /\ range[3] = dims[3][3] /\ range[4] = dims[3][4]
  BY ConvolutionRanges
<1> HIDE DEF range
<1>3. \A size, k : Matches(size, Loop(k), range) <=> size = range[k]
  BY LoopMatches
<1>4. /\ Matches(dims[1][3], maps[1][3], range)
             <=> Window(dims[1][3], dims[3][3], dims[2][3], win.strides[1], win.dilations[1])
      /\ Matches(dims[1][4], maps[1][4], range)
             <=> Window(dims[1][4], dims[3][4], dims[2][4], win.strides[2], win.dilations[2])
  <2>1. 6 # 0 /\ 7 # 0
    OBVIOUS
  <2>2. \A l, by, plus, step, size : plus # 0 =>
            (Matches(size, Slide(l, by, plus, step), range) <=> Window(size, range[l], range[plus], by, step))
    BY SlideFacts
  <2>3. /\ Matches(dims[1][3], maps[1][3], range)
               <=> Window(dims[1][3], range[3], range[6], win.strides[1], win.dilations[1])
        /\ Matches(dims[1][4], maps[1][4], range)
               <=> Window(dims[1][4], range[4], range[7], win.strides[2], win.dilations[2])
    BY <1>1, <2>2
  <2> QED  BY <1>2, <2>3
<1>5. \A i \in 1 .. 4 : i = 1 \/ i = 2 \/ i = 3 \/ i = 4
  OBVIOUS
<1>6. /\ Matches(dims[1][1], maps[1][1], range) /\ Matches(dims[1][2], maps[1][2], range)
      /\ Matches(dims[2][1], maps[2][1], range) /\ Matches(dims[2][3], maps[2][3], range)
      /\ Matches(dims[2][4], maps[2][4], range)
      /\ Matches(dims[3][3], maps[3][3], range) /\ Matches(dims[3][4], maps[3][4], range)
      /\ (Matches(dims[2][2], maps[2][2], range) <=> dims[2][2] = dims[1][2])
      /\ (Matches(dims[3][1], maps[3][1], range) <=> dims[3][1] = dims[1][1])
      /\ (Matches(dims[3][2], maps[3][2], range) <=> dims[3][2] = dims[2][1])
  BY <1>1, <1>2, <1>3
<1>7. AllMatch(dims, maps) <=> ConvolutionSizes(dims, win)
  <2>1. AllMatch(dims, maps) <=>
            \A p \in {1, 2, 3} : \A i \in 1 .. 4 : Matches(dims[p][i], maps[p][i], range)
    BY <1>1 DEF AllMatch, range
  <2>2. (\A p \in {1, 2, 3} : \A i \in 1 .. 4 : Matches(dims[p][i], maps[p][i], range)) <=>
            /\ Matches(dims[2][2], maps[2][2], range) /\ Matches(dims[3][1], maps[3][1], range)
            /\ Matches(dims[3][2], maps[3][2], range)
            /\ Matches(dims[1][3], maps[1][3], range) /\ Matches(dims[1][4], maps[1][4], range)
    BY <1>5, <1>6
  <2> QED  BY <1>4, <1>6, <2>1, <2>2 DEF ConvolutionSizes
<1>8. ASSUME Right(dims, maps), \A p \in {1, 2, 3} : \A i \in 1 .. 4 : dims[p][i] # 0
      PROVE  ConvolutionSizes(dims, win)
  <2>1. \A l \in DOMAIN range : range[l] # 0
    <3>1. \A l \in 1 .. 7 : l = 1 \/ l = 2 \/ l = 3 \/ l = 4 \/ l = 5 \/ l = 6 \/ l = 7
      OBVIOUS
    <3> QED  BY <1>2, <1>8, <3>1
  <2> QED  BY <1>7, <1>8, <2>1, MatchFacts DEF range
<1>9. ASSUME Verified(dims, maps),
             \A p \in {1, 2, 3} : \A i \in 1 .. 4 : dims[p][i] # Dynamic,
             \A i \in 1 .. 4 : dims[1][i] # 0 /\ dims[2][i] # 0, dims[3][1] # 0, dims[3][2] # 0
      PROVE  ConvolutionSizes(dims, win)
  <2>1. \A l \in DOMAIN range : range[l] # Dynamic
    <3>1. \A l \in 1 .. 7 : l = 1 \/ l = 2 \/ l = 3 \/ l = 4 \/ l = 5 \/ l = 6 \/ l = 7
      OBVIOUS
    <3> QED  BY <1>2, <1>9, <3>1
  <2>2. \A p \in {1, 2, 3} : \A i \in 1 .. 4 :
            dims[p][i] \notin {Dynamic, 0} \/ Matches(dims[p][i], maps[p][i], range)
    BY <1>5, <1>6, <1>9
  <2> QED  BY <1>1, <1>7, <1>9, <2>1, <2>2, MatchFacts DEF range
<1>10. ConvolutionSizes(dims, win) => Verified(dims, maps) /\ Right(dims, maps)
  BY <1>7, MatchFacts
<1> QED  BY <1>8, <1>9, <1>10

\* linalg.conv_2d_nchw_fchw on a padded tensor, a filter and the output slot.
LEMMA ConvolutionOperation ==
    ASSUME NEW a, Len(a.type) = 4, NEW w, NEW o, Len(o) = 4, NEW win
    PROVE  LET op == Linalg(<<a, Constant(w), Constant(o)>>,
                        <<<<Loop(1), Loop(5), Slide(3, win.strides[1], 6, win.dilations[1]),
                                              Slide(4, win.strides[2], 7, win.dilations[2])>>,
                          <<Loop(2), Loop(5), Loop(6), Loop(7)>>, Identity(4)>>)
               types  == <<a.type, w, o>>
               shapes == <<a.shape, w, o>>
           IN  /\ op.right /\ (\A i \in 1 .. 4 : a.shape[i] # 0 /\ w[i] # 0 /\ o[i] # 0) =>
                     Len(w) = 4 /\ ConvolutionSizes(shapes, win)
               /\ Len(w) = 4 /\ ConvolutionSizes(types, win) => op.verified
               /\ /\ a.type = a.shape /\ op.verified /\ o[1] # 0 /\ o[2] # 0
                  /\ Len(w) = 4 =>
                       \A i \in 1 .. 4 : a.type[i] \notin {0, Dynamic} /\ w[i] \notin {0, Dynamic} /\ o[i] # Dynamic
                  => Len(w) = 4 /\ op.right /\ ConvolutionSizes(shapes, win)
<1> DEFINE first == <<Loop(1), Loop(5), Slide(3, win.strides[1], 6, win.dilations[1]),
                                        Slide(4, win.strides[2], 7, win.dilations[2])>>
           second == <<Loop(2), Loop(5), Loop(6), Loop(7)>>
           maps == <<first, second, Identity(4)>>
           operands == <<a, Constant(w), Constant(o)>>
           types == <<a.type, w, o>>
           shapes == <<a.shape, w, o>>
           op == Linalg(operands, maps)
<1>1. /\ Len(first) = 4 /\ DOMAIN first = 1 .. 4 /\ first[1] = Loop(1) /\ first[2] = Loop(5)
      /\ first[3] = Slide(3, win.strides[1], 6, win.dilations[1])
      /\ first[4] = Slide(4, win.strides[2], 7, win.dilations[2])
  <2> HIDE DEF Loop, Slide
  <2> QED  OBVIOUS
<1>2. /\ Len(second) = 4 /\ DOMAIN second = 1 .. 4
      /\ second[1] = Loop(2) /\ second[2] = Loop(5) /\ second[3] = Loop(6) /\ second[4] = Loop(7)
  <2> HIDE DEF Loop
  <2> QED  OBVIOUS
<1>3. Len(Identity(4)) = 4 /\ DOMAIN Identity(4) = 1 .. 4 /\ \A i \in 1 .. 4 : Identity(4)[i] = Loop(i)
  <2>1. DOMAIN Identity(4) = 1 .. 4 /\ \A i \in 1 .. 4 : Identity(4)[i] = Loop(i)
    BY DEF Identity
  <2>2. Len(Identity(4)) = 4
    BY IdentityFacts
  <2> QED  BY <2>1, <2>2
<1> HIDE DEF first, second
<1>4. DOMAIN maps = {1, 2, 3} /\ maps[1] = first /\ maps[2] = second /\ maps[3] = Identity(4)
  OBVIOUS
<1> HIDE DEF maps
<1>5. IsConvolution(maps, win)
  BY <1>1, <1>2, <1>3, <1>4 DEF IsConvolution
<1>6. /\ types[1] = a.type /\ types[2] = w /\ types[3] = o
      /\ shapes[1] = a.shape /\ shapes[2] = w /\ shapes[3] = o
  OBVIOUS
<1>7. [p \in DOMAIN operands |-> operands[p].type] = types
      /\ [p \in DOMAIN operands |-> operands[p].shape] = shapes
  <2>1. Constant(w).type = w /\ Constant(w).shape = w /\ Constant(o).type = o /\ Constant(o).shape = o
    BY DEF Constant
  <2> QED  BY <2>1
<1> HIDE DEF operands, types, shapes
<1>8. op = IF Len(w) # 4 THEN Op(FALSE, FALSE) ELSE Op(Verified(types, maps), Right(shapes, maps))
  <2>1. op = IF \E p \in DOMAIN maps : Len(types[p]) # Len(maps[p]) THEN Op(FALSE, FALSE)
             ELSE Op(Verified(types, maps), Right(shapes, maps))
    BY <1>7 DEF Linalg
  <2>2. (\E p \in DOMAIN maps : Len(types[p]) # Len(maps[p])) <=> Len(w) # 4
    BY <1>1, <1>2, <1>3, <1>4, <1>6
  <2> HIDE DEF op
  <2> QED  BY <2>1, <2>2
<1>9. (op.verified <=> Len(w) = 4 /\ Verified(types, maps)) /\ (op.right <=> Len(w) = 4 /\ Right(shapes, maps))
  <2> HIDE DEF op
  <2>1. CASE Len(w) # 4
    BY <1>8, <2>1 DEF Op
  <2>2. CASE Len(w) = 4
    BY <1>8, <2>2 DEF Op
  <2> QED  BY <2>1, <2>2
<1> HIDE DEF op
<1>10. \A p \in {1, 2, 3} : p = 1 \/ p = 2 \/ p = 3
  OBVIOUS
<1>11. ASSUME op.right, \A i \in 1 .. 4 : a.shape[i] # 0 /\ w[i] # 0 /\ o[i] # 0
       PROVE  Len(w) = 4 /\ ConvolutionSizes(shapes, win)
  <2>1. \A p \in {1, 2, 3} : \A i \in 1 .. 4 : shapes[p][i] # 0
    BY <1>6, <1>10, <1>11
  <2> QED  BY <1>5, <1>9, <1>11, <2>1, ConvolutionFacts
<1>12. ASSUME Len(w) = 4, ConvolutionSizes(types, win)
       PROVE  op.verified
  BY <1>5, <1>9, <1>12, ConvolutionFacts
<1>13. ASSUME a.type = a.shape, op.verified, o[1] # 0, o[2] # 0,
              Len(w) = 4 =>
                \A i \in 1 .. 4 : a.type[i] \notin {0, Dynamic} /\ w[i] \notin {0, Dynamic} /\ o[i] # Dynamic
       PROVE  Len(w) = 4 /\ op.right /\ ConvolutionSizes(shapes, win)
  <2>1. Len(w) = 4 /\ Verified(types, maps)
    BY <1>9, <1>13
  <2>2. types = shapes
    BY <1>13 DEF types, shapes
  <2>3. /\ \A p \in {1, 2, 3} : \A i \in 1 .. 4 : types[p][i] # Dynamic
        /\ \A i \in 1 .. 4 : types[1][i] # 0 /\ types[2][i] # 0
        /\ types[3][1] # 0 /\ types[3][2] # 0
    BY <1>6, <1>10, <1>13, <2>1
  <2>4. ConvolutionSizes(types, win)
    BY <1>5, <2>1, <2>3, ConvolutionFacts
  <2>5. Right(types, maps)
    BY <1>5, <2>4, ConvolutionFacts
  <2> QED  BY <1>9, <2>1, <2>2, <2>4, <2>5
<1> QED  BY <1>11, <1>12, <1>13 DEF op, operands, maps, first, second, types, shapes

\* What Conv and MaxPool have in common: the padded tensor, the output slot, and its sizes.
LEMMA SlidingResult ==
    ASSUME NEW t, IsTensor(t), Len(t.type) = 4, NEW win, IsWindows(win),
           NEW kernel, \A i \in {1, 2} : kernel[i] \in Nat /\ kernel[i] > 0,
           NEW channels \in Int, NEW meant \in Int, meant > 0, channels \in {meant, Dynamic}
    PROVE  LET padded == Pad(t, win.pads)
               o == SlidingOut(t, kernel, channels, win)
               defined == SlidingFits(t, kernel, win) /\ SlidingDefined(t, kernel, channels, win)
               inside == SlidingInside(t, kernel, o, win)
               reference == OnnxSliding(t.shape, kernel, meant, win)
           IN  /\ \A i \in 1 .. 4 : padded.shape[i] \in Int /\ padded.shape[i] > 0
               /\ padded.shape[1] = t.shape[1] /\ padded.shape[2] = t.shape[2] /\ Len(padded.type) = 4
               /\ t.type = t.shape => padded.type = padded.shape
               /\ defined => /\ o \in Lists(0) /\ Len(o) = 4 /\ channels = meant
                             /\ o[1] = t.shape[1] /\ o[2] = meant /\ t.type[1] = t.shape[1]
               /\ defined /\ inside /\ Full(Constant(o)) =>
                     IsTensor(Constant(o)) /\ o = reference /\ reference # Invalid
               /\ t.type = t.shape /\ channels = meant /\ reference[3] > 0 /\ reference[4] > 0 =>
                     SlidingDefined(t, kernel, channels, win)
               /\ defined /\ t.type = t.shape /\ reference[3] > 0 /\ reference[4] > 0 =>
                     inside /\ Full(Constant(o))
<1> DEFINE padded == Pad(t, win.pads)
           o == SlidingOut(t, kernel, channels, win)
           fits == SlidingFits(t, kernel, win)
           wellDefined == SlidingDefined(t, kernel, channels, win)
           defined == fits /\ wellDefined
           inside == SlidingInside(t, kernel, o, win)
           reference == OnnxSliding(t.shape, kernel, meant, win)
           W1 == Window(padded.shape[3], o[3], kernel[1], win.strides[1], win.dilations[1])
           W2 == Window(padded.shape[4], o[4], kernel[2], win.strides[2], win.dilations[2])
<1>1. \A i \in 1 .. 4 : /\ t.type[i] \in Int /\ t.shape[i] \in Int /\ t.shape[i] > 0
                        /\ t.type[i] = t.shape[i] \/ t.type[i] = Dynamic
                        /\ t.shape[i] # Dynamic
  BY TensorFacts
<1>2. IsPadded(padded.type, t.type, win.pads) /\ IsPadded(padded.shape, t.shape, win.pads)
      /\ (t.type = t.shape => padded.type = padded.shape)
  BY PadFacts
<1>3. \A i \in 1 .. 4 : win.pads[i] \in Nat
  BY WindowsFacts
<1>4. \A i \in 1 .. 4 : i = 1 \/ i = 2 \/ i = 3 \/ i = 4
  OBVIOUS
<1>5. o[1] = t.type[1] /\ o[2] = channels /\ Len(o) = 4 /\ DOMAIN o = 1 .. 4
      /\ o = <<o[1], o[2], o[3], o[4]>>
  BY DEF SlidingOut
<1>6. /\ reference = <<t.shape[1], meant, reference[3], reference[4]>>
      /\ defined =>
            /\ t.type[1] = t.shape[1] /\ channels >= 0 /\ channels # Dynamic
            /\ o[3] \in Nat /\ o[4] \in Nat
            /\ W1 /\ o[3] > 0 => o[3] = reference[3]
            /\ W2 /\ o[4] > 0 => o[4] = reference[4]
      /\ t.type = t.shape /\ channels > 0 /\ reference[3] > 0 /\ reference[4] > 0 =>
            wellDefined /\ o[3] = reference[3] /\ o[4] = reference[4] /\ W1 /\ W2
  BY SlidingSizes
<1>7. inside <=> W1 /\ W2
  BY Zenon DEF SlidingInside
<1> HIDE DEF padded, o, fits, wellDefined, inside, reference, W1, W2
<1>8. /\ padded.shape[1] = t.shape[1] /\ padded.shape[2] = t.shape[2] /\ Len(padded.type) = 4
      /\ padded.shape[3] = t.shape[3] + win.pads[1] + win.pads[3]
      /\ padded.shape[4] = t.shape[4] + win.pads[2] + win.pads[4]
  BY <1>2, Zenon DEF IsPadded
<1>9. \A i \in 1 .. 4 : padded.shape[i] \in Int /\ padded.shape[i] > 0
  <2>1. padded.shape[3] \in Int /\ padded.shape[3] > 0
    <3>1. t.shape[3] \in Int /\ t.shape[3] > 0 /\ win.pads[1] \in Nat /\ win.pads[3] \in Nat
      BY <1>1, <1>3
    <3> QED  BY <1>8, <3>1
  <2>2. padded.shape[4] \in Int /\ padded.shape[4] > 0
    <3>1. t.shape[4] \in Int /\ t.shape[4] > 0 /\ win.pads[2] \in Nat /\ win.pads[4] \in Nat
      BY <1>1, <1>3
    <3> QED  BY <1>8, <3>1
  <2>3. padded.shape[1] \in Int /\ padded.shape[1] > 0 /\ padded.shape[2] \in Int /\ padded.shape[2] > 0
    BY <1>1, <1>8
  <2> QED  BY <1>4, <2>1, <2>2, <2>3
<1>10. t.shape[1] \in Int /\ t.shape[1] > 0
  BY <1>1
<1>11. ASSUME defined
       PROVE  /\ o \in Lists(0) /\ Len(o) = 4 /\ channels = meant
              /\ o[1] = t.shape[1] /\ o[2] = meant /\ t.type[1] = t.shape[1]
  <2>1. o[1] = t.shape[1] /\ o[2] = meant /\ o[3] \in Nat /\ o[4] \in Nat /\ channels = meant
    BY <1>5, <1>6, <1>11
  <2>2. <<o[1], o[2], o[3], o[4]>> \in Lists(0)
    BY <1>10, <2>1, LongList
  <2> QED  BY <1>5, <1>6, <1>11, <2>1, <2>2
<1>12. Full(Constant(o)) <=> \A i \in 1 .. 4 : o[i] # 0
  <2>1. Constant(o).shape = o
    BY DEF Constant
  <2> QED  BY <1>5, <2>1 DEF Full, ToSet
<1>13. ASSUME defined, inside, Full(Constant(o))
       PROVE  IsTensor(Constant(o)) /\ o = reference /\ reference # Invalid
  <2>1. o[3] \in Nat /\ o[4] \in Nat /\ o[3] > 0 /\ o[4] > 0 /\ o[1] = t.shape[1] /\ o[2] = meant
    BY <1>6, <1>11, <1>12, <1>13
  <2>2. o[3] = reference[3] /\ o[4] = reference[4]
    BY <1>6, <1>7, <1>13, <2>1
  <2>3. o = reference
    BY <1>5, <1>6, <2>1, <2>2, Zenon
  <2>4. <<o[1], o[2], o[3], o[4]>> \in Lists(1) /\ <<o[1], o[2], o[3], o[4]>> # Invalid
    BY <1>10, <2>1, LongList
  <2>5. o \in Lists(1) /\ o # Invalid
    BY <1>5, <2>4, Zenon
  <2> QED  BY <2>3, <2>5, ConstantIsTensor
<1>14. ASSUME t.type = t.shape, channels = meant, reference[3] > 0, reference[4] > 0
       PROVE  wellDefined
  BY <1>6, <1>14
<1>15. ASSUME defined, t.type = t.shape, reference[3] > 0, reference[4] > 0
       PROVE  inside /\ Full(Constant(o))
  <2>1. inside /\ o[3] = reference[3] /\ o[4] = reference[4]
    BY <1>6, <1>7, <1>11, <1>15
  <2>2. o[3] \in Nat /\ o[4] \in Nat
    BY <1>6, <1>15
  <2>3. \A i \in 1 .. 4 : o[i] # 0
    BY <1>4, <1>10, <1>11, <1>15, <2>1, <2>2
  <2> QED  BY <1>12, <2>1, <2>3
<1>16. t.type = t.shape => padded.type = padded.shape
  BY <1>2
<1> QED  BY <1>8, <1>9, <1>11, <1>13, <1>14, <1>15, <1>16 DEF padded, o, fits, wellDefined, inside, reference

\* Conv keeps the sizes right.
LEMMA ConvKeeps ==
    ASSUME NEW t, IsTensor(t), Len(t.type) >= 4, NEW w \in Lists(1), Len(w) >= 4,
           NEW bias \in SUBSET Lists(1), NEW win, IsWindows(win)
    PROVE  LET reference == OnnxConv(t.shape, w, bias, win)
           IN  Keeps(emit_conv(t, Constant(w), {Constant(c) : c \in bias}, win), reference,
                     /\ Len(t.type) = 4 /\ Len(w) = 4
                     /\ reference # Invalid /\ reference[3] > 0 /\ reference[4] > 0,
                     t.type = t.shape)
<1> DEFINE kernel == <<w[3], w[4]>>
           padded == Pad(t, win.pads)
           o == SlidingOut(t, kernel, w[1], win)
           out == Constant(o)
           op == Linalg(<<padded, Constant(w), Constant(o)>>,
                    <<<<Loop(1), Loop(5), Slide(3, win.strides[1], 6, win.dilations[1]),
                                          Slide(4, win.strides[2], 7, win.dilations[2])>>,
                      <<Loop(2), Loop(5), Loop(6), Loop(7)>>, Identity(4)>>)
           rank == Op(Len(t.type) = 4, TRUE)
           e == emit_conv(t, Constant(w), {Constant(c) : c \in bias}, win)
           sliding == OnnxSliding(t.shape, kernel, w[1], win)
           reference == OnnxConv(t.shape, w, bias, win)
           supported == /\ Len(t.type) = 4 /\ Len(w) = 4
                        /\ reference # Invalid /\ reference[3] > 0 /\ reference[4] > 0
           inside == SlidingInside(t, kernel, o, win)
           fits == SlidingFits(t, kernel, win)
           wellDefined == SlidingDefined(t, kernel, w[1], win)
<1>1. /\ e.fits = fits /\ e.defined = wellDefined /\ e.result = out
      /\ e.ops = {rank, op} \cup {AddBias(out, Constant(c)) : c \in bias}
  <2> DEFINE ops == {AddBias(out, c) : c \in {Constant(d) : d \in bias}}
  <2>1. Constant(w).type = w /\ Constant(o).type = o
    BY DEF Constant
  <2>2. e = [Emission(fits, wellDefined, {rank, op}, out) EXCEPT !.ops = @ \cup ops]
    <3> DEFINE f == Constant(w)
               biases == {Constant(c) : c \in bias}
               Convolution(p, q) == Linalg(<<p, f, q>>,
                    <<<<Loop(1), Loop(5), Slide(3, win.strides[1], 6, win.dilations[1]),
                                          Slide(4, win.strides[2], 7, win.dilations[2])>>,
                      <<Loop(2), Loop(5), Loop(6), Loop(7)>>, Identity(4)>>)
               conv == Sliding(t, <<f.type[3], f.type[4]>>, f.type[1], win, Convolution)
               inBounds == \A i \in 1 .. 2 : NoOverflow(Extents(t.type, kernel, win)[i])
                                              /\ NoOverflow(padded.shape[i + 2])
               typed == WellFormed(padded.type) /\ WellFormed(out.type) /\ Static(out.type)
    <3>1. e = [conv EXCEPT !.ops = @ \cup {AddBias(conv.result, c) : c \in biases}]
      BY Zenon DEF emit_conv, e
    <3>2. conv = Sliding(t, kernel, w[1], win, Convolution)
      BY <2>1
    <3>3. Sliding(t, kernel, w[1], win, Convolution) = Emission(inBounds, typed, {rank, op}, out)
      BY Zenon DEF Sliding, SlidingOut
    <3>4. fits = inBounds /\ wellDefined = typed
      BY <2>1, Zenon DEF SlidingFits, SlidingDefined
    <3> HIDE DEF conv, inBounds, typed, fits, wellDefined, rank, op, out, e
    <3>5. conv = Emission(fits, wellDefined, {rank, op}, out)
      BY <3>2, <3>3, <3>4
    <3>6. conv.result = out
      BY <3>5 DEF Emission
    <3> QED  BY <3>1, <3>5, <3>6
  <2>3. ops = {AddBias(out, Constant(c)) : c \in bias}
    <3> HIDE DEF out
    <3> QED  OBVIOUS
  <2> HIDE DEF e, fits, wellDefined, rank, op, out, ops
  <2> QED  BY <2>2, <2>3 DEF Emission
<1>2. \A i \in 1 .. 4 : w[i] \in Int /\ w[i] > 0 /\ w[i] \notin {0, Dynamic}
  <2>1. \A i \in 1 .. 4 : i \in 1 .. Len(w)
    BY ListFacts
  <2>2. \A i \in 1 .. 4 : w[i] \in Int /\ w[i] >= 1
    BY <2>1, ListFacts
  <2> QED  BY <2>2, DynamicFacts
<1>3. kernel[1] = w[3] /\ kernel[2] = w[4]
  OBVIOUS
<1> HIDE DEF e
<1>4. CASE Len(t.type) # 4
  <2>1. ~rank.verified
    BY <1>4 DEF Op
  <2>2. ~AllVerified(e) /\ ~supported
    BY <1>1, <1>4, <2>1 DEF AllVerified
  <2>3. Keeps(e, reference, supported, t.type = t.shape)
    <3> HIDE DEF supported, reference
    <3> QED  BY <2>2 DEF Keeps
  <2> QED  BY <2>3 DEF e
<1>5. CASE Len(t.type) = 4
  <2> DEFINE defined == fits /\ wellDefined
             shapes == <<padded.shape, w, o>>
             types == <<padded.type, w, o>>
             agreeing == w[2] = t.shape[2] /\ inside
  <2>1. /\ \A i \in 1 .. 4 : padded.shape[i] \in Int /\ padded.shape[i] > 0
        /\ padded.shape[1] = t.shape[1] /\ padded.shape[2] = t.shape[2] /\ Len(padded.type) = 4
        /\ t.type = t.shape => padded.type = padded.shape
        /\ defined => o \in Lists(0) /\ Len(o) = 4 /\ o[1] = t.shape[1] /\ o[2] = w[1]
        /\ defined /\ inside /\ Full(out) => IsTensor(out) /\ o = sliding /\ sliding # Invalid
        /\ t.type = t.shape /\ sliding[3] > 0 /\ sliding[4] > 0 => wellDefined
        /\ defined /\ t.type = t.shape /\ sliding[3] > 0 /\ sliding[4] > 0 => inside /\ Full(out)
    <3>1. w[1] \in Int /\ w[1] > 0 /\ w[1] \in {w[1], Dynamic}
      BY <1>2
    <3>2. \A i \in {1, 2} : kernel[i] \in Nat /\ kernel[i] > 0
      <4>1. w[3] \in Nat /\ w[4] \in Nat /\ w[3] > 0 /\ w[4] > 0
        BY <1>2
      <4> HIDE DEF kernel
      <4> QED  BY <1>3, <4>1
    <3> HIDE DEF kernel
    <3> QED  BY <1>5, <3>1, <3>2, SlidingResult
  <2>2. Len(o) = 4
    BY DEF SlidingOut
  <2>3. /\ op.right /\ (\A i \in 1 .. 4 : padded.shape[i] # 0 /\ w[i] # 0 /\ o[i] # 0) =>
              Len(w) = 4 /\ ConvolutionSizes(shapes, win)
        /\ Len(w) = 4 /\ ConvolutionSizes(types, win) => op.verified
        /\ /\ padded.type = padded.shape /\ op.verified /\ o[1] # 0 /\ o[2] # 0
           /\ Len(w) = 4 =>
                \A i \in 1 .. 4 : padded.type[i] \notin {0, Dynamic} /\ w[i] \notin {0, Dynamic} /\ o[i] # Dynamic
           => Len(w) = 4 /\ op.right /\ ConvolutionSizes(shapes, win)
    <3> HIDE DEF padded, o
    <3> QED  BY <2>1, <2>2, ConvolutionOperation
  <2>4. defined => (ConvolutionSizes(shapes, win) <=> agreeing)
    <3>1. shapes[1] = padded.shape /\ shapes[2] = w /\ shapes[3] = o
      OBVIOUS
    <3> HIDE DEF shapes, padded, o, kernel, fits, wellDefined
    <3> QED  BY <1>3, <2>1, <3>1 DEF ConvolutionSizes, SlidingInside, padded
  <2>5. t.type = t.shape => types = shapes
    BY <2>1
  <2>6. ASSUME defined, NEW c \in bias
        PROVE  (AddBias(out, Constant(c)).right <=> c = <<w[1]>>)
               /\ (AddBias(out, Constant(c)).verified <=> c = <<w[1]>>)
    <3>1. o \in Lists(0) /\ Len(o) >= 2 /\ o[2] > 0 /\ o[2] = w[1]
      BY <1>2, <2>1, <2>6
    <3>2. c \in Lists(1)
      OBVIOUS
    <3> HIDE DEF o
    <3> QED  BY <3>1, <3>2, AddBiasFacts
  <2>7. reference = IF t.shape[2] = w[2] /\ \A c \in bias : c = <<w[1]>> THEN sliding ELSE Invalid
    BY DEF OnnxConv
  <2>8. rank.verified /\ rank.right
    BY <1>5 DEF Op
  <2>9. Full(out) => \A i \in 1 .. 4 : o[i] # 0
    <3>1. out.shape = o /\ DOMAIN o = 1 .. 4
      BY DEF Constant, SlidingOut
    <3> HIDE DEF out, o
    <3> QED  BY <3>1 DEF Full, ToSet
  <2>10. out.type = out.shape /\ out.shape = o
    BY DEF Constant
  <2>11. wellDefined => \A i \in 1 .. 4 : o[i] # Dynamic
    <3>1. DOMAIN o = 1 .. 4
      BY DEF SlidingOut
    <3> HIDE DEF o
    <3> QED  BY <3>1 DEF SlidingDefined, Static, o
  <2>12. \A i \in 1 .. 4 : padded.shape[i] \notin {0, Dynamic}
    <3> HIDE DEF padded
    <3> QED  BY <2>1, DynamicFacts
  <2>13. t.shape[1] # 0 /\ w[1] # 0
    BY <1>2, <2>1, <2>12
  <2> HIDE DEF padded, o, out, op, rank, sliding, reference, inside, fits, wellDefined, shapes, types, kernel
  <2>14. ASSUME defined, AllRight(e), Full(out)
         PROVE  IsTensor(out) /\ o = reference /\ reference # Invalid
    <3>1. op.right /\ \A c \in bias : AddBias(out, Constant(c)).right
      BY <1>1, <2>14 DEF AllRight
    <3>2. agreeing
      BY <1>2, <2>3, <2>4, <2>9, <2>12, <2>14, <3>1
    <3>3. \A c \in bias : c = <<w[1]>>
      BY <2>6, <2>14, <3>1
    <3> QED  BY <2>1, <2>7, <2>14, <3>2, <3>3
  <2>15. ASSUME t.type = t.shape, defined, AllVerified(e)
         PROVE  AllRight(e)
    <3>1. op.verified /\ \A c \in bias : AddBias(out, Constant(c)).verified
      BY <1>1, <2>15 DEF AllVerified
    <3>2. op.right
      BY <1>2, <2>1, <2>3, <2>11, <2>12, <2>13, <2>15, <3>1
    <3>3. \A c \in bias : AddBias(out, Constant(c)).right
      BY <2>6, <2>15, <3>1
    <3> QED  BY <1>1, <2>8, <3>2, <3>3 DEF AllRight
  <2>16. ASSUME t.type = t.shape, supported, fits
         PROVE  wellDefined /\ AllVerified(e) /\ Full(out)
    <3>1. reference = sliding /\ t.shape[2] = w[2] /\ \A c \in bias : c = <<w[1]>>
      BY <2>7, <2>16
    <3>2. defined /\ inside /\ Full(out)
      BY <2>1, <2>16, <3>1
    <3>3. op.verified
      BY <2>3, <2>4, <2>5, <2>16, <3>1, <3>2
    <3>4. \A c \in bias : AddBias(out, Constant(c)).verified
      BY <2>6, <3>1, <3>2
    <3> QED  BY <1>1, <2>8, <3>2, <3>3, <3>4 DEF AllVerified
  <2>17. Keeps(e, reference, supported, t.type = t.shape)
    <3> HIDE DEF supported
    <3> QED  BY <1>1, <2>10, <2>14, <2>15, <2>16 DEF Keeps
  <2> QED  BY <2>17 DEF e, reference
<1> QED  BY <1>4, <1>5

\* The maps of linalg.pooling_nchw_max.
IsPooling(maps, win) ==
    /\ DOMAIN maps = {1, 2, 3} /\ DOMAIN maps[1] = 1 .. 4 /\ DOMAIN maps[2] = 1 .. 2 /\ DOMAIN maps[3] = 1 .. 4
    /\ maps[1][1] = Loop(1) /\ maps[1][2] = Loop(2)
    /\ maps[1][3] = Slide(3, win.strides[1], 5, win.dilations[1])
    /\ maps[1][4] = Slide(4, win.strides[2], 6, win.dilations[2])
    /\ maps[2][1] = Loop(5) /\ maps[2][2] = Loop(6)
    /\ \A i \in 1 .. 4 : maps[3][i] = Loop(i)

LEMMA PoolingRanges ==
    ASSUME NEW dims, NEW maps, NEW win, IsPooling(maps, win)
    PROVE  LET range == Ranges(dims, maps)
           IN  /\ DOMAIN range = 1 .. 6
               /\ range[1] = dims[1][1] /\ range[2] = dims[1][2]
               /\ range[5] = dims[2][1] /\ range[6] = dims[2][2]
               /\ range[3] = dims[3][3] /\ range[4] = dims[3][4]
<1> DEFINE range == Ranges(dims, maps)
<1>1. /\ DOMAIN maps = {1, 2, 3} /\ DOMAIN maps[1] = 1 .. 4 /\ DOMAIN maps[2] = 1 .. 2 /\ DOMAIN maps[3] = 1 .. 4
      /\ maps[1][1] = Loop(1) /\ maps[1][2] = Loop(2)
      /\ maps[2][1] = Loop(5) /\ maps[2][2] = Loop(6)
      /\ \A i \in 1 .. 4 : maps[3][i] = Loop(i)
  BY DEF IsPooling
<1>2. \A l : maps[1][3] # Loop(l) /\ maps[1][4] # Loop(l)
  BY SlideFacts DEF IsPooling
<1>3. maps[1][3].loop = 3 /\ maps[1][3].plus = 5 /\ maps[1][4].loop = 4 /\ maps[1][4].plus = 6
  BY SlideFacts DEF IsPooling
<1>4. IsMaps(maps)
  BY <1>1 DEF IsMaps
<1>5. \A k, l : k # 0 => (Loop(k) = Loop(l) <=> k = l)
  BY LoopFacts
<1>6. (\A i \in 1 .. 4 : i = 1 \/ i = 2 \/ i = 3 \/ i = 4) /\ (\A i \in 1 .. 2 : i = 1 \/ i = 2)
  OBVIOUS
\* Where a loop is first alone.
<1>7. ASSUME NEW l \in 1 .. 6, NEW q \in {1, 2, 3}, NEW j \in DOMAIN maps[q], maps[q][j] = Loop(l)
      PROVE  \/ <<q, j, l>> \in {<<1, 1, 1>>, <<1, 2, 2>>, <<2, 1, 5>>, <<2, 2, 6>>}
             \/ q = 3 /\ j = l
  BY <1>1, <1>2, <1>5, <1>6, <1>7
<1>8. ASSUME NEW l \in 1 .. 6, NEW p \in {1, 2, 3}, NEW i \in DOMAIN maps[p],
             <<l, p, i>> \in {<<1, 1, 1>>, <<2, 1, 2>>, <<5, 2, 1>>, <<6, 2, 2>>, <<3, 3, 3>>, <<4, 3, 4>>}
      PROVE  l \in DOMAIN range /\ range[l] = dims[p][i]
  <2>1. maps[p][i] = Loop(l)
    BY <1>1, <1>8
  <2>2. ASSUME NEW q \in {1, 2, 3}, NEW j \in DOMAIN maps[q], maps[q][j] = Loop(l)
        PROVE  p < q \/ (p = q /\ i <= j)
    BY <1>7, <1>8, <2>2
  <2>3. \A q \in DOMAIN maps : \A j \in DOMAIN maps[q] :
            maps[q][j] = Loop(l) => p < q \/ (p = q /\ i <= j)
    BY <1>1, <2>2
  <2>4. p \in DOMAIN maps
    BY <1>1
  <2> QED  BY <1>4, <2>1, <2>3, <2>4, RangeIs
<1>9. /\ 1 \in DOMAIN range /\ range[1] = dims[1][1] /\ 2 \in DOMAIN range /\ range[2] = dims[1][2]
      /\ 5 \in DOMAIN range /\ range[5] = dims[2][1] /\ 6 \in DOMAIN range /\ range[6] = dims[2][2]
      /\ 3 \in DOMAIN range /\ range[3] = dims[3][3] /\ 4 \in DOMAIN range /\ range[4] = dims[3][4]
  <2> HIDE DEF range
  <2> QED  BY <1>1, <1>8
<1>10. ASSUME NEW l \in DOMAIN range PROVE l \in 1 .. 6
  <2>1. PICK p \in {1, 2, 3} : \E i \in DOMAIN maps[p] : maps[p][i].loop = l \/ (maps[p][i].plus = l /\ l # 0)
    BY <1>1, RangeDomain
  <2>2. PICK i \in DOMAIN maps[p] : maps[p][i].loop = l \/ (maps[p][i].plus = l /\ l # 0)
    BY <2>1
  <2>3. \A k : Loop(k).loop = k /\ Loop(k).plus = 0
    BY DEF Loop
  <2> QED  BY <1>1, <1>3, <1>6, <2>2, <2>3
<1> HIDE DEF range
<1>11. DOMAIN range = 1 .. 6
  <2>1. \A l \in 1 .. 6 : l = 1 \/ l = 2 \/ l = 3 \/ l = 4 \/ l = 5 \/ l = 6
    OBVIOUS
  <2> QED  BY <1>9, <1>10, <2>1
<1> QED  BY <1>9, <1>11 DEF range

\* Sizes that suit linalg.pooling_nchw_max.
PoolingSizes(dims, win) ==
    /\ dims[3][1] = dims[1][1] /\ dims[3][2] = dims[1][2]
    /\ Window(dims[1][3], dims[3][3], dims[2][1], win.strides[1], win.dilations[1])
    /\ Window(dims[1][4], dims[3][4], dims[2][2], win.strides[2], win.dilations[2])

LEMMA PoolingFacts ==
    ASSUME NEW dims, NEW maps, NEW win, IsPooling(maps, win)
    PROVE  /\ PoolingSizes(dims, win) => Verified(dims, maps) /\ Right(dims, maps)
           /\ /\ Right(dims, maps)
              /\ \A p \in {1, 2, 3} : \A i \in DOMAIN maps[p] : dims[p][i] # 0
              => PoolingSizes(dims, win)
           /\ /\ Verified(dims, maps)
              /\ \A p \in {1, 2, 3} : \A i \in DOMAIN maps[p] : dims[p][i] # Dynamic
              /\ \A p \in {1, 2} : \A i \in DOMAIN maps[p] : dims[p][i] # 0
              /\ dims[3][1] # 0 /\ dims[3][2] # 0
              => PoolingSizes(dims, win)
<1> DEFINE range == Ranges(dims, maps)
<1>1. /\ DOMAIN maps = {1, 2, 3} /\ DOMAIN maps[1] = 1 .. 4 /\ DOMAIN maps[2] = 1 .. 2 /\ DOMAIN maps[3] = 1 .. 4
      /\ maps[1][1] = Loop(1) /\ maps[1][2] = Loop(2)
      /\ maps[1][3] = Slide(3, win.strides[1], 5, win.dilations[1])
      /\ maps[1][4] = Slide(4, win.strides[2], 6, win.dilations[2])
      /\ maps[2][1] = Loop(5) /\ maps[2][2] = Loop(6)
      /\ maps[3][1] = Loop(1) /\ maps[3][2] = Loop(2) /\ maps[3][3] = Loop(3) /\ maps[3][4] = Loop(4)
  BY DEF IsPooling
<1>2. /\ DOMAIN range = 1 .. 6
      /\ range[1] = dims[1][1] /\ range[2] = dims[1][2]
      /\ range[5] = dims[2][1] /\ range[6] = dims[2][2]
      /\ range[3] = dims[3][3] /\ range[4] = dims[3][4]
  BY PoolingRanges
<1> HIDE DEF range
<1>3. \A size, k : Matches(size, Loop(k), range) <=> size = range[k]
  BY LoopMatches
<1>4. /\ Matches(dims[1][3], maps[1][3], range)
             <=> Window(dims[1][3], dims[3][3], dims[2][1], win.strides[1], win.dilations[1])
      /\ Matches(dims[1][4], maps[1][4], range)
             <=> Window(dims[1][4], dims[3][4], dims[2][2], win.strides[2], win.dilations[2])
  <2>1. \A l, by, plus, step, size : plus # 0 =>
            (Matches(size, Slide(l, by, plus, step), range) <=> Window(size, range[l], range[plus], by, step))
    BY SlideFacts
  <2>2. /\ Matches(dims[1][3], maps[1][3], range)
               <=> Window(dims[1][3], range[3], range[5], win.strides[1], win.dilations[1])
        /\ Matches(dims[1][4], maps[1][4], range)
               <=> Window(dims[1][4], range[4], range[6], win.strides[2], win.dilations[2])
    BY <1>1, <2>1
  <2> QED  BY <1>2, <2>2
<1>5. (\A i \in 1 .. 4 : i = 1 \/ i = 2 \/ i = 3 \/ i = 4) /\ (\A i \in 1 .. 2 : i = 1 \/ i = 2)
  OBVIOUS
<1>6. /\ Matches(dims[1][1], maps[1][1], range) /\ Matches(dims[1][2], maps[1][2], range)
      /\ Matches(dims[2][1], maps[2][1], range) /\ Matches(dims[2][2], maps[2][2], range)
      /\ Matches(dims[3][3], maps[3][3], range) /\ Matches(dims[3][4], maps[3][4], range)
      /\ (Matches(dims[3][1], maps[3][1], range) <=> dims[3][1] = dims[1][1])
      /\ (Matches(dims[3][2], maps[3][2], range) <=> dims[3][2] = dims[1][2])
  BY <1>1, <1>2, <1>3
<1>7. AllMatch(dims, maps) <=> PoolingSizes(dims, win)
  <2>1. AllMatch(dims, maps) <=>
            /\ \A i \in 1 .. 4 : Matches(dims[1][i], maps[1][i], range)
            /\ \A i \in 1 .. 2 : Matches(dims[2][i], maps[2][i], range)
            /\ \A i \in 1 .. 4 : Matches(dims[3][i], maps[3][i], range)
    BY <1>1 DEF AllMatch, range
  <2>2. /\ (\A i \in 1 .. 4 : Matches(dims[1][i], maps[1][i], range)) <=>
               Matches(dims[1][3], maps[1][3], range) /\ Matches(dims[1][4], maps[1][4], range)
        /\ \A i \in 1 .. 2 : Matches(dims[2][i], maps[2][i], range)
        /\ (\A i \in 1 .. 4 : Matches(dims[3][i], maps[3][i], range)) <=>
               Matches(dims[3][1], maps[3][1], range) /\ Matches(dims[3][2], maps[3][2], range)
    BY <1>5, <1>6
  <2> QED  BY <1>4, <1>6, <2>1, <2>2 DEF PoolingSizes
<1>8. ASSUME Right(dims, maps), \A p \in {1, 2, 3} : \A i \in DOMAIN maps[p] : dims[p][i] # 0
      PROVE  PoolingSizes(dims, win)
  <2>1. \A l \in DOMAIN range : range[l] # 0
    <3>1. \A l \in 1 .. 6 : l = 1 \/ l = 2 \/ l = 3 \/ l = 4 \/ l = 5 \/ l = 6
      OBVIOUS
    <3>2. 1 \in 1 .. 4 /\ 2 \in 1 .. 4 /\ 3 \in 1 .. 4 /\ 4 \in 1 .. 4 /\ 1 \in 1 .. 2 /\ 2 \in 1 .. 2
      OBVIOUS
    <3> QED  BY <1>1, <1>2, <1>8, <3>1, <3>2
  <2> QED  BY <1>7, <1>8, <2>1, MatchFacts DEF range
<1>9. ASSUME Verified(dims, maps),
             \A p \in {1, 2, 3} : \A i \in DOMAIN maps[p] : dims[p][i] # Dynamic,
             \A p \in {1, 2} : \A i \in DOMAIN maps[p] : dims[p][i] # 0, dims[3][1] # 0, dims[3][2] # 0
      PROVE  PoolingSizes(dims, win)
  <2>1. \A l \in DOMAIN range : range[l] # Dynamic
    <3>1. \A l \in 1 .. 6 : l = 1 \/ l = 2 \/ l = 3 \/ l = 4 \/ l = 5 \/ l = 6
      OBVIOUS
    <3>2. 1 \in 1 .. 4 /\ 2 \in 1 .. 4 /\ 3 \in 1 .. 4 /\ 4 \in 1 .. 4 /\ 1 \in 1 .. 2 /\ 2 \in 1 .. 2
      OBVIOUS
    <3> QED  BY <1>1, <1>2, <1>9, <3>1, <3>2
  <2>2. /\ \A i \in DOMAIN maps[1] : dims[1][i] \notin {Dynamic, 0}
        /\ \A i \in DOMAIN maps[2] : dims[2][i] \notin {Dynamic, 0}
        /\ \A i \in 1 .. 4 : dims[3][i] \notin {Dynamic, 0} \/ Matches(dims[3][i], maps[3][i], range)
    BY <1>1, <1>5, <1>6, <1>9
  <2>3. \A p \in DOMAIN maps : \A i \in DOMAIN maps[p] :
            dims[p][i] \notin {Dynamic, 0} \/ Matches(dims[p][i], maps[p][i], range)
    BY <1>1, <2>2
  <2> QED  BY <1>7, <1>9, <2>1, <2>3, MatchFacts DEF range
<1>10. PoolingSizes(dims, win) => Verified(dims, maps) /\ Right(dims, maps)
  BY <1>7, MatchFacts
<1> QED  BY <1>8, <1>9, <1>10

\* linalg.pooling_nchw_max on a padded tensor, a kernel and the output slot.
LEMMA PoolingOperation ==
    ASSUME NEW a, Len(a.type) = 4, NEW kernel, Len(kernel) = 2, NEW o, Len(o) = 4, NEW win
    PROVE  LET op == Linalg(<<a, Constant(kernel), Constant(o)>>,
                        <<<<Loop(1), Loop(2), Slide(3, win.strides[1], 5, win.dilations[1]),
                                              Slide(4, win.strides[2], 6, win.dilations[2])>>,
                          <<Loop(5), Loop(6)>>, Identity(4)>>)
               types  == <<a.type, kernel, o>>
               shapes == <<a.shape, kernel, o>>
           IN  /\ /\ op.right
                  /\ \A i \in 1 .. 4 : a.shape[i] # 0 /\ o[i] # 0
                  /\ \A i \in 1 .. 2 : kernel[i] # 0
                  => PoolingSizes(shapes, win)
               /\ PoolingSizes(types, win) => op.verified
               /\ /\ a.type = a.shape /\ op.verified /\ o[1] # 0 /\ o[2] # 0
                  /\ \A i \in 1 .. 4 : a.type[i] \notin {0, Dynamic} /\ o[i] # Dynamic
                  /\ \A i \in 1 .. 2 : kernel[i] \notin {0, Dynamic}
                  => op.right /\ PoolingSizes(shapes, win)
<1> DEFINE first == <<Loop(1), Loop(2), Slide(3, win.strides[1], 5, win.dilations[1]),
                                        Slide(4, win.strides[2], 6, win.dilations[2])>>
           second == <<Loop(5), Loop(6)>>
           maps == <<first, second, Identity(4)>>
           operands == <<a, Constant(kernel), Constant(o)>>
           types == <<a.type, kernel, o>>
           shapes == <<a.shape, kernel, o>>
           op == Linalg(operands, maps)
<1>1. /\ Len(first) = 4 /\ DOMAIN first = 1 .. 4 /\ first[1] = Loop(1) /\ first[2] = Loop(2)
      /\ first[3] = Slide(3, win.strides[1], 5, win.dilations[1])
      /\ first[4] = Slide(4, win.strides[2], 6, win.dilations[2])
  <2> HIDE DEF Loop, Slide
  <2> QED  OBVIOUS
<1>2. Len(second) = 2 /\ DOMAIN second = 1 .. 2 /\ second[1] = Loop(5) /\ second[2] = Loop(6)
  <2> HIDE DEF Loop
  <2> QED  OBVIOUS
<1>3. Len(Identity(4)) = 4 /\ DOMAIN Identity(4) = 1 .. 4 /\ \A i \in 1 .. 4 : Identity(4)[i] = Loop(i)
  <2>1. DOMAIN Identity(4) = 1 .. 4 /\ \A i \in 1 .. 4 : Identity(4)[i] = Loop(i)
    BY DEF Identity
  <2>2. Len(Identity(4)) = 4
    BY IdentityFacts
  <2> QED  BY <2>1, <2>2
<1> HIDE DEF first, second
<1>4. DOMAIN maps = {1, 2, 3} /\ maps[1] = first /\ maps[2] = second /\ maps[3] = Identity(4)
  OBVIOUS
<1> HIDE DEF maps
<1>5. IsPooling(maps, win)
  BY <1>1, <1>2, <1>3, <1>4 DEF IsPooling
<1>6. /\ types[1] = a.type /\ types[2] = kernel /\ types[3] = o
      /\ shapes[1] = a.shape /\ shapes[2] = kernel /\ shapes[3] = o
  OBVIOUS
<1>7. [p \in DOMAIN operands |-> operands[p].type] = types
      /\ [p \in DOMAIN operands |-> operands[p].shape] = shapes
  <2>1. /\ Constant(kernel).type = kernel /\ Constant(kernel).shape = kernel
        /\ Constant(o).type = o /\ Constant(o).shape = o
    BY DEF Constant
  <2> QED  BY <2>1
<1> HIDE DEF operands, types, shapes
<1>8. op = Op(Verified(types, maps), Right(shapes, maps))
  <2>1. op = IF \E p \in DOMAIN maps : Len(types[p]) # Len(maps[p]) THEN Op(FALSE, FALSE)
             ELSE Op(Verified(types, maps), Right(shapes, maps))
    BY <1>7 DEF Linalg
  <2>2. ~\E p \in DOMAIN maps : Len(types[p]) # Len(maps[p])
    BY <1>1, <1>2, <1>3, <1>4, <1>6
  <2> HIDE DEF op
  <2> QED  BY <2>1, <2>2
<1>9. (op.verified <=> Verified(types, maps)) /\ (op.right <=> Right(shapes, maps))
  BY <1>8 DEF Op
<1> HIDE DEF op
<1>10. \A p \in {1, 2, 3} : p = 1 \/ p = 2 \/ p = 3
  OBVIOUS
<1>11. DOMAIN maps[1] = 1 .. 4 /\ DOMAIN maps[2] = 1 .. 2 /\ DOMAIN maps[3] = 1 .. 4
  BY <1>1, <1>2, <1>3, <1>4
<1>12. ASSUME op.right, \A i \in 1 .. 4 : a.shape[i] # 0 /\ o[i] # 0, \A i \in 1 .. 2 : kernel[i] # 0
       PROVE  PoolingSizes(shapes, win)
  <2>1. \A p \in {1, 2, 3} : \A i \in DOMAIN maps[p] : shapes[p][i] # 0
    BY <1>6, <1>10, <1>11, <1>12
  <2> QED  BY <1>5, <1>9, <1>12, <2>1, PoolingFacts
<1>13. ASSUME PoolingSizes(types, win)
       PROVE  op.verified
  BY <1>5, <1>9, <1>13, PoolingFacts
<1>14. ASSUME a.type = a.shape, op.verified, o[1] # 0, o[2] # 0,
              \A i \in 1 .. 4 : a.type[i] \notin {0, Dynamic} /\ o[i] # Dynamic,
              \A i \in 1 .. 2 : kernel[i] \notin {0, Dynamic}
       PROVE  op.right /\ PoolingSizes(shapes, win)
  <2>1. Verified(types, maps)
    BY <1>9, <1>14
  <2>2. types = shapes
    BY <1>14 DEF types, shapes
  <2>3. /\ \A p \in {1, 2, 3} : \A i \in DOMAIN maps[p] : types[p][i] # Dynamic
        /\ \A p \in {1, 2} : \A i \in DOMAIN maps[p] : types[p][i] # 0
        /\ types[3][1] # 0 /\ types[3][2] # 0
    BY <1>6, <1>10, <1>11, <1>14
  <2>4. PoolingSizes(types, win)
    BY <1>5, <2>1, <2>3, PoolingFacts
  <2>5. Right(types, maps)
    BY <1>5, <2>4, PoolingFacts
  <2> QED  BY <1>9, <2>2, <2>4, <2>5
<1> QED  BY <1>12, <1>13, <1>14 DEF op, operands, maps, first, second, types, shapes

\* MaxPool keeps the sizes right.
LEMMA MaxpoolKeeps ==
    ASSUME NEW t, IsTensor(t), Len(t.type) >= 4, NEW kernel \in Lists(1), Len(kernel) = 2,
           NEW win, IsWindows(win)
    PROVE  LET reference == OnnxSliding(t.shape, kernel, t.shape[2], win)
           IN  Keeps(emit_maxpool(t, kernel, win), reference,
                     Len(t.type) = 4 /\ reference[3] > 0 /\ reference[4] > 0, t.type = t.shape)
<1> DEFINE padded == Pad(t, win.pads)
           channels == t.type[2]
           o == SlidingOut(t, kernel, channels, win)
           out == Constant(o)
           op == Linalg(<<padded, Constant(kernel), Constant(o)>>,
                    <<<<Loop(1), Loop(2), Slide(3, win.strides[1], 5, win.dilations[1]),
                                          Slide(4, win.strides[2], 6, win.dilations[2])>>,
                      <<Loop(5), Loop(6)>>, Identity(4)>>)
           rank == Op(Len(t.type) = 4, TRUE)
           e == emit_maxpool(t, kernel, win)
           reference == OnnxSliding(t.shape, kernel, t.shape[2], win)
           supported == Len(t.type) = 4 /\ reference[3] > 0 /\ reference[4] > 0
           inside == SlidingInside(t, kernel, o, win)
           fits == SlidingFits(t, kernel, win)
           wellDefined == SlidingDefined(t, kernel, channels, win)
<1>1. e.fits = fits /\ e.defined = wellDefined /\ e.result = out /\ e.ops = {rank, op}
  <2> DEFINE Pooling(p, q) == Linalg(<<p, Constant(kernel), q>>,
                 <<<<Loop(1), Loop(2), Slide(3, win.strides[1], 5, win.dilations[1]),
                                       Slide(4, win.strides[2], 6, win.dilations[2])>>,
                   <<Loop(5), Loop(6)>>, Identity(4)>>)
             inBounds == \A i \in 1 .. 2 : NoOverflow(Extents(t.type, kernel, win)[i])
                                            /\ NoOverflow(padded.shape[i + 2])
             typed == WellFormed(padded.type) /\ WellFormed(out.type) /\ Static(out.type)
  <2>1. e = Sliding(t, kernel, channels, win, Pooling)
    BY Zenon DEF emit_maxpool
  <2>2. Sliding(t, kernel, channels, win, Pooling) = Emission(inBounds, typed, {rank, op}, out)
    BY Zenon DEF Sliding, SlidingOut
  <2>3. Constant(o).type = o
    BY DEF Constant
  <2>4. fits = inBounds /\ wellDefined = typed
    BY <2>3, Zenon DEF SlidingFits, SlidingDefined
  <2> HIDE DEF inBounds, typed, fits, wellDefined, rank, op, out, e
  <2>5. e = Emission(fits, wellDefined, {rank, op}, out)
    BY <2>1, <2>2, <2>4
  <2> QED  BY <2>5 DEF Emission
<1>2. /\ kernel[1] \in Int /\ kernel[1] > 0 /\ kernel[2] \in Int /\ kernel[2] > 0
      /\ \A i \in 1 .. 2 : kernel[i] \notin {0, Dynamic}
  <2>1. kernel \in Seq(Int) /\ \A i \in DOMAIN kernel : kernel[i] >= 1
    BY Zenon DEF Lists
  <2>2. \A i \in 1 .. 2 : kernel[i] \in Int /\ kernel[i] >= 1
    BY <2>1, Entries, Zenon
  <2> QED  BY <2>2, DynamicFacts
<1> HIDE DEF e
<1>3. CASE Len(t.type) # 4
  <2>1. ~rank.verified
    BY <1>3 DEF Op
  <2>2. ~AllVerified(e) /\ ~supported
    BY <1>1, <1>3, <2>1 DEF AllVerified
  <2>3. Keeps(e, reference, supported, t.type = t.shape)
    <3> HIDE DEF supported, reference
    <3> QED  BY <2>2 DEF Keeps
  <2> QED  BY <2>3 DEF e
<1>4. CASE Len(t.type) = 4
  <2> DEFINE defined == fits /\ wellDefined
             shapes == <<padded.shape, kernel, o>>
             types == <<padded.type, kernel, o>>
  <2>1. t.type[2] \in Int /\ t.shape[2] \in Int /\ t.shape[2] > 0 /\ t.type[2] \in {t.shape[2], Dynamic}
        /\ (t.type = t.shape => t.type[2] = t.shape[2])
    BY <1>4, TensorFacts
  <2>2. /\ \A i \in 1 .. 4 : padded.shape[i] \in Int /\ padded.shape[i] > 0
        /\ padded.shape[1] = t.shape[1] /\ padded.shape[2] = t.shape[2] /\ Len(padded.type) = 4
        /\ t.type = t.shape => padded.type = padded.shape
        /\ defined => o \in Lists(0) /\ Len(o) = 4 /\ o[1] = t.shape[1] /\ o[2] = t.shape[2]
        /\ defined /\ inside /\ Full(out) => IsTensor(out) /\ o = reference /\ reference # Invalid
        /\ t.type = t.shape /\ channels = t.shape[2] /\ reference[3] > 0 /\ reference[4] > 0 => wellDefined
        /\ defined /\ t.type = t.shape /\ reference[3] > 0 /\ reference[4] > 0 => inside /\ Full(out)
    <3>1. \A i \in {1, 2} : kernel[i] \in Nat /\ kernel[i] > 0
      BY <1>2
    <3> QED  BY <1>4, <2>1, <3>1, SlidingResult
  <2>3. Len(o) = 4
    BY DEF SlidingOut
  <2>4. /\ /\ op.right
           /\ \A i \in 1 .. 4 : padded.shape[i] # 0 /\ o[i] # 0
           /\ \A i \in 1 .. 2 : kernel[i] # 0
           => PoolingSizes(shapes, win)
        /\ PoolingSizes(types, win) => op.verified
        /\ /\ padded.type = padded.shape /\ op.verified /\ o[1] # 0 /\ o[2] # 0
           /\ \A i \in 1 .. 4 : padded.type[i] \notin {0, Dynamic} /\ o[i] # Dynamic
           /\ \A i \in 1 .. 2 : kernel[i] \notin {0, Dynamic}
           => op.right /\ PoolingSizes(shapes, win)
    <3> HIDE DEF padded, o
    <3> QED  BY <2>2, <2>3, PoolingOperation
  <2>5. defined => (PoolingSizes(shapes, win) <=> inside)
    <3>1. shapes[1] = padded.shape /\ shapes[2] = kernel /\ shapes[3] = o
      OBVIOUS
    <3> HIDE DEF shapes, padded, o, fits, wellDefined
    <3> QED  BY <2>2, <3>1 DEF PoolingSizes, SlidingInside, padded
  <2>6. t.type = t.shape => types = shapes
    BY <2>2
  <2>7. rank.verified /\ rank.right
    BY <1>4 DEF Op
  <2>8. Full(out) => \A i \in 1 .. 4 : o[i] # 0
    <3>1. out.shape = o /\ DOMAIN o = 1 .. 4
      BY DEF Constant, SlidingOut
    <3> HIDE DEF out, o
    <3> QED  BY <3>1 DEF Full, ToSet
  <2>9. out.type = out.shape /\ out.shape = o
    BY DEF Constant
  <2>10. wellDefined => \A i \in 1 .. 4 : o[i] # Dynamic
    <3>1. DOMAIN o = 1 .. 4
      BY DEF SlidingOut
    <3> HIDE DEF o
    <3> QED  BY <3>1 DEF SlidingDefined, Static, o
  <2>11. \A i \in 1 .. 4 : padded.shape[i] \notin {0, Dynamic}
    <3> HIDE DEF padded
    <3> QED  BY <2>2, DynamicFacts
  <2>12. t.shape[1] # 0 /\ t.shape[2] # 0
    BY <2>2, <2>11
  <2> HIDE DEF padded, o, out, op, rank, reference, inside, fits, wellDefined, shapes, types, channels
  <2>13. ASSUME defined, AllRight(e), Full(out)
         PROVE  IsTensor(out) /\ o = reference /\ reference # Invalid
    <3>1. op.right
      BY <1>1, <2>13 DEF AllRight
    <3>2. inside
      BY <1>2, <2>4, <2>5, <2>8, <2>11, <2>13, <3>1
    <3> QED  BY <2>2, <2>13, <3>2
  <2>14. ASSUME t.type = t.shape, defined, AllVerified(e)
         PROVE  AllRight(e)
    <3>1. op.verified
      BY <1>1, <2>14 DEF AllVerified
    <3>2. op.right
      BY <1>2, <2>2, <2>4, <2>10, <2>11, <2>12, <2>14, <3>1
    <3> QED  BY <1>1, <2>7, <3>2 DEF AllRight
  <2>15. ASSUME t.type = t.shape, supported, fits
         PROVE  wellDefined /\ AllVerified(e) /\ Full(out)
    <3>1. channels = t.shape[2]
      BY <2>1, <2>15 DEF channels
    <3>2. defined /\ inside /\ Full(out)
      BY <2>2, <2>15, <3>1
    <3>3. op.verified
      BY <2>4, <2>5, <2>6, <2>15, <3>2
    <3> QED  BY <1>1, <2>7, <3>2, <3>3 DEF AllVerified
  <2>16. Keeps(e, reference, supported, t.type = t.shape)
    <3> HIDE DEF supported
    <3> QED  BY <1>1, <2>9, <2>13, <2>14, <2>15 DEF Keeps
  <2> QED  BY <2>16 DEF e, reference
<1> QED  BY <1>3, <1>4

-----------------------------------------------------------------------------
(* The invariant *)

\* While a chain is compiled, its tensor is one, with ONNX's shape; if all sizes are
\* known it has a static type; and what is supported has no empty tensor.
SizesInv ==
    /\ outcome = "ok" /\ ~empty /\ onnx # Invalid => IsTensor(x) /\ x.shape = onnx
    /\ static /\ ~empty => outcome # "wrong" /\ (outcome = "ok" => onnx # Invalid /\ x.type = x.shape)
    /\ static /\ within /\ onnx # Invalid =>
          outcome \in {"ok", "returned", "overflow"} /\ (outcome = "ok" => ~empty)
    /\ outcome = "returned" /\ ~empty /\ onnx # Invalid =>
          x.shape = Collapsed(onnx) /\ Agrees(x.type, x.shape)

\* The input of the function that is generated is a tensor, unless it is empty.
LEMMA SizesInit == Init => SizesInv
<1> SUFFICES ASSUME Init PROVE SizesInv
  OBVIOUS
<1>1. PICK start \in Starts :
          /\ x = [type |-> value_to_tensor_type(start.dims), shape |-> start.shape]
          /\ onnx = start.shape
          /\ static = (\A i \in DOMAIN start.dims : start.dims[i] > 0)
          /\ empty = (0 \in ToSet(start.shape))
          /\ outcome = "ok" /\ within = TRUE
  BY DEF Init
<1> DEFINE dims == start.dims
           shape == start.shape
           type == value_to_tensor_type(dims)
           n == Len(dims)
<1>2. dims \in Seq(Int) /\ shape \in Lists(0) /\ n = Len(shape)
      /\ \A i \in DOMAIN dims : dims[i] > 0 => shape[i] = dims[i]
  BY StartAssumption
<1> HIDE DEF dims, shape
<1>3. n \in Nat /\ DOMAIN dims = 1 .. n /\ DOMAIN shape = 1 .. n /\ shape \in Seq(Int)
      /\ \A i \in 1 .. n : dims[i] \in Int /\ shape[i] \in Int /\ shape[i] >= 0
  BY <1>2, ListFacts
<1>4. type \in Seq(Int) /\ Len(type) = n /\ DOMAIN type = 1 .. n
      /\ \A i \in 1 .. n : type[i] = IF dims[i] > 0 THEN dims[i] ELSE Dynamic
  <2> HIDE DEF n
  <2>1. type = [i \in 1 .. n |-> IF dims[i] > 0 THEN dims[i] ELSE Dynamic]
    BY <1>3 DEF value_to_tensor_type
  <2>2. \A i \in 1 .. n : (IF dims[i] > 0 THEN dims[i] ELSE Dynamic) \in Int
    BY <1>3, DynamicFacts
  <2> HIDE DEF type
  <2> QED  BY <1>3, <2>1, <2>2
<1> HIDE DEF type, n
<1>5. x.type = type /\ x.shape = shape /\ onnx = shape /\ outcome = "ok"
      /\ (static <=> \A i \in 1 .. n : dims[i] > 0) /\ (empty <=> 0 \in ToSet(shape))
  BY <1>1, <1>3 DEF type, dims, shape
<1>6. ~empty => \A i \in 1 .. n : shape[i] >= 1
  <2>1. 0 \in ToSet(shape) <=> \E i \in 1 .. n : shape[i] = 0
    BY <1>3 DEF ToSet
  <2> QED  BY <1>3, <1>5, <2>1
<1>7. shape # Invalid
  <2>1. 1 \in 1 .. Len(Invalid) /\ Invalid[1] = -1
    BY DEF Invalid
  <2> QED  BY <1>2, <1>3, <2>1
<1>8. \A i \in 1 .. n : type[i] = shape[i] \/ type[i] = Dynamic
  BY <1>2, <1>3, <1>4
<1>9. ~empty => IsTensor(x)
  <2>1. Agrees(type, shape)
    BY <1>2, <1>4, <1>8 DEF Agrees
  <2>2. ~empty => shape \in Lists(1)
    BY <1>3, <1>6 DEF Lists
  <2> QED  BY <1>4, <1>5, <2>1, <2>2 DEF IsTensor
<1>10. static => type = shape /\ ~empty
  <2> SUFFICES ASSUME static PROVE type = shape /\ ~empty
    OBVIOUS
  <2>1. \A i \in 1 .. n : type[i] = shape[i] /\ shape[i] > 0
    BY <1>2, <1>3, <1>4, <1>5
  <2>2. type = shape
    BY <1>2, <1>3, <1>4, <2>1, EqualLists
  <2>3. 0 \notin ToSet(shape)
    BY <1>3, <2>1 DEF ToSet
  <2> QED  BY <1>5, <2>2, <2>3
<1> QED  BY <1>5, <1>7, <1>9, <1>10 DEF SizesInv

\* A node whose emitter keeps the sizes right keeps the invariant.
LEMMA EmitKeeps ==
    ASSUME SizesInv, NEW e, NEW reference, NEW supported, Emit(e, reference, supported),
           IsTensor(x) /\ x.shape = onnx /\ onnx # Invalid =>
               Keeps(e, reference, supported, x.type = x.shape)
    PROVE  SizesInv'
<1>1. /\ outcome = "ok"
      /\ outcome' = OutcomeOf(e)
      /\ x' = IF OutcomeOf(e) = "ok" THEN e.result ELSE x
      /\ onnx' = IF onnx = Invalid THEN Invalid ELSE reference
      /\ within' = (within /\ onnx # Invalid /\ supported)
      /\ empty' = (empty \/ 0 \in ToSet(x'.shape))
      /\ static' = static
  BY DEF Emit
<1>2. /\ OutcomeOf(e) \in {"ok", "overflow", "ill-formed", "refused", "wrong"}
      /\ OutcomeOf(e) = "ok" <=> e.fits /\ e.defined /\ AllVerified(e) /\ AllRight(e)
      /\ OutcomeOf(e) = "wrong" => e.fits /\ e.defined /\ AllVerified(e) /\ ~AllRight(e)
      /\ e.fits <=> OutcomeOf(e) # "overflow"
  BY DEF OutcomeOf, AllVerified, AllRight
<1>3. OutcomeOf(e) = "ok" /\ ~empty' => ~empty /\ Full(e.result) /\ x' = e.result
  BY <1>1 DEF Full
<1>4. ~empty /\ onnx # Invalid => Keeps(e, reference, supported, x.type = x.shape)
  BY <1>1 DEF SizesInv
<1>5. static /\ ~empty => onnx # Invalid /\ x.type = x.shape
  BY <1>1 DEF SizesInv
<1>6. outcome' = "ok" /\ ~empty' /\ onnx' # Invalid => IsTensor(x') /\ x'.shape = onnx'
  BY <1>1, <1>2, <1>3, <1>4 DEF Keeps
<1>7. ASSUME static', ~empty'
      PROVE  outcome' # "wrong" /\ (outcome' = "ok" => onnx' # Invalid /\ x'.type = x'.shape)
  <2>1. ~empty /\ static
    BY <1>1, <1>7
  <2>2. Keeps(e, reference, supported, x.type = x.shape) /\ x.type = x.shape /\ onnx # Invalid
    BY <1>4, <1>5, <2>1
  <2>3. e.fits /\ e.defined /\ AllVerified(e) =>
            AllRight(e) /\ (Full(e.result) => reference # Invalid /\ e.result.type = e.result.shape)
    BY <2>2 DEF Keeps
  <2> QED  BY <1>1, <1>2, <1>3, <1>7, <2>2, <2>3
<1>8. ASSUME static', within', onnx' # Invalid
      PROVE  outcome' \in {"ok", "returned", "overflow"} /\ (outcome' = "ok" => ~empty')
  <2>1. static /\ within /\ onnx # Invalid /\ supported /\ onnx' = reference
    BY <1>1, <1>8
  <2>2. ~empty
    BY <1>1, <2>1 DEF SizesInv
  <2>3. Keeps(e, reference, supported, x.type = x.shape) /\ x.type = x.shape
    BY <1>4, <1>5, <2>1, <2>2
  <2>4. e.fits => e.defined /\ AllVerified(e) /\ Full(e.result)
    BY <1>8, <2>1, <2>3 DEF Keeps
  <2>5. e.fits => AllRight(e)
    BY <2>3, <2>4 DEF Keeps
  <2>6. e.fits => outcome' = "ok" /\ x' = e.result /\ ~empty'
    BY <1>1, <1>2, <2>2, <2>4, <2>5 DEF Full
  <2> QED  BY <1>1, <1>2, <2>6
<1>9. outcome' # "returned"
  BY <1>1, <1>2
<1> QED  BY <1>6, <1>7, <1>8, <1>9, Zenon DEF SizesInv

\* What the function returns: the product of the known sizes is that of the actual ones.
LEMMA CollapsedFacts ==
    ASSUME NEW t, IsTensor(t), Len(t.type) > 2 => Multiplies(Tail(t.type))
    PROVE  Agrees(Collapsed(t.type), Collapsed(t.shape))
<1>1. /\ t.type \in Seq(Int) /\ t.shape \in Seq(Int) /\ Len(t.type) = Len(t.shape) /\ Len(t.type) \in Nat
      /\ \A i \in 1 .. Len(t.type) :
            /\ t.type[i] \in Int /\ t.shape[i] \in Int /\ t.shape[i] > 0
            /\ t.type[i] = t.shape[i] \/ t.type[i] = Dynamic
  BY TensorFacts
<1> DEFINE type == t.type
           shape == t.shape
           n == Len(type)
<1>2. CASE n <= 2
  <2>1. Collapsed(type) = type /\ Collapsed(shape) = shape
    BY <1>1, <1>2 DEF Collapsed
  <2> QED  BY <2>1 DEF IsTensor
<1>3. CASE n > 2
  <2> DEFINE a == Tail(type)
             b == Tail(shape)
  <2>1. /\ a \in Seq(Int) /\ b \in Seq(Int) /\ Len(a) = n - 1 /\ Len(b) = n - 1
        /\ \A i \in 1 .. n - 1 : a[i] = type[i + 1] /\ b[i] = shape[i + 1]
    <3> HIDE DEF type, shape
    <3>1. type \in Seq(Int) /\ shape \in Seq(Int) /\ Len(shape) = n
      BY <1>1 DEF type, shape
    <3> QED  BY <1>3, <3>1
  <2> HIDE DEF a, b
  <2>2. \A i \in 1 .. n - 1 : b[i] >= 1 /\ (a[i] = b[i] \/ a[i] = Dynamic)
    <3> SUFFICES ASSUME NEW i \in 1 .. n - 1 PROVE b[i] >= 1 /\ (a[i] = b[i] \/ a[i] = Dynamic)
      OBVIOUS
    <3>1. i + 1 \in 1 .. n
      BY <1>1
    <3>2. type[i + 1] \in Int /\ shape[i + 1] \in Int /\ shape[i + 1] > 0
          /\ (type[i + 1] = shape[i + 1] \/ type[i + 1] = Dynamic)
      BY <1>1, <3>1
    <3>3. a[i] = type[i + 1] /\ b[i] = shape[i + 1]
      BY <2>1
    <3> HIDE DEF type, shape
    <3> QED  BY <3>2, <3>3
  <2>3. DOMAIN a = 1 .. n - 1 /\ DOMAIN b = 1 .. n - 1
    BY <2>1
  <2>4. b \in Lists(1) /\ Agrees(a, b)
    BY <2>1, <2>2, <2>3 DEF Lists, Agrees
  <2>5. Multiplies(a)
    BY <1>3 DEF a
  <2>6. NumElements(a) \in {NumElements(b), Dynamic}
    BY <2>1, <2>4, <2>5, ProductAgrees
  <2>7. type[1] = shape[1] \/ type[1] = Dynamic
    BY <1>1, <1>3
  <2>8. Collapsed(type) = <<type[1], NumElements(a)>> /\ Collapsed(shape) = <<shape[1], NumElements(b)>>
    BY <1>1, <1>3, Zenon DEF Collapsed, a, b
  <2> HIDE DEF type, shape
  <2>9. Agrees(Collapsed(type), Collapsed(shape))
    <3> DEFINE p == NumElements(a)
               q == NumElements(b)
    <3>1. Collapsed(type) = <<type[1], p>> /\ Collapsed(shape) = <<shape[1], q>> /\ (p = q \/ p = Dynamic)
      BY <2>6, <2>8
    <3> HIDE DEF p, q
    <3> QED  BY <2>7, <3>1 DEF Agrees
  <2> QED  BY <2>9 DEF type, shape
<1> QED  BY <1>1, <1>2, <1>3

\* emit_func's return keeps the invariant.
LEMMA ReturnKeeps == SizesInv /\ Return => SizesInv'
<1> SUFFICES ASSUME SizesInv, Return PROVE SizesInv'
  OBVIOUS
<1>1. outcome = "ok" /\ onnx' = onnx /\ static' = static /\ within' = within /\ empty' = empty
  BY DEF Return
<1>2. CASE Rank > 2 /\ ~Multiplies(Tail(x.type))
  <2>1. outcome' = "overflow"
    BY <1>2 DEF Return
  <2> QED  BY <1>1, <2>1 DEF SizesInv
<1>3. CASE ~(Rank > 2 /\ ~Multiplies(Tail(x.type)))
  <2>1. outcome' = "returned" /\ x' = [type |-> Collapsed(x.type), shape |-> Collapsed(x.shape)]
    BY <1>3 DEF Return
  <2>2. ASSUME ~empty, onnx # Invalid
        PROVE  x'.shape = Collapsed(onnx) /\ Agrees(x'.type, x'.shape)
    <3>1. IsTensor(x) /\ x.shape = onnx
      BY <1>1, <2>2 DEF SizesInv
    <3>2. Agrees(Collapsed(x.type), Collapsed(x.shape))
      BY <1>3, <3>1, CollapsedFacts DEF Rank
    <3> QED  BY <2>1, <3>1, <3>2
  <2> QED  BY <1>1, <2>1, <2>2 DEF SizesInv
<1> QED  BY <1>2, <1>3

\* Every node keeps the invariant.
LEMMA SizesStep == SizesInv /\ [Next]_vars => SizesInv'
<1> SUFFICES ASSUME SizesInv, [Next]_vars PROVE SizesInv'
  OBVIOUS
<1>1. \A w \in Weights : w \in Lists(1) /\ IsTensor(Constant(w)) /\ Constant(w).type = Constant(w).shape
  BY WeightAssumption, ConstantIsTensor
<1>2. \A kernel \in Kernels : kernel \in Lists(1) /\ Len(kernel) = 2
  BY AttributeAssumption
<1>3. \A win \in Windows : IsWindows(win)
  BY AttributeAssumption DEF IsWindows
<1>4. \A target \in Targets : target \in Lists(-1)
  BY AttributeAssumption
<1>5. \A axis \in Axes : axis \in Int
  BY AttributeAssumption
<1>6. \A bias \in {{}} \cup {{c} : c \in Weights} : bias \in SUBSET Lists(1)
  BY <1>1
<1>7. ASSUME EmitElementwise PROVE SizesInv'
  <2>1. PICK rhs \in {Constant(w) : w \in Weights} \cup {x} :
            Emit(emit_elementwise(x, rhs), Broadcast(onnx, rhs.shape), onnx = rhs.shape)
    BY <1>7 DEF EmitElementwise
  <2>2. IsTensor(x) => IsTensor(rhs) /\ (x.type = x.shape => rhs.type = rhs.shape)
    BY <1>1
  <2>3. IsTensor(x) /\ x.shape = onnx =>
            Keeps(emit_elementwise(x, rhs), Broadcast(onnx, rhs.shape), onnx = rhs.shape, x.type = x.shape)
    BY <2>2, ElementwiseKeeps
  <2> QED  BY <2>1, <2>3, EmitKeeps
<1>8. ASSUME EmitRelu PROVE SizesInv'
  <2>1. IsTensor(x) /\ x.shape = onnx => Keeps(emit_relu(x), onnx, TRUE, x.type = x.shape)
    BY ReluKeeps
  <2> QED  BY <1>8, <2>1, EmitKeeps DEF EmitRelu
<1>9. ASSUME EmitMatmul PROVE SizesInv'
  <2>1. PICK w \in Weights : /\ Rank >= 1 /\ Len(w) >= 2
                             /\ Emit(emit_matmul(x, Constant(w)), OnnxMatMul(onnx, w), Rank = 2)
    BY <1>9 DEF EmitMatmul
  <2>2. IsTensor(x) /\ x.shape = onnx =>
            Keeps(emit_matmul(x, Constant(w)), OnnxMatMul(onnx, w), Rank = 2, x.type = x.shape)
    BY <1>1, <2>1, MatmulKeeps DEF Rank
  <2> QED  BY <2>1, <2>2, EmitKeeps
<1>10. ASSUME EmitGemm PROVE SizesInv'
  <2>1. PICK w \in Weights, bias \in {{}} \cup {{c} : c \in Weights}, trans \in SUBSET {"A", "B"}, beta \in 0 .. 2 :
            /\ Rank >= (IF "A" \in trans THEN 2 ELSE 1) /\ Len(w) >= (IF "B" \in trans THEN 1 ELSE 2)
            /\ Emit(emit_gemm(x, Constant(w), {Constant(c) : c \in bias}, trans, beta),
                    OnnxGemm(onnx, w, IF beta = 0 THEN {} ELSE bias, trans),
                    /\ trans # {"A", "B"} /\ OnnxGemm(onnx, w, {}, trans) # Invalid
                    /\ \A c \in bias : c = Tail(OnnxGemm(onnx, w, {}, trans)))
    BY <1>10 DEF EmitGemm
  <2>2. Len(x.type) >= Across("A" \in trans) /\ Len(w) >= Along("B" \in trans)
    BY <2>1, Zenon DEF Rank, Across, Along
  <2>3. w \in Lists(1) /\ bias \in SUBSET Lists(1)
    BY <1>1, <1>6
  <2>4. IsTensor(x) /\ x.shape = onnx =>
            Keeps(emit_gemm(x, Constant(w), {Constant(c) : c \in bias}, trans, beta),
                  OnnxGemm(onnx, w, IF beta = 0 THEN {} ELSE bias, trans),
                  /\ trans # {"A", "B"} /\ OnnxGemm(onnx, w, {}, trans) # Invalid
                  /\ \A c \in bias : c = Tail(OnnxGemm(onnx, w, {}, trans)),
                  x.type = x.shape)
    BY <2>2, <2>3, GemmKeeps
  <2> QED  BY <2>1, <2>4, EmitKeeps
<1>11. ASSUME EmitConv PROVE SizesInv'
  <2>1. PICK w \in Weights, bias \in {{}} \cup {{c} : c \in Weights}, win \in Windows :
            /\ Rank >= 4 /\ Len(w) >= 4
            /\ LET reference == OnnxConv(onnx, w, bias, win)
               IN  Emit(emit_conv(x, Constant(w), {Constant(c) : c \in bias}, win), reference,
                        /\ Rank = 4 /\ Len(w) = 4
                        /\ reference # Invalid /\ reference[3] > 0 /\ reference[4] > 0)
    BY <1>11 DEF EmitConv
  <2> DEFINE reference == OnnxConv(onnx, w, bias, win)
             supported == /\ Rank = 4 /\ Len(w) = 4
                          /\ reference # Invalid /\ reference[3] > 0 /\ reference[4] > 0
             e == emit_conv(x, Constant(w), {Constant(c) : c \in bias}, win)
  <2>2. w \in Lists(1) /\ bias \in SUBSET Lists(1) /\ IsWindows(win)
    BY <1>1, <1>3, <1>6
  <2>3. IsTensor(x) /\ x.shape = onnx => Keeps(e, reference, supported, x.type = x.shape)
    BY <2>1, <2>2, ConvKeeps DEF Rank
  <2>4. Emit(e, reference, supported)
    BY <2>1
  <2> HIDE DEF e, reference, supported
  <2> QED  BY <2>3, <2>4, EmitKeeps
<1>12. ASSUME EmitMaxpool PROVE SizesInv'
  <2>1. PICK kernel \in Kernels, win \in Windows :
            /\ Rank >= 4
            /\ LET reference == OnnxSliding(onnx, kernel, onnx[2], win)
               IN  Emit(emit_maxpool(x, kernel, win), reference,
                        Rank = 4 /\ reference[3] > 0 /\ reference[4] > 0)
    BY <1>12 DEF EmitMaxpool
  <2> DEFINE reference == OnnxSliding(onnx, kernel, onnx[2], win)
             supported == Rank = 4 /\ reference[3] > 0 /\ reference[4] > 0
             e == emit_maxpool(x, kernel, win)
  <2>2. IsTensor(x) /\ x.shape = onnx => Keeps(e, reference, supported, x.type = x.shape)
    BY <1>2, <1>3, <2>1, MaxpoolKeeps DEF Rank
  <2>3. Emit(e, reference, supported)
    BY <2>1
  <2> HIDE DEF e, reference, supported
  <2> QED  BY <2>2, <2>3, EmitKeeps
<1>13. ASSUME EmitGlobalAvgPool PROVE SizesInv'
  <2>1. Rank >= 4 /\ Emit(emit_global_avg_pool(x), <<onnx[1], onnx[2], 1, 1>>, Rank = 4)
    BY <1>13 DEF EmitGlobalAvgPool
  <2>2. IsTensor(x) /\ x.shape = onnx =>
            Keeps(emit_global_avg_pool(x), <<onnx[1], onnx[2], 1, 1>>, Rank = 4, x.type = x.shape)
    BY <2>1, GlobalAvgPoolKeeps DEF Rank
  <2> QED  BY <2>1, <2>2, EmitKeeps
<1>14. ASSUME EmitBatchnorm PROVE SizesInv'
  <2>1. PICK w \in Weights :
            /\ Rank >= 4
            /\ Emit(emit_batchnorm(x, [i \in 1 .. 4 |-> Constant(w)]),
                    IF w = <<onnx[2]>> THEN onnx ELSE Invalid, Rank = 4)
    BY <1>14 DEF EmitBatchnorm
  <2>2. IsTensor(x) /\ x.shape = onnx =>
            Keeps(emit_batchnorm(x, [i \in 1 .. 4 |-> Constant(w)]),
                  IF w = <<onnx[2]>> THEN onnx ELSE Invalid, Rank = 4, x.type = x.shape)
    <3> SUFFICES ASSUME IsTensor(x), x.shape = onnx
                 PROVE  Keeps(emit_batchnorm(x, [i \in 1 .. 4 |-> Constant(w)]),
                              IF w = <<onnx[2]>> THEN onnx ELSE Invalid, Rank = 4, x.type = x.shape)
      OBVIOUS
    <3>1. w \in Lists(1) /\ Len(x.type) >= 4
      BY <1>1, <2>1 DEF Rank
    <3>2. Keeps(emit_batchnorm(x, [i \in 1 .. 4 |-> Constant(w)]),
                IF w = <<x.shape[2]>> THEN x.shape ELSE Invalid, Len(x.type) = 4, x.type = x.shape)
      BY <3>1, BatchnormKeeps, Zenon
    <3> QED  BY <3>2, Zenon DEF Rank
  <2> QED  BY <2>1, <2>2, EmitKeeps
<1>15. ASSUME EmitSoftmax PROVE SizesInv'
  <2>1. PICK axis \in Axes :
            Emit(emit_softmax(x, axis), IF axis \in -Len(onnx) .. Len(onnx) - 1 THEN onnx ELSE Invalid, TRUE)
    BY <1>15 DEF EmitSoftmax
  <2>2. IsTensor(x) /\ x.shape = onnx =>
            Keeps(emit_softmax(x, axis), IF axis \in -Len(onnx) .. Len(onnx) - 1 THEN onnx ELSE Invalid,
                  TRUE, x.type = x.shape)
    BY <1>5, SoftmaxKeeps
  <2> QED  BY <2>1, <2>2, EmitKeeps
<1>16. ASSUME EmitReshape PROVE SizesInv'
  <2>1. PICK target \in Targets :
            Emit(emit_reshape(x, target), OnnxReshape(onnx, target), \A i \in DOMAIN target : target[i] > 0)
    BY <1>16 DEF EmitReshape
  <2>2. IsTensor(x) /\ x.shape = onnx =>
            Keeps(emit_reshape(x, target), OnnxReshape(onnx, target),
                  \A i \in DOMAIN target : target[i] > 0, x.type = x.shape)
    BY <1>4, ReshapeKeeps
  <2> QED  BY <2>1, <2>2, EmitKeeps
<1>17. ASSUME EmitFlatten PROVE SizesInv'
  <2>1. PICK axis \in Axes : LET at == IF axis < 0 THEN axis + Rank ELSE axis
                             IN  at \in 0 .. Rank /\ Emit(emit_flatten(x, at), FlattenAt(onnx, at), TRUE)
    BY <1>17 DEF EmitFlatten
  <2> DEFINE at == IF axis < 0 THEN axis + Rank ELSE axis
  <2>2. at \in 0 .. Rank /\ Emit(emit_flatten(x, at), FlattenAt(onnx, at), TRUE)
    BY <2>1
  <2> HIDE DEF at
  <2>3. IsTensor(x) /\ x.shape = onnx =>
            Keeps(emit_flatten(x, at), FlattenAt(onnx, at), TRUE, x.type = x.shape)
    BY <2>2, FlattenKeeps DEF Rank
  <2> QED  BY <2>2, <2>3, EmitKeeps
<1>18. ASSUME Return PROVE SizesInv'
  BY <1>18, ReturnKeeps
<1>19. ASSUME UNCHANGED vars PROVE SizesInv'
  BY <1>19 DEF vars, SizesInv
<1> QED  BY <1>7, <1>8, <1>9, <1>10, <1>11, <1>12, <1>13, <1>14, <1>15, <1>16, <1>17, <1>18, <1>19 DEF Next

LEMMA SizesInvariant == Spec => []SizesInv
<1>1. Init => SizesInv
  BY SizesInit
<1>2. SizesInv /\ [Next]_vars => SizesInv'
  BY SizesStep
<1> QED  BY <1>1, <1>2, PTL DEF Spec

\* Whatever chain of nodes compiles and runs has the sizes ONNX gives it, for all sizes,
\* ranks, attributes and widths of the integers: no emitter of mlir_gen.cpp computes a
\* size that differs without a check of MLIR's noticing.
THEOREM CompiledSizesAlwaysOnnx == Spec => []CompiledSizesAreOnnx
<1>1. SizesInv => CompiledSizesAreOnnx
  BY DEF SizesInv, CompiledSizesAreOnnx, IsTensor
<1> QED  BY <1>1, SizesInvariant, PTL

\* If all sizes are known, no chain that the emitters and MLIR's verifier let through
\* goes wrong at run time, and no node whose operands do not go together gets through.
THEOREM StaticAlwaysChecked == Spec => []StaticIsChecked
<1>1. SizesInv => StaticIsChecked
  BY DEF SizesInv, StaticIsChecked
<1> QED  BY <1>1, SizesInvariant, PTL

\* A chain of valid nodes of the forms the emitters are written for is compiled, however
\* long it is, if all sizes are known and none is too large.
THEOREM SupportedAlwaysCompiles == Spec => []SupportedCompiles
<1>1. SizesInv => SupportedCompiles
  BY DEF SizesInv, SupportedCompiles
<1> QED  BY <1>1, SizesInvariant, PTL
=============================================================================
