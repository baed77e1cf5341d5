--------------------------- MODULE XdmaDescProofs ---------------------------
(***************************************************************************)
(* Proofs about XdmaDesc, for every page size, buffer, page table, limit   *)
(* and alignment.                                                          *)
(***************************************************************************)
EXTENDS XdmaDesc, FiniteSetTheorems, WellFoundedInduction, TLAPS

(***************************************************************************)
(* Numbers.                                                                *)
(***************************************************************************)
LEMMA DivModInt == ASSUME NEW x \in Int, NEW y \in Int, y > 0 PROVE x = y * (x \div y) + (x % y)
OBVIOUS

LEMMA DivMod ==
  ASSUME NEW a \in Nat, NEW p \in Nat \ {0}
  PROVE  /\ a \div p \in Nat /\ a % p \in 0 .. p - 1
         /\ a = p * (a \div p) + (a % p)
<1>1. a = p * (a \div p) + (a % p)
  BY DivModInt
<1>2. a \div p \in Int /\ a % p \in 0 .. p - 1
  OBVIOUS
<1>3. a \div p >= 0
  OBVIOUS
<1>4. QED BY <1>1, <1>2, <1>3

\* Quotient and remainder are unique.
LEMMA DivUnique ==
  ASSUME NEW p \in Nat \ {0}, NEW q \in Nat, NEW r \in 0 .. p - 1
  PROVE  (p * q + r) \div p = q /\ (p * q + r) % p = r
<1> DEFINE a == p * q + r
           s == a \div p
           t == a % p
<1>1. a \in Nat
  OBVIOUS
<1>2. s \in Nat /\ t \in 0 .. p - 1 /\ a = p * s + t
  BY <1>1, DivMod
<1> HIDE DEF s, t
<1>3. p * q + r = p * s + t
  BY <1>2
<1>4. ~(q < s)
  <2>1. SUFFICES ASSUME q + 1 <= s PROVE FALSE
    BY <1>2
  <2>2. p * (q + 1) <= p * s
    BY <1>2, <2>1
  <2>3. p * (q + 1) = p * q + p
    OBVIOUS
  <2>4. QED BY <1>2, <1>3, <2>2, <2>3
<1>5. ~(s < q)
  <2>1. SUFFICES ASSUME s + 1 <= q PROVE FALSE
    BY <1>2
  <2>2. p * (s + 1) <= p * q
    BY <1>2, <2>1
  <2>3. p * (s + 1) = p * s + p
    BY <1>2
  <2>4. QED BY <1>2, <1>3, <2>2, <2>3
<1>6. s = q
  BY <1>2, <1>4, <1>5
<1>7. t = r
  BY <1>2, <1>3, <1>6
<1>8. QED BY <1>6, <1>7 DEF s, t

\* Every set of natural numbers that is not empty has a least element.
LEMMA LeastElement ==
  ASSUME NEW T, T \subseteq Nat, T # {}
  PROVE  \E i \in T : \A j \in T : i <= j
<1> DEFINE R == OpToRel(<, Nat)
<1>1. IsWellFoundedOn(R, Nat)
  BY NatLessThanWellFounded
<1>2. \A i, j \in Nat : j < i => <<j, i>> \in R
  BY DEF OpToRel
<1> HIDE DEF R
<1>3. \E i \in T : \A j \in T : ~(<<j, i>> \in R)
  BY <1>1, WFMin
<1>4. PICK i \in T : \A j \in T : ~(j < i)
  BY <1>2, <1>3, Zenon
<1>5. \A j \in T : i <= j
  BY <1>4
<1>6. QED BY <1>5

\* Induction up to n, over a set.
LEMMA UpTo ==
  ASSUME NEW n \in Nat, NEW G, 0 \in G, \A i \in 0 .. n - 1 : i \in G => i + 1 \in G
  PROVE  \A i \in 0 .. n : i \in G
<1> DEFINE T == {i \in 0 .. n : i \notin G}
<1> SUFFICES ASSUME T # {} PROVE FALSE
  OBVIOUS
<1>1. T \subseteq Nat
  OBVIOUS
<1>2. \A i \in T : i \in 0 .. n /\ i \notin G
  OBVIOUS
<1>3. \A i \in 0 .. n : i \notin G => i \in T
  OBVIOUS
<1> HIDE DEF T
<1>4. PICK i \in T : \A j \in T : i <= j
  BY <1>1, LeastElement
<1>5. i \in 1 .. n /\ i - 1 \in 0 .. n - 1 /\ i - 1 \in 0 .. n
  BY <1>2, <1>4
<1>6. i - 1 \in G
  BY <1>3, <1>4, <1>5
<1>7. (i - 1) + 1 = i
  BY <1>5
<1>8. QED BY <1>2, <1>4, <1>5, <1>6, <1>7

LEMMA MinTwo ==
  ASSUME NEW a \in Int, NEW b \in Int
  PROVE  /\ Min2(a, b) \in {a, b} /\ Min2(a, b) <= a /\ Min2(a, b) <= b
BY DEF Min2

(***************************************************************************)
(* The scatterlist.  A buffer of len bytes at start lies in n pages; the   *)
(* first i entries of its list stand for its first Before(i) bytes.        *)
(***************************************************************************)
LEMMA Geometry ==
  ASSUME NEW start \in Nat, NEW len \in Nat \ {0}
  PROVE  /\ NrPages(start, len) \in Nat \ {0}
         /\ FirstPage(start) \in Nat /\ start % PageSize \in 0 .. PageSize - 1
         /\ start = PageSize * FirstPage(start) + (start % PageSize)
         /\ PageSize * (NrPages(start, len) - 1) < (start % PageSize) + len
         /\ (start % PageSize) + len <= PageSize * NrPages(start, len)
         /\ LastPage(start, len) = FirstPage(start) + NrPages(start, len) - 1
<1> DEFINE p == PageSize
           f == FirstPage(start)
           l == LastPage(start, len)
           r == start % p
           e == start + len - 1
           t == e % p
<1>1. p \in Nat \ {0} /\ e \in Nat
  BY SizesAssumption
<1>2. f \in Nat /\ r \in 0 .. p - 1 /\ start = p * f + r
  BY <1>1, DivMod DEF FirstPage
<1>3. l \in Nat /\ t \in 0 .. p - 1 /\ e = p * l + t
  BY <1>1, DivMod DEF LastPage
<1> HIDE DEF p, f, l, r, t
<1>4. p * l + t = p * f + r + len - 1
  BY <1>1, <1>2, <1>3
<1>5. f <= l
  <2>1. SUFFICES ASSUME l + 1 <= f PROVE FALSE
    BY <1>2, <1>3
  <2>2. p * (l + 1) <= p * f
    BY <1>1, <1>2, <1>3, <2>1
  <2>3. p * (l + 1) = p * l + p
    BY <1>1, <1>3
  <2>4. QED BY <1>1, <1>2, <1>3, <1>4, <2>2, <2>3
<1>6. p * (l - f) = p * l - p * f /\ p * (l - f + 1) = p * l - p * f + p
  BY <1>1, <1>2, <1>3
<1>7. p * (l - f) < r + len /\ r + len <= p * (l - f + 1)
  BY <1>1, <1>2, <1>3, <1>4, <1>6
<1>8. NrPages(start, len) = l - f + 1 /\ (l - f + 1) - 1 = l - f
  BY <1>2, <1>3 DEF NrPages, l, f
<1>9. l = f + (l - f + 1) - 1 /\ l - f + 1 \in Nat \ {0}
  BY <1>2, <1>3, <1>5
<1>10. QED BY <1>2, <1>7, <1>8, <1>9 DEF p, f, l, r

\* The assertions of xdma-sgm.c hold for every buffer.
LEMMA AssertsHold ==
  ASSUME NEW start \in Nat, NEW len \in Nat \ {0}
  PROVE  ScatterAsserts(start, len)
<1> DEFINE n == NrPages(start, len)
           r == start % PageSize
           p == PageSize
<1>1. p \in Nat \ {0}
  BY SizesAssumption
<1>2. /\ n \in Nat \ {0} /\ r \in 0 .. p - 1
      /\ p * (n - 1) < r + len /\ r + len <= p * n
  BY Geometry
<1>3. n <= MaxPages(len)
  <2> DEFINE q == len \div p
             t == len % p
  <2>1. q \in Nat /\ t \in 0 .. p - 1 /\ len = p * q + t
    BY <1>1, DivMod
  <2> HIDE DEF n, r, p, q, t
  <2>2. n <= q + 2
    <3>1. SUFFICES ASSUME q + 3 <= n PROVE FALSE
      BY <1>2, <2>1
    <3>2. p * (q + 2) <= p * (n - 1)
      BY <1>1, <1>2, <2>1, <3>1
    <3>3. p * (q + 2) = p * q + p + p
      BY <1>1, <2>1
    <3>4. QED BY <1>1, <1>2, <2>1, <3>2, <3>3
  <2>3. QED BY <2>2 DEF MaxPages, n, p, q
<1>4. ASSUME NEW i \in 2 .. n PROVE CountAt(start, len, i) = len + r - (i - 1) * p
  BY <1>4 DEF CountAt
<1> HIDE DEF n, r, p
<1>5. ASSUME NEW i \in 2 .. n - 1 PROVE CountAt(start, len, i) >= p
  <2>1. p * i <= p * (n - 1)
    BY <1>1, <1>2, <1>5
  <2>2. p * i = (i - 1) * p + p
    BY <1>1, <1>5
  <2>3. (i - 1) * p \in Int /\ i \in 2 .. n
    BY <1>1, <1>2, <1>5
  <2>4. QED BY <1>1, <1>2, <1>4, <2>1, <2>2, <2>3
<1>6. n > 1 => CountAt(start, len, n) <= p
  <2>1. (n - 1) * p = p * n - p
    BY <1>1, <1>2
  <2>2. QED BY <1>1, <1>2, <1>4, <2>1
<1>7. QED BY <1>3, <1>5, <1>6 DEF ScatterAsserts, n, p

Before(start, len, i) ==
  IF i = 0 THEN 0
  ELSE IF i = NrPages(start, len) THEN len ELSE PageSize * i - (start % PageSize)

\* The page table has finitely many gaps.
PhysOK == \A v \in Nat : PhysPage(v) \in Nat

LEMMA FiniteGaps == gaps \in PageTables => PhysOK
<1> SUFFICES ASSUME gaps \in PageTables, NEW v \in Nat PROVE PhysPage(v) \in Nat
  BY DEF PhysOK
<1> DEFINE S == {g \in gaps : g <= v}
<1>1. IsFiniteSet(gaps) /\ S \subseteq gaps
  BY InputsAssumption
<1> HIDE DEF S
<1>2. IsFiniteSet(S)
  BY <1>1, FS_Subset
<1>3. Cardinality(S) \in Nat
  BY <1>2, FS_CardinalityType
<1>4. QED BY <1>3 DEF PhysPage, S

\* The bytes before each entry, and where the pages begin.
LEMMA BeforeFacts ==
  ASSUME NEW start \in Nat, NEW len \in Nat \ {0}, NEW i \in 1 .. NrPages(start, len)
  PROVE  LET b == Before(start, len, i) - Before(start, len, i - 1) IN
         /\ Before(start, len, i) \in Nat /\ Before(start, len, i - 1) \in Nat
         /\ b \in 1 .. PageSize
         /\ start + Before(start, len, i - 1) =
              PageSize * (FirstPage(start) + i - 1) + (IF i = 1 THEN start % PageSize ELSE 0)
         /\ i = 1 => (start % PageSize) + b <= PageSize
<1> DEFINE n == NrPages(start, len)
           r == start % PageSize
           p == PageSize
           f == FirstPage(start)
           B(j) == Before(start, len, j)
<1>1. p \in Nat \ {0}
  BY SizesAssumption
<1>2. /\ n \in Nat \ {0} /\ r \in 0 .. p - 1 /\ f \in Nat /\ start = p * f + r
      /\ p * (n - 1) < r + len /\ r + len <= p * n
  BY Geometry
<1>3. \A j \in 1 .. n - 1 : B(j) = p * j - r
  BY <1>2 DEF Before
<1>4. B(0) = 0 /\ B(n) = len
  BY <1>2 DEF Before
<1>5. i \in 1 .. n
  OBVIOUS
<1> HIDE DEF n, r, p, f, B
<1>6. p * (f + i - 1) = p * f + p * i - p /\ p * n = p * (n - 1) + p
      /\ p * (i - 1) = p * i - p /\ p * i \in Int /\ p * f \in Int /\ p * (n - 1) \in Int
  BY <1>1, <1>2, <1>5
<1>7. CASE i = 1 /\ n = 1
  <2>1. p * i = p
    BY <1>1, <1>7
  <2>2. B(i) = len /\ B(i - 1) = 0
    BY <1>4, <1>7
  <2>3. p * n = p
    BY <1>1, <1>7
  <2>4. QED BY <1>1, <1>2, <1>6, <1>7, <2>1, <2>2, <2>3 DEF B, p, f, r
<1>8. CASE i = 1 /\ n > 1
  <2>1. p * i = p
    BY <1>1, <1>8
  <2>2. B(i) = p - r /\ B(i - 1) = 0
    BY <1>2, <1>3, <1>4, <1>8, <2>1
  <2>3. QED BY <1>1, <1>2, <1>6, <1>8, <2>1, <2>2 DEF B, p, f, r
<1>9. CASE i > 1 /\ i < n
  <2>1. B(i) = p * i - r /\ B(i - 1) = p * i - p - r
    <3>1. i \in 1 .. n - 1 /\ i - 1 \in 1 .. n - 1
      BY <1>2, <1>5, <1>9
    <3>2. QED BY <1>3, <1>6, <3>1
  <2>2. p * i >= p + p
    <3>1. p * 2 <= p * i
      BY <1>1, <1>5, <1>9
    <3>2. QED BY <1>1, <3>1
  <2>3. QED BY <1>1, <1>2, <1>5, <1>6, <1>9, <2>1, <2>2 DEF B, p, f, r
<1>10. CASE i > 1 /\ i = n
  <2>1. B(i) = len /\ B(i - 1) = p * i - p - r
    <3>1. i - 1 \in 1 .. n - 1
      BY <1>2, <1>5, <1>10
    <3>2. QED BY <1>3, <1>4, <1>6, <1>10, <3>1
  <2>2. p * i >= p + p
    <3>1. p * 2 <= p * i
      BY <1>1, <1>5, <1>10
    <3>2. QED BY <1>1, <3>1
  <2>3. p * (n - 1) = p * i - p /\ p * n = p * i
    BY <1>6, <1>10
  <2>4. QED BY <1>1, <1>2, <1>5, <1>6, <1>10, <2>1, <2>2, <2>3 DEF B, p, f, r
<1>11. QED BY <1>2, <1>5, <1>7, <1>8, <1>9, <1>10

\* The entries of a list and the physical addresses they stand for.
LEMMA Entries ==
  ASSUME PhysOK, NEW start \in Nat, NEW len \in Nat \ {0}
  PROVE  LET list == ScatterList(start, len)
             n == NrPages(start, len)
         IN /\ n \in Nat \ {0} /\ Len(list) = n
            /\ \A i \in 1 .. n :
                 /\ list[i].len = Before(start, len, i) - Before(start, len, i - 1)
                 /\ list[i].addr \in Nat
                 /\ \A x \in 0 .. list[i].len - 1 :
                      list[i].addr + x = PhysAddr(start + Before(start, len, i - 1) + x)
<1> DEFINE n == NrPages(start, len)
           r == start % PageSize
           p == PageSize
           f == FirstPage(start)
           list == ScatterList(start, len)
           B(j) == Before(start, len, j)
<1>1. p \in Nat \ {0}
  BY SizesAssumption
<1>2. /\ n \in Nat \ {0} /\ r \in 0 .. p - 1 /\ f \in Nat
      /\ p * (n - 1) < r + len /\ r + len <= p * n
  BY Geometry
<1>3. Len(list) = n
  BY <1>2 DEF ScatterList
<1>4. \A i \in 1 .. n :
        list[i].addr = PhysPage(f + i - 1) * p + (IF i = 1 THEN r ELSE 0)
  BY DEF ScatterList
<1>5. ASSUME NEW i \in 1 .. n PROVE list[i].len = B(i) - B(i - 1)
  <2>1. CASE n = 1
    <3>1. list[i].len = len
      BY <1>5, <2>1 DEF ScatterList
    <3>2. i = 1 /\ B(1) = len /\ B(0) = 0
      BY <1>5, <2>1 DEF Before
    <3>3. QED BY <3>1, <3>2
  <2>2. CASE n > 1 /\ i = 1
    <3>1. list[i].len = p - r
      BY <1>5, <2>2 DEF ScatterList
    <3>2. B(1) = p * 1 - r /\ B(0) = 0
      BY <1>2, <2>2 DEF Before
    <3>3. QED BY <1>1, <1>2, <2>2, <3>1, <3>2
  <2>3. CASE i \in 2 .. n - 1
    <3>1. list[i].len = p
      BY <1>2, <1>5, <2>3 DEF ScatterList
    <3>2. B(i) = p * i - r /\ B(i - 1) = p * (i - 1) - r
      BY <1>2, <2>3 DEF Before
    <3> HIDE DEF B, list, n, p, r
    <3>3. p * (i - 1) = p * i - p /\ p * i \in Int
      BY <1>1, <1>2, <2>3
    <3>4. QED BY <1>1, <1>2, <2>3, <3>1, <3>2, <3>3
  <2>4. CASE n > 1 /\ i = n
    <3>1. list[i].len = CountAt(start, len, n)
      BY <1>2, <1>5, <2>4 DEF ScatterList
    <3>2. CountAt(start, len, n) = len + r - (n - 1) * p
      BY <2>4 DEF CountAt
    <3>3. B(i) = len /\ B(i - 1) = p * (n - 1) - r
      BY <1>2, <2>4 DEF Before
    <3> HIDE DEF B, list, n, p, r
    <3>4. p * (n - 1) = (n - 1) * p /\ p * (n - 1) \in Int
      BY <1>1, <1>2, <2>4
    <3>5. QED BY <1>1, <1>2, <2>4, <3>1, <3>2, <3>3, <3>4
  <2>5. QED BY <1>2, <1>5, <2>1, <2>2, <2>3, <2>4
<1>6. ASSUME NEW i \in 1 .. n
      PROVE  /\ list[i].addr \in Nat
             /\ \A x \in 0 .. list[i].len - 1 :
                  list[i].addr + x = PhysAddr(start + B(i - 1) + x)
  <2> DEFINE o == IF i = 1 THEN r ELSE 0
             b == B(i) - B(i - 1)
             v == f + i - 1
             q == PhysPage(v)
  <2>1. /\ B(i) \in Nat /\ B(i - 1) \in Nat /\ b \in 1 .. p
        /\ start + B(i - 1) = p * v + o /\ (i = 1 => r + b <= p)
    BY <1>6, BeforeFacts
  <2>2. o \in 0 .. p - 1 /\ o + b <= p
    BY <1>1, <1>2, <2>1
  <2>3. v \in Nat /\ q \in Nat
    BY <1>2, <1>6 DEF PhysOK
  <2>4. list[i].addr = q * p + o /\ list[i].len = b
    BY <1>4, <1>5, <1>6
  <2> HIDE DEF o, b, v, q, B, list, n, p, r, f
  <2>5. q * p \in Nat
    BY <1>1, <2>3
  <2>6. list[i].addr \in Nat
    BY <2>2, <2>4, <2>5
  <2>7. ASSUME NEW x \in 0 .. list[i].len - 1
        PROVE  list[i].addr + x = PhysAddr(start + B(i - 1) + x)
    <3> DEFINE a == p * v + (o + x)
    <3>1. o + x \in 0 .. p - 1
      BY <1>1, <2>1, <2>2, <2>4, <2>7
    <3>2. a \div p = v /\ a % p = o + x
      BY <1>1, <2>3, <3>1, DivUnique
    <3>3. p * v \in Nat
      BY <1>1, <2>3
    <3>4. a = start + B(i - 1) + x
      BY <2>1, <2>2, <2>4, <2>7, <3>3
    <3> HIDE DEF a
    <3>5. PhysAddr(a) = q * p + (o + x)
      BY <3>2 DEF PhysAddr, p, q
    <3>6. QED BY <2>2, <2>4, <2>5, <2>7, <3>4, <3>5, <2>1
  <2>8. QED BY <2>6, <2>7
<1>7. QED BY <1>2, <1>3, <1>5, <1>6

(***************************************************************************)
(* The loop of transfer_build().                                           *)
(***************************************************************************)
Solves(f, n, list, first, fixed, force) ==
  f = [i \in 0 .. n |->
         IF i = 0 THEN first
         ELSE BlockStep(f[i - 1], list[i], list[i + 1], fixed, force)]

\* The recursive definition has a solution.
LEMMA WalkExists ==
  ASSUME NEW n \in Nat, NEW list, NEW first, NEW fixed, NEW force
  PROVE  \E f : Solves(f, n, list, first, fixed, force)
<1> DEFINE Step(w, i) == BlockStep(w, list[i], list[i + 1], fixed, force)
           Good(m) == \E f : f = [i \in 0 .. m |-> IF i = 0 THEN first ELSE Step(f[i - 1], i)]
           G == {m \in 0 .. n : Good(m)}
<1> HIDE DEF Step
<1>1. 0 \in G
  <2> DEFINE f == [i \in 0 .. 0 |-> first]
  <2>1. f = [i \in 0 .. 0 |-> IF i = 0 THEN first ELSE Step(f[i - 1], i)]
    OBVIOUS
  <2>2. Good(0)
    BY <2>1
  <2>3. QED BY <2>2
<1>2. ASSUME NEW m \in 0 .. n - 1, Good(m) PROVE Good(m + 1)
  <2>1. PICK f : f = [i \in 0 .. m |-> IF i = 0 THEN first ELSE Step(f[i - 1], i)]
    BY <1>2
  <2> DEFINE h == [i \in 0 .. m + 1 |-> IF i = m + 1 THEN Step(f[m], m + 1) ELSE f[i]]
  <2>2. m \in Nat /\ m + 1 \in Nat
    OBVIOUS
  <2>3. \A i \in 0 .. m : f[i] = IF i = 0 THEN first ELSE Step(f[i - 1], i)
    BY <2>1
  <2> HIDE DEF Good
  <2>4. \A i \in 0 .. m : h[i] = f[i]
    BY <2>2
  <2>5. h[m + 1] = Step(f[m], m + 1)
    BY <2>2
  <2>6. ASSUME NEW i \in 0 .. m + 1
        PROVE  h[i] = IF i = 0 THEN first ELSE Step(h[i - 1], i)
    <3>1. CASE i = m + 1
      <4>1. i # 0 /\ i - 1 = m /\ m \in 0 .. m
        BY <2>2, <3>1
      <4>2. h[i - 1] = f[m]
        BY <2>4, <4>1
      <4>3. QED BY <2>5, <3>1, <4>1, <4>2
    <3>2. CASE i # m + 1
      <4>1. i \in 0 .. m
        BY <2>2, <2>6, <3>2
      <4>2. i # 0 => h[i - 1] = f[i - 1]
        BY <2>2, <2>4, <4>1
      <4>3. h[i] = f[i]
        BY <2>4, <4>1
      <4>4. QED BY <2>3, <4>1, <4>2, <4>3
    <3>3. QED BY <3>1, <3>2
  <2>7. h = [i \in 0 .. m + 1 |-> IF i = 0 THEN first ELSE Step(h[i - 1], i)]
    <3> DEFINE g == [i \in 0 .. m + 1 |-> IF i = 0 THEN first ELSE Step(h[i - 1], i)]
    <3>1. \A i \in 0 .. m + 1 : h[i] = g[i]
      BY <2>6
    <3>2. QED BY <3>1
  <2>8. QED BY <2>7 DEF Good
<1>3. \A m \in 0 .. n - 1 : m \in G => m + 1 \in G
  BY <1>2
<1> HIDE DEF G
<1>4. n \in G
  BY <1>1, <1>3, UpTo
<1>5. Good(n)
  BY <1>4 DEF G
<1>6. QED BY <1>5 DEF Step, Solves

\* The states of the loop, one from the other.
LEMMA WalkSteps ==
  ASSUME NEW list, Len(list) \in Nat \ {0}, NEW ep_addr, NEW fixed, NEW force
  PROVE  LET w == Walk(list, ep_addr, fixed, force) IN
         /\ w[0] = [out |-> <<>>, host |-> list[1].addr, len |-> 0, ep |-> ep_addr]
         /\ \A i \in 1 .. Len(list) - 1 :
              w[i] = BlockStep(w[i - 1], list[i], list[i + 1], fixed, force)
<1> DEFINE n == Len(list) - 1
           first == [out |-> <<>>, host |-> list[1].addr, len |-> 0, ep |-> ep_addr]
           F(f) == [i \in 0 .. n |->
                      IF i = 0 THEN first
                      ELSE BlockStep(f[i - 1], list[i], list[i + 1], fixed, force)]
           walk == CHOOSE f : f = F(f)
<1>1. n \in Nat
  OBVIOUS
<1>2. Walk(list, ep_addr, fixed, force) = walk
  BY DEF Walk
<1> HIDE DEF first
<1>3. PICK f : f = F(f)
  <2> HIDE DEF n
  <2>1. \E f : Solves(f, n, list, first, fixed, force)
    BY <1>1, WalkExists
  <2>2. QED BY <2>1 DEF Solves
<1>4. walk = F(walk)
  BY <1>3
<1> HIDE DEF walk
<1>5. \A i \in 0 .. n : walk[i] = IF i = 0 THEN first
                        ELSE BlockStep(walk[i - 1], list[i], list[i + 1], fixed, force)
  BY <1>4
<1>6. QED BY <1>1, <1>2, <1>5 DEF first

\* The bytes from host on are those of the buffer from a on.
Maps(host, a, bytes) == \A x \in 0 .. bytes - 1 : host + x = PhysAddr(a + x)

\* Block k of b moves the bytes from off[k - 1] up to off[k] of the buffer at
\* a, from their physical addresses and to the device addresses from ep_addr
\* on; every block but the first begins a page.
Tiling(b, off, a, ep_addr, fixed) ==
  /\ off \in [0 .. Len(b) -> Nat] /\ off[0] = 0
  /\ \A k \in 1 .. Len(b) :
       /\ b[k][1] \in Nat /\ b[k][3] \in 1 .. DescMax
       /\ off[k] = off[k - 1] + b[k][3]
       /\ b[k][2] = NextEp(ep_addr, off[k - 1], fixed)
       /\ Maps(b[k][1], a + off[k - 1], b[k][3])
       /\ k > 1 => (a + off[k - 1]) % PageSize = 0

Tiled(b, a, ep_addr, fixed, total) ==
  \E off \in [0 .. Len(b) -> Nat] :
    Tiling(b, off, a, ep_addr, fixed) /\ off[Len(b)] = total

\* A block is added to those that are closed.
LEMMA TileAppend ==
  ASSUME NEW S, NEW b \in Seq(S), NEW a \in Nat, NEW ep_addr \in Nat,
         NEW fixed \in BOOLEAN, NEW total \in Nat,
         Tiled(b, a, ep_addr, fixed, total),
         NEW host \in Nat, NEW bytes \in 1 .. DescMax,
         Maps(host, a + total, bytes),
         Len(b) > 0 => (a + total) % PageSize = 0,
         <<host, NextEp(ep_addr, total, fixed), bytes>> \in S
  PROVE  LET c == Append(b, <<host, NextEp(ep_addr, total, fixed), bytes>>) IN
         /\ c \in Seq(S) /\ Len(c) = Len(b) + 1
         /\ Tiled(c, a, ep_addr, fixed, total + bytes)
<1> DEFINE e == NextEp(ep_addr, total, fixed)
           t == <<host, e, bytes>>
           c == Append(b, t)
           n == Len(b)
<1>1. n \in Nat /\ t \in S /\ bytes \in Nat
  BY SizesAssumption
<1>2. c \in Seq(S) /\ Len(c) = n + 1
  BY <1>1
<1>3. (\A k \in 1 .. n : c[k] = b[k]) /\ c[n + 1] = t
  BY <1>1
<1>4. PICK off \in [0 .. n -> Nat] :
        Tiling(b, off, a, ep_addr, fixed) /\ off[n] = total
  BY DEF Tiled
<1> DEFINE h == [k \in 0 .. n + 1 |-> IF k = n + 1 THEN total + bytes ELSE off[k]]
<1>5. t[1] = host /\ t[2] = e /\ t[3] = bytes
  OBVIOUS
<1> HIDE DEF c, t, n, e
<1>6. h \in [0 .. n + 1 -> Nat]
  BY <1>1, <1>4
<1>7. (\A k \in 0 .. n : h[k] = off[k]) /\ h[n + 1] = total + bytes
  <2>1. (\A k \in 0 .. n : k \in 0 .. n + 1 /\ k # n + 1) /\ n + 1 \in 0 .. n + 1
    BY <1>1
  <2>2. QED BY <2>1, Zenon
<1> HIDE DEF h
<1>8. Tiling(c, h, a, ep_addr, fixed)
  <2>1. h \in [0 .. Len(c) -> Nat] /\ h[0] = 0
    BY <1>1, <1>2, <1>4, <1>6, <1>7 DEF Tiling
  <2>2. ASSUME NEW k \in 1 .. Len(c)
        PROVE  /\ c[k][1] \in Nat /\ c[k][3] \in 1 .. DescMax
               /\ h[k] = h[k - 1] + c[k][3]
               /\ c[k][2] = NextEp(ep_addr, h[k - 1], fixed)
               /\ Maps(c[k][1], a + h[k - 1], c[k][3])
               /\ k > 1 => (a + h[k - 1]) % PageSize = 0
    <3>1. CASE k = n + 1
      <4>1. h[k - 1] = total /\ h[k] = total + bytes /\ c[k] = t
        <5>1. k - 1 = n /\ n \in 0 .. n
          BY <1>1, <3>1
        <5>2. QED BY <1>3, <1>4, <1>7, <3>1, <5>1
      <4>2. k > 1 => n > 0
        BY <1>1, <3>1
      <4>3. QED BY <1>5, <4>1, <4>2 DEF n, e
    <3>2. CASE k # n + 1
      <4>1. k \in 1 .. n /\ k - 1 \in 0 .. n /\ k \in 0 .. n
        BY <1>1, <1>2, <2>2, <3>2
      <4>2. h[k - 1] = off[k - 1] /\ h[k] = off[k] /\ c[k] = b[k]
        BY <1>3, <1>7, <4>1
      <4>3. /\ b[k][1] \in Nat /\ b[k][3] \in 1 .. DescMax
            /\ off[k] = off[k - 1] + b[k][3]
            /\ b[k][2] = NextEp(ep_addr, off[k - 1], fixed)
            /\ Maps(b[k][1], a + off[k - 1], b[k][3])
            /\ k > 1 => (a + off[k - 1]) % PageSize = 0
        BY <1>4, <4>1 DEF Tiling, n
      <4>4. QED BY <4>2, <4>3
    <3>3. QED BY <3>1, <3>2
  <2>3. QED BY <2>1, <2>2 DEF Tiling
<1>9. Tiled(c, a, ep_addr, fixed, total + bytes)
  BY <1>2, <1>6, <1>7, <1>8 DEF Tiled
<1>10. QED BY <1>2, <1>9 DEF c, t, n, e

BlockSet == Nat \X Nat \X Nat
WalkStates ==
  [out : Seq(BlockSet), host : Nat, len : 0 .. DescMax - PageSize, ep : Nat]

\* The bytes of the first i entries that are in closed blocks.
Closed(v, start, len, i) == Before(start, len, i) - v.len

\* State v of the loop after entry i: the open block holds the bytes that are
\* not in a closed one, and ends where entry i + 1 begins.
LoopInv(v, start, len, i, ep_addr, fixed) ==
  /\ v \in WalkStates /\ Len(v.out) <= i
  /\ Closed(v, start, len, i) \in Nat
  /\ v.host + v.len = ScatterList(start, len)[i + 1].addr
  /\ v.ep = NextEp(ep_addr, Closed(v, start, len, i), fixed)
  /\ Tiled(v.out, start, ep_addr, fixed, Closed(v, start, len, i))
  /\ Maps(v.host, start + Closed(v, start, len, i), v.len)
  /\ Len(v.out) > 0 => (start + Closed(v, start, len, i)) % PageSize = 0

\* Entry i + 1 extends the open block.
LEMMA OpenBlock ==
  ASSUME PhysOK, NEW start \in Nat, NEW len \in Nat \ {0},
         NEW i \in 1 .. NrPages(start, len), NEW ep_addr \in Nat, NEW fixed \in BOOLEAN,
         NEW v, LoopInv(v, start, len, i - 1, ep_addr, fixed)
  PROVE  LET bytes == v.len + ScatterList(start, len)[i].len
             total == Closed(v, start, len, i - 1)
         IN /\ bytes \in 1 .. DescMax /\ total \in Nat
            /\ total + bytes = Before(start, len, i)
            /\ Maps(v.host, start + total, bytes)
<1> DEFINE e == ScatterList(start, len)[i]
           bytes == v.len + e.len
           total == Closed(v, start, len, i - 1)
           b0 == Before(start, len, i - 1)
           b1 == Before(start, len, i)
<1>1. e.len = b1 - b0 /\ e.addr \in Nat
      /\ \A x \in 0 .. e.len - 1 : e.addr + x = PhysAddr(start + b0 + x)
  BY Entries
<1>2. b0 \in Nat /\ b1 \in Nat /\ b1 - b0 \in 1 .. PageSize
  BY BeforeFacts
<1>3. v.len \in 0 .. DescMax - PageSize /\ v.host \in Nat
  BY DEF LoopInv, WalkStates
<1>4. total \in Nat /\ total = b0 - v.len
  BY DEF LoopInv, Closed
<1>5. v.host + v.len = e.addr
  <2>1. (i - 1) + 1 = i
    OBVIOUS
  <2>2. QED BY <2>1 DEF LoopInv
<1>6. \A x \in 0 .. v.len - 1 : v.host + x = PhysAddr(start + total + x)
  BY DEF LoopInv, Maps
<1> HIDE DEF e, total, b0, b1
<1>7. bytes \in 1 .. DescMax /\ total + bytes = b1
  BY <1>1, <1>2, <1>3, <1>4, SizesAssumption
<1>8. ASSUME NEW x \in 0 .. bytes - 1 PROVE v.host + x = PhysAddr(start + total + x)
  <2>1. CASE x < v.len
    <3>1. x \in 0 .. v.len - 1
      BY <1>3, <1>7, <1>8, <2>1
    <3>2. QED BY <1>6, <3>1
  <2>2. CASE x >= v.len
    <3> DEFINE y == x - v.len
    <3>1. y \in 0 .. e.len - 1
      BY <1>1, <1>2, <1>3, <1>7, <1>8, <2>2
    <3>2. start + b0 + y = start + total + x /\ e.addr + y = v.host + x
      BY <1>1, <1>2, <1>3, <1>4, <1>5, <1>7, <1>8
    <3> HIDE DEF y
    <3>3. e.addr + y = PhysAddr(start + b0 + y)
      BY <1>1, <3>1
    <3>4. QED BY <3>2, <3>3
  <2>3. QED BY <1>3, <1>7, <1>8, <2>1, <2>2
<1>9. QED BY <1>4, <1>7, <1>8 DEF e, total, b1, Maps

\* A page begins with every entry but the first.
LEMMA PageBegins ==
  ASSUME NEW start \in Nat, NEW len \in Nat \ {0},
         NEW i \in 1 .. NrPages(start, len) - 1
  PROVE  /\ Before(start, len, i) \in Nat
         /\ (start + Before(start, len, i)) % PageSize = 0
<1> DEFINE b == Before(start, len, i)
           v == FirstPage(start) + i
<1>1. NrPages(start, len) \in Nat \ {0} /\ FirstPage(start) \in Nat
  BY Geometry
<1>2. i + 1 \in 1 .. NrPages(start, len) /\ (i + 1) - 1 = i /\ i + 1 # 1
  BY <1>1
<1>3. /\ b \in Nat
      /\ start + b = PageSize * (FirstPage(start) + (i + 1) - 1) + 0
  BY <1>2, BeforeFacts
<1>4. v \in Nat /\ FirstPage(start) + (i + 1) - 1 = v
  BY <1>1
<1> HIDE DEF b, v
<1>5. start + b = PageSize * v + 0
  BY <1>3, <1>4
<1>6. 0 \in 0 .. PageSize - 1
  BY SizesAssumption
<1>7. (PageSize * v + 0) % PageSize = 0
  BY <1>4, <1>6, DivUnique, SizesAssumption
<1>8. QED BY <1>3, <1>5, <1>7 DEF b

LEMMA EpChain ==
  ASSUME NEW ep_addr \in Nat, NEW x \in Nat, NEW y \in Nat, NEW fixed \in BOOLEAN
  PROVE  /\ NextEp(ep_addr, x, fixed) \in Nat /\ NextEp(ep_addr, 0, fixed) = ep_addr
         /\ NextEp(NextEp(ep_addr, x, fixed), y, fixed) = NextEp(ep_addr, x + y, fixed)
BY DEF NextEp

\* The open block is closed.
LEMMA CloseBlock ==
  ASSUME PhysOK, NEW start \in Nat, NEW len \in Nat \ {0},
         NEW i \in 1 .. NrPages(start, len), NEW ep_addr \in Nat, NEW fixed \in BOOLEAN,
         NEW v, LoopInv(v, start, len, i - 1, ep_addr, fixed)
  PROVE  LET c == Append(v.out, <<v.host, v.ep, v.len + ScatterList(start, len)[i].len>>)
         IN /\ c \in Seq(BlockSet) /\ Len(c) = Len(v.out) + 1 /\ Len(c) <= i
            /\ Tiled(c, start, ep_addr, fixed, Before(start, len, i))
<1> DEFINE bytes == v.len + ScatterList(start, len)[i].len
           total == Closed(v, start, len, i - 1)
           c == Append(v.out, <<v.host, v.ep, bytes>>)
<1>1. /\ bytes \in 1 .. DescMax /\ total \in Nat
      /\ total + bytes = Before(start, len, i)
      /\ Maps(v.host, start + total, bytes)
  BY OpenBlock
<1>2. /\ v.out \in Seq(BlockSet) /\ v.host \in Nat
      /\ v.ep = NextEp(ep_addr, total, fixed) /\ v.ep \in Nat
      /\ Tiled(v.out, start, ep_addr, fixed, total)
      /\ Len(v.out) > 0 => (start + total) % PageSize = 0
      /\ Len(v.out) <= i - 1
  BY DEF LoopInv, WalkStates
<1> HIDE DEF bytes, total
<1>3. bytes \in Nat
  BY <1>1, SizesAssumption
<1>4. <<v.host, v.ep, bytes>> \in BlockSet
  BY <1>2, <1>3 DEF BlockSet
<1>5. /\ c \in Seq(BlockSet) /\ Len(c) = Len(v.out) + 1
      /\ Tiled(c, start, ep_addr, fixed, total + bytes)
  <2>1. <<v.host, NextEp(ep_addr, total, fixed), bytes>> \in BlockSet
    BY <1>2, <1>4
  <2> DEFINE o == v.out
             h == v.host
             d == Append(o, <<h, NextEp(ep_addr, total, fixed), bytes>>)
  <2>2. /\ o \in Seq(BlockSet) /\ h \in Nat /\ Tiled(o, start, ep_addr, fixed, total)
        /\ Maps(h, start + total, bytes)
        /\ Len(o) > 0 => (start + total) % PageSize = 0
        /\ <<h, NextEp(ep_addr, total, fixed), bytes>> \in BlockSet
    BY <1>1, <1>2, <2>1
  <2>3. d = c
    BY <1>2
  <2> HIDE DEF o, h
  <2>4. /\ d \in Seq(BlockSet) /\ Len(d) = Len(o) + 1
        /\ Tiled(d, start, ep_addr, fixed, total + bytes)
    BY <1>1, <2>2, TileAppend
  <2>5. QED BY <2>3, <2>4 DEF o
<1>6. Len(v.out) \in Nat
  BY <1>2
<1>7. QED BY <1>1, <1>2, <1>5, <1>6 DEF bytes

LEMMA LoopStep ==
  ASSUME PhysOK, NEW start \in Nat, NEW len \in Nat \ {0},
         NEW i \in 1 .. NrPages(start, len) - 1, NEW ep_addr \in Nat,
         NEW fixed \in BOOLEAN, NEW force \in BOOLEAN,
         NEW v, LoopInv(v, start, len, i - 1, ep_addr, fixed)
  PROVE  LoopInv(BlockStep(v, ScatterList(start, len)[i], ScatterList(start, len)[i + 1],
                           fixed, force), start, len, i, ep_addr, fixed)
<1> DEFINE n == NrPages(start, len)
           e == ScatterList(start, len)[i]
           next == ScatterList(start, len)[i + 1]
           bytes == v.len + e.len
           total == Closed(v, start, len, i - 1)
           b == Before(start, len, i)
           u == BlockStep(v, e, next, fixed, force)
           c == Append(v.out, <<v.host, v.ep, bytes>>)
<1>1. n \in Nat \ {0} /\ i \in 1 .. n /\ i + 1 \in 1 .. n
  <2>1. n \in Nat \ {0} /\ i \in 1 .. n - 1
    BY Geometry
  <2> HIDE DEF n
  <2>2. QED BY <2>1
<1>2. /\ bytes \in 1 .. DescMax /\ total \in Nat /\ total + bytes = b
      /\ Maps(v.host, start + total, bytes)
  BY <1>1, OpenBlock
<1>3. /\ c \in Seq(BlockSet) /\ Len(c) <= i /\ Len(c) = Len(v.out) + 1
      /\ Tiled(c, start, ep_addr, fixed, b)
  BY <1>1, CloseBlock
<1>4. next.addr \in Nat /\ e.addr \in Nat
  BY <1>1, Entries
<1>5. b \in Nat /\ (start + b) % PageSize = 0
  BY PageBegins
<1>6. v \in WalkStates /\ v.ep = NextEp(ep_addr, total, fixed)
      /\ Tiled(v.out, start, ep_addr, fixed, total) /\ Len(v.out) <= i - 1
      /\ (Len(v.out) > 0 => (start + total) % PageSize = 0)
      /\ total = Before(start, len, i - 1) - v.len
  BY DEF LoopInv, Closed
<1>7. v.host + v.len = e.addr
  <2>1. (i - 1) + 1 = i
    OBVIOUS
  <2>2. QED BY <2>1 DEF LoopInv
<1>8. /\ v.out \in Seq(BlockSet) /\ v.host \in Nat /\ v.len \in 0 .. DescMax - PageSize
      /\ v.ep \in Nat
  BY <1>6 DEF WalkStates
<1>9. CASE NewDescriptor(e, next, bytes, force)
  <2>1. u = [out |-> c, host |-> next.addr, len |-> 0, ep |-> NextEp(v.ep, bytes, fixed)]
    BY <1>9 DEF BlockStep
  <2>2. u.out = c /\ u.host = next.addr /\ u.len = 0 /\ u.ep = NextEp(v.ep, bytes, fixed)
    BY <2>1
  <2>3. bytes \in Nat
    BY <1>2, SizesAssumption
  <2> HIDE DEF c, next, e, total, b, bytes, n
  <2>4. NextEp(v.ep, bytes, fixed) = NextEp(ep_addr, b, fixed) /\ u.ep \in Nat
    <3>1. NextEp(NextEp(ep_addr, total, fixed), bytes, fixed) = NextEp(ep_addr, total + bytes, fixed)
      BY <1>2, <2>3, EpChain
    <3>2. NextEp(v.ep, bytes, fixed) \in Nat
      BY <1>8, <2>3, EpChain
    <3>3. QED BY <1>2, <1>6, <2>2, <3>1, <3>2
  <2>5. u \in WalkStates
    <3>1. 0 \in 0 .. DescMax - PageSize
      BY SizesAssumption
    <3>2. QED BY <1>3, <1>4, <2>1, <2>2, <2>4, <3>1 DEF WalkStates
  <2>6. Closed(u, start, len, i) = b
    BY <1>5, <2>2 DEF Closed, b
  <2>7. Maps(u.host, start + b, u.len)
    BY <2>2 DEF Maps
  <2>8. u.host + u.len = next.addr
    BY <1>4, <2>2
  <2> HIDE DEF u
  <2>9. LoopInv(u, start, len, i, ep_addr, fixed)
    BY <1>3, <1>5, <2>2, <2>4, <2>5, <2>6, <2>7, <2>8 DEF LoopInv, next
  <2>10. QED BY <2>9 DEF u, e, next
<1>10. CASE ~NewDescriptor(e, next, bytes, force)
  <2>1. u = [v EXCEPT !.len = bytes]
    BY <1>10 DEF BlockStep
  <2>2. next.addr = e.addr + e.len /\ ~(bytes > DescMax - PageSize)
    BY <1>10 DEF NewDescriptor
  <2>3. e.len \in Int
    <3>1. e.len = b - Before(start, len, i - 1)
      BY <1>1, Entries
    <3>2. Before(start, len, i - 1) \in Nat
      BY <1>1, BeforeFacts
    <3>3. QED BY <1>5, <3>1, <3>2
  <2> HIDE DEF c, next, e, total, b, n
  <2>4. bytes \in 0 .. DescMax - PageSize
    BY <1>2, <2>2, SizesAssumption
  <2>5. bytes = v.len + e.len
    OBVIOUS
  <2> HIDE DEF bytes
  <2>6. u.out = v.out /\ u.host = v.host /\ u.len = bytes /\ u.ep = v.ep /\ u \in WalkStates
    BY <1>6, <2>1, <2>4 DEF WalkStates
  <2>7. Closed(u, start, len, i) = total
    <3>1. Closed(u, start, len, i) = b - bytes
      BY <2>6 DEF Closed, b
    <3>2. QED BY <1>2, <2>4, <3>1
  <2>8. u.host + u.len = next.addr
    <3> DEFINE x == v.host
               y == v.len
               z == e.len
               a == e.addr
    <3>1. x \in Nat /\ y \in Int /\ z \in Int /\ x + y = a /\ next.addr = a + z
          /\ u.host + u.len = x + (y + z)
      BY <1>7, <1>8, <2>2, <2>3, <2>5, <2>6
    <3> HIDE DEF x, y, z, a
    <3>2. QED BY <3>1
  <2>9. Len(u.out) <= i
    BY <1>6, <1>8, <2>6
  <2> HIDE DEF u
  <2>10. LoopInv(u, start, len, i, ep_addr, fixed)
    BY <1>2, <1>6, <2>6, <2>7, <2>8, <2>9 DEF LoopInv, next
  <2>11. QED BY <2>10 DEF u, e, next
<1>11. QED BY <1>9, <1>10

LEMMA LoopStart ==
  ASSUME PhysOK, NEW start \in Nat, NEW len \in Nat \ {0}, NEW ep_addr \in Nat,
         NEW fixed \in BOOLEAN
  PROVE  LoopInv([out |-> <<>>, host |-> ScatterList(start, len)[1].addr, len |-> 0,
                  ep |-> ep_addr], start, len, 0, ep_addr, fixed)
<1> DEFINE h == ScatterList(start, len)[1].addr
           v == [out |-> <<>>, host |-> h, len |-> 0, ep |-> ep_addr]
<1>1. h \in Nat
  <2>1. 1 \in 1 .. NrPages(start, len)
    BY Geometry
  <2>2. QED BY <2>1, Entries
<1>2. Before(start, len, 0) = 0
  BY DEF Before
<1>3. v.out = <<>> /\ v.host = h /\ v.len = 0 /\ v.ep = ep_addr
  OBVIOUS
<1>4. Closed(v, start, len, 0) = 0
  BY <1>2, <1>3 DEF Closed
<1>5. v \in WalkStates
  BY <1>1, SizesAssumption DEF WalkStates
<1>6. Tiled(<<>>, start, ep_addr, fixed, 0)
  <2> DEFINE off == [k \in 0 .. 0 |-> 0]
  <2>1. Len(<<>>) = 0 /\ off \in [0 .. 0 -> Nat] /\ off[0] = 0
    OBVIOUS
  <2> HIDE DEF off
  <2>2. Tiling(<<>>, off, start, ep_addr, fixed)
    BY <2>1 DEF Tiling
  <2>3. QED BY <2>1, <2>2 DEF Tiled
<1>7. Maps(h, start + 0, 0)
  BY DEF Maps
<1>8. ep_addr = NextEp(ep_addr, 0, fixed)
  BY EpChain
<1>9. h + 0 = ScatterList(start, len)[0 + 1].addr
  BY <1>1
<1> HIDE DEF v, h
<1>10. LoopInv(v, start, len, 0, ep_addr, fixed)
  BY <1>3, <1>4, <1>5, <1>6, <1>7, <1>8, <1>9 DEF LoopInv
<1>11. QED BY <1>10 DEF v, h

\* The invariant of the loop holds after every entry.
LEMMA LoopHolds ==
  ASSUME PhysOK, NEW start \in Nat, NEW len \in Nat \ {0}, NEW ep_addr \in Nat,
         NEW fixed \in BOOLEAN, NEW force \in BOOLEAN
  PROVE  \A i \in 0 .. NrPages(start, len) - 1 :
           LoopInv(Walk(ScatterList(start, len), ep_addr, fixed, force)[i],
                   start, len, i, ep_addr, fixed)
<1> DEFINE list == ScatterList(start, len)
           n == NrPages(start, len)
           w == Walk(list, ep_addr, fixed, force)
           G == {i \in 0 .. n - 1 : LoopInv(w[i], start, len, i, ep_addr, fixed)}
<1>1. n \in Nat \ {0} /\ Len(list) = n
  BY Entries
<1>2. /\ w[0] = [out |-> <<>>, host |-> list[1].addr, len |-> 0, ep |-> ep_addr]
      /\ \A i \in 1 .. n - 1 :
           w[i] = BlockStep(w[i - 1], list[i], list[i + 1], fixed, force)
  <2> HIDE DEF list, n
  <2>1. QED BY <1>1, WalkSteps
<1>3. LoopInv(w[0], start, len, 0, ep_addr, fixed)
  <2>1. LoopInv([out |-> <<>>, host |-> list[1].addr, len |-> 0, ep |-> ep_addr],
                start, len, 0, ep_addr, fixed)
    BY LoopStart
  <2> HIDE DEF w, list
  <2>2. QED BY <1>2, <2>1
<1>4. ASSUME NEW i \in 0 .. n - 2, LoopInv(w[i], start, len, i, ep_addr, fixed)
      PROVE  LoopInv(w[i + 1], start, len, i + 1, ep_addr, fixed)
  <2> DEFINE j == i + 1
  <2>1. j \in 1 .. n - 1 /\ j - 1 = i
    BY <1>1
  <2> HIDE DEF w, j, n
  <2>2. LoopInv(w[j - 1], start, len, j - 1, ep_addr, fixed)
    BY <1>4, <2>1
  <2>3. LoopInv(BlockStep(w[j - 1], list[j], list[j + 1], fixed, force),
                start, len, j, ep_addr, fixed)
    BY <2>1, <2>2, LoopStep DEF n
  <2> HIDE DEF list
  <2>4. QED BY <1>2, <2>1, <2>3 DEF j
<1>5. \A i \in 0 .. n - 1 : i \in G
  <2> HIDE DEF w, n
  <2>1. 0 \in G
    BY <1>1, <1>3
  <2>2. \A i \in 0 .. (n - 1) - 1 : i \in G => i + 1 \in G
    BY <1>1, <1>4
  <2>3. n - 1 \in Nat
    BY <1>1
  <2> HIDE DEF G
  <2>4. QED BY <2>1, <2>2, <2>3, UpTo
<1>6. QED BY <1>5

\* transfer_build() cuts the buffer into blocks, no more than it has entries.
LEMMA BlocksTile ==
  ASSUME PhysOK, NEW start \in Nat, NEW len \in Nat \ {0}, NEW ep_addr \in Nat,
         NEW fixed \in BOOLEAN, NEW force \in BOOLEAN
  PROVE  LET list == ScatterList(start, len)
             b == Blocks(list, ep_addr, fixed, force)
         IN /\ b \in Seq(BlockSet) /\ Len(b) \in 1 .. Len(list)
            /\ Tiled(b, start, ep_addr, fixed, len)
<1> DEFINE list == ScatterList(start, len)
           n == NrPages(start, len)
           w == Walk(list, ep_addr, fixed, force)
           v == w[n - 1]
<1>1. n \in Nat \ {0} /\ Len(list) = n
  BY Entries
<1>2. v.out \in Seq(BlockSet) /\ LoopInv(v, start, len, n - 1, ep_addr, fixed)
  <2>1. n - 1 \in 0 .. n - 1
    BY <1>1
  <2>2. LoopInv(v, start, len, n - 1, ep_addr, fixed)
    BY <2>1, LoopHolds
  <2> HIDE DEF v
  <2>3. QED BY <2>2 DEF LoopInv, WalkStates
<1>3. Blocks(list, ep_addr, fixed, force) =
        Append(v.out, <<v.host, v.ep, v.len + list[n].len>>)
  <2> HIDE DEF list
  <2>1. QED BY <1>1 DEF Blocks
<1> DEFINE c == Append(v.out, <<v.host, v.ep, v.len + list[n].len>>)
<1>4. /\ c \in Seq(BlockSet) /\ Len(c) = Len(v.out) + 1 /\ Len(c) <= n
      /\ Tiled(c, start, ep_addr, fixed, Before(start, len, n))
  <2> HIDE DEF v
  <2>1. n \in 1 .. n
    BY <1>1
  <2>2. QED BY <1>2, <2>1, CloseBlock
<1>5. Before(start, len, n) = len
  BY <1>1 DEF Before
<1> HIDE DEF v
<1>6. Len(v.out) \in Nat
  BY <1>2
<1> HIDE DEF c, n, list
<1>7. QED BY <1>1, <1>3, <1>4, <1>5, <1>6 DEF list, c

(***************************************************************************)
(* The ring: every page its own descriptor.                                *)
(***************************************************************************)
LEMMA ForcedBlocks ==
  ASSUME PhysOK, NEW start \in Nat, NEW len \in Nat \ {0}, NEW ep_addr \in Nat,
         NEW fixed \in BOOLEAN
  PROVE  LET list == ScatterList(start, len)
             b == Blocks(list, ep_addr, fixed, TRUE)
         IN /\ Len(b) = Len(list)
            /\ \A k \in 1 .. Len(list) : b[k][1] = list[k].addr
<1> DEFINE list == ScatterList(start, len)
           n == NrPages(start, len)
           w == Walk(list, ep_addr, fixed, TRUE)
           Good(v, i) == /\ Len(v.out) = i /\ v.host = list[i + 1].addr
                         /\ \A k \in 1 .. i : v.out[k][1] = list[k].addr
           G == {i \in 0 .. n - 1 : Good(w[i], i)}
           v == w[n - 1]
<1>1. n \in Nat \ {0} /\ Len(list) = n
  BY Entries
<1>2. /\ w[0] = [out |-> <<>>, host |-> list[1].addr, len |-> 0, ep |-> ep_addr]
      /\ \A i \in 1 .. n - 1 :
           w[i] = BlockStep(w[i - 1], list[i], list[i + 1], fixed, TRUE)
  <2> HIDE DEF list, n
  <2>1. Len(list) \in Nat \ {0}
    BY <1>1
  <2>2. ASSUME NEW force
        PROVE  LET u == Walk(list, ep_addr, fixed, force) IN
               /\ u[0] = [out |-> <<>>, host |-> list[1].addr, len |-> 0, ep |-> ep_addr]
               /\ \A i \in 1 .. Len(list) - 1 :
                    u[i] = BlockStep(u[i - 1], list[i], list[i + 1], fixed, force)
    BY <2>1, WalkSteps
  <2>3. QED BY <1>1, <2>2, Zenon
<1>3. \A i \in 0 .. n - 1 : w[i].out \in Seq(BlockSet)
  <2>1. \A i \in 0 .. n - 1 : LoopInv(w[i], start, len, i, ep_addr, fixed)
    BY LoopHolds
  <2> HIDE DEF w, n
  <2>2. QED BY <2>1 DEF LoopInv, WalkStates
<1> HIDE DEF w, list, n
<1>4. Good(w[0], 0)
  BY <1>2
<1>5. ASSUME NEW i \in 0 .. n - 2, Good(w[i], i) PROVE Good(w[i + 1], i + 1)
  <2> DEFINE u == w[i]
             e == list[i + 1]
             t == <<u.host, u.ep, u.len + e.len>>
  <2>1. i + 1 \in 1 .. n - 1 /\ (i + 1) - 1 = i /\ i \in 0 .. n - 1
    BY <1>1
  <2>2. w[i + 1] = BlockStep(u, e, list[(i + 1) + 1], fixed, TRUE)
    BY <1>2, <2>1
  <2>3. w[i + 1].out = Append(u.out, t) /\ w[i + 1].host = list[(i + 1) + 1].addr
    BY <2>2 DEF BlockStep, NewDescriptor
  <2>4. u.out \in Seq(BlockSet) /\ Len(u.out) = i /\ u.host = e.addr
        /\ \A k \in 1 .. i : u.out[k][1] = list[k].addr
    BY <1>3, <1>5, <2>1
  <2>5. t[1] = u.host
    OBVIOUS
  <2> HIDE DEF t, u
  <2>6. Len(Append(u.out, t)) = i + 1
        /\ \A k \in 1 .. i + 1 : Append(u.out, t)[k] = IF k = i + 1 THEN t ELSE u.out[k]
    BY <2>4
  <2>7. \A k \in 1 .. i + 1 : Append(u.out, t)[k][1] = list[k].addr
    <3>1. SUFFICES ASSUME NEW k \in 1 .. i + 1 PROVE Append(u.out, t)[k][1] = list[k].addr
      OBVIOUS
    <3>2. CASE k = i + 1
      BY <2>4, <2>5, <2>6, <3>2
    <3>3. CASE k # i + 1
      <4>1. k \in 1 .. i
        BY <3>1, <3>3, <2>1
      <4>2. QED BY <2>4, <2>6, <3>3, <4>1
    <3>4. QED BY <3>2, <3>3
  <2>8. QED BY <2>3, <2>6, <2>7
<1>6. Good(v, n - 1)
  <2>1. 0 \in G
    BY <1>1, <1>4
  <2>2. \A i \in 0 .. (n - 1) - 1 : i \in G => i + 1 \in G
    BY <1>1, <1>5
  <2>3. n - 1 \in Nat /\ n - 1 \in 0 .. n - 1
    BY <1>1
  <2>4. n - 1 \in G
    <3> HIDE DEF G
    <3>1. QED BY <2>1, <2>2, <2>3, UpTo
  <2>5. QED BY <2>4
<1>7. Blocks(list, ep_addr, fixed, TRUE) =
        Append(v.out, <<v.host, v.ep, v.len + list[n].len>>)
  BY <1>1 DEF Blocks, w
<1>8. v.out \in Seq(BlockSet)
  BY <1>1, <1>3
<1> DEFINE t == <<v.host, v.ep, v.len + list[n].len>>
<1>9. t[1] = v.host
  OBVIOUS
<1>10. /\ Len(v.out) = n - 1 /\ v.host = list[n].addr
       /\ \A k \in 1 .. n - 1 : v.out[k][1] = list[k].addr
  <2>1. (n - 1) + 1 = n
    BY <1>1
  <2>2. QED BY <1>6, <2>1
<1> HIDE DEF t, v
<1>11. /\ Len(Append(v.out, t)) = n
       /\ \A k \in 1 .. n : Append(v.out, t)[k] = IF k = n THEN t ELSE v.out[k]
  BY <1>1, <1>8, <1>10
<1>12. ASSUME NEW k \in 1 .. n PROVE Append(v.out, t)[k][1] = list[k].addr
  <2>1. CASE k = n
    BY <1>9, <1>10, <1>11, <1>12, <2>1
  <2>2. CASE k # n
    <3>1. k \in 1 .. n - 1
      BY <1>1, <1>12, <2>2
    <3>2. QED BY <1>10, <1>11, <1>12, <2>2, <3>1
  <2>3. QED BY <2>1, <2>2
<1>13. QED BY <1>1, <1>7, <1>11, <1>12 DEF t, list

\* The list of the ring: RingPages whole pages.
LEMMA RingList ==
  ASSUME PhysOK
  PROVE  LET list == ScatterList(0, RingLen) IN
         /\ RingLen \in Nat \ {0} /\ Len(list) = RingPages
         /\ \A k \in 1 .. RingPages : list[k].addr = PhysPage(k - 1) * PageSize
<1> DEFINE p == PageSize
           R == RingPages
           list == ScatterList(0, RingLen)
<1>1. p \in Nat \ {0} /\ R \in Nat \ {0}
  BY SizesAssumption
<1>2. RingLen = R * p
  BY DEF RingLen
<1> HIDE DEF p, R
<1>3. RingLen \in Nat \ {0} /\ 0 + RingLen - 1 = p * (R - 1) + (p - 1) /\ 0 = p * 0 + 0
  <2>1. R * p = p * (R - 1) + p /\ p * (R - 1) \in Nat
    BY <1>1
  <2>2. QED BY <1>1, <1>2, <2>1
<1>4. R - 1 \in Nat /\ p - 1 \in 0 .. p - 1 /\ 0 \in 0 .. p - 1
  BY <1>1
<1>5. (0 + RingLen - 1) \div p = R - 1 /\ 0 \div p = 0 /\ 0 % p = 0
  <2>1. (p * (R - 1) + (p - 1)) \div p = R - 1
    BY <1>1, <1>4, DivUnique
  <2>2. (p * 0 + 0) \div p = 0 /\ (p * 0 + 0) % p = 0
    BY <1>1, <1>4, DivUnique
  <2>3. QED BY <1>3, <2>1, <2>2
<1>6. NrPages(0, RingLen) = R
  BY <1>1, <1>5 DEF NrPages, LastPage, FirstPage, p
<1>7. Len(list) = R
  BY <1>1, <1>6 DEF ScatterList
<1>8. ASSUME NEW k \in 1 .. R PROVE list[k].addr = PhysPage(k - 1) * p
  <2>1. list[k].addr = PhysPage(FirstPage(0) + k - 1) * p + (IF k = 1 THEN 0 % p ELSE 0)
    BY <1>6, <1>8 DEF ScatterList, p
  <2>2. FirstPage(0) + k - 1 = k - 1 /\ k - 1 \in Nat
    BY <1>1, <1>5, <1>8 DEF FirstPage, p
  <2>3. PhysPage(k - 1) * p \in Nat
    <3>1. PhysPage(k - 1) \in Nat
      BY <2>2 DEF PhysOK
    <3>2. QED BY <1>1, <3>1
  <2>4. QED BY <1>5, <2>1, <2>2, <2>3
<1>9. QED BY <1>3, <1>7, <1>8 DEF p, R

(***************************************************************************)
(* The descriptor tables.                                                  *)
(***************************************************************************)
\* Tiling, said of descriptors.
DescTiling(d, off, a, ep_addr, fixed) ==
  /\ off \in [0 .. Len(d) -> Nat] /\ off[0] = 0
  /\ \A k \in 1 .. Len(d) :
       /\ d[k].host \in Nat /\ d[k].bytes \in 1 .. DescMax
       /\ off[k] = off[k - 1] + d[k].bytes
       /\ d[k].ep = NextEp(ep_addr, off[k - 1], fixed)
       /\ Maps(d[k].host, a + off[k - 1], d[k].bytes)
       /\ k > 1 => (a + off[k - 1]) % PageSize = 0

\* The links and the adjacent counts; the last descriptor links to last.
Linked(d, last) ==
  /\ Len(d) \in Nat \ {0}
  /\ \A k \in 1 .. Len(d) :
       /\ d[k].next = IF k = Len(d) THEN last ELSE k
       /\ d[k].adj = ExtraAdj(k - 1, Len(d))

Descriptors ==
  [host : Nat, ep : Nat, bytes : Nat, next : Nat \cup {Stop}, adj : 0 .. MaxExtraAdj]

\* The neighbours fetched with the next descriptor are in the table, and in
\* the 4 KB page of that one.
LEMMA ExtraAdjFacts ==
  ASSUME NEW n \in Nat \ {0}, NEW i \in 0 .. n - 1
  PROVE  /\ ExtraAdj(i, n) \in 0 .. MaxExtraAdj
         /\ i < n - 1 =>
              /\ i + 1 + ExtraAdj(i, n) < n
              /\ (i + 1 + ExtraAdj(i, n)) \div DescsPerPage = (i + 1) \div DescsPerPage
         /\ i = n - 1 => ExtraAdj(i, n) = 0
<1> DEFINE D == DescsPerPage
           m == (i + 1) % D
           q == (i + 1) \div D
           x == ExtraAdj(i, n)
<1>1. D \in Nat \ {0} /\ MaxExtraAdj \in Nat /\ MaxExtraAdj < D
  BY SizesAssumption
<1>2. q \in Nat /\ m \in 0 .. D - 1 /\ i + 1 = D * q + m
  <2>1. i + 1 \in Nat
    OBVIOUS
  <2> HIDE DEF D
  <2>2. QED BY <1>1, <2>1, DivMod
<1>3. CASE i = n - 1
  BY <1>1, <1>3 DEF ExtraAdj
<1>4. CASE i < n - 1
  <2>1. x = Min2(Min2(n - i - 2, MaxExtraAdj), D - m - 1)
    BY <1>4 DEF ExtraAdj
  <2> HIDE DEF x, m, q, D
  <2>2. x \in Nat /\ x <= n - i - 2 /\ x <= MaxExtraAdj /\ x <= D - m - 1
    <3> DEFINE y == Min2(n - i - 2, MaxExtraAdj)
    <3>1. y \in Nat /\ y <= n - i - 2 /\ y <= MaxExtraAdj
      BY <1>1, <1>4 DEF Min2
    <3>2. D - m - 1 \in Nat
      BY <1>1, <1>2
    <3> HIDE DEF y
    <3>3. x = Min2(y, D - m - 1)
      BY <2>1 DEF y
    <3>4. QED BY <1>1, <1>4, <3>1, <3>2, <3>3 DEF Min2
  <2>3. m + x \in 0 .. D - 1
    BY <1>1, <1>2, <2>2
  <2>4. (D * q + (m + x)) \div D = q
    BY <1>1, <1>2, <2>3, DivUnique
  <2>5. D * q \in Nat
    BY <1>1, <1>2
  <2>6. i + 1 + x = D * q + (m + x)
    BY <1>2, <2>2, <2>5
  <2>7. i + 1 + x < n
    BY <1>4, <2>2
  <2>8. QED BY <1>1, <1>4, <2>2, <2>4, <2>6, <2>7 DEF x, D, q
<1>5. QED BY <1>3, <1>4

\* What a table is: it fits the list, is linked, and tiles the transfer.
BuiltTable(start, len, ep_addr, fixed, force) ==
  LET list == ScatterList(start, len)
      b == Blocks(list, ep_addr, fixed, force)
      d == Table(list, ep_addr, fixed, force)
  IN /\ Len(d) = Len(b) /\ Len(d) \in 1 .. Len(list) /\ Len(list) \in Nat
     /\ d \in Seq(Descriptors) /\ Linked(d, Stop)
     /\ \A k \in 1 .. Len(d) : d[k].host = b[k][1]
     /\ \E off \in [0 .. Len(d) -> Nat] :
          DescTiling(d, off, start, ep_addr, fixed) /\ off[Len(d)] = len

\* transfer_create() builds such a table.
LEMMA TableFacts ==
  ASSUME PhysOK, NEW start \in Nat, NEW len \in Nat \ {0}, NEW ep_addr \in Nat,
         NEW fixed \in BOOLEAN, NEW force \in BOOLEAN
  PROVE  BuiltTable(start, len, ep_addr, fixed, force)
<1> DEFINE list == ScatterList(start, len)
           b == Blocks(list, ep_addr, fixed, force)
           d == Table(list, ep_addr, fixed, force)
           n == Len(b)
<1>1. b \in Seq(BlockSet) /\ n \in 1 .. Len(list) /\ Tiled(b, start, ep_addr, fixed, len)
  BY BlocksTile
<1>2. Len(list) \in Nat
  BY Entries
<1> HIDE DEF list
<1>3. n \in Nat \ {0}
  BY <1>1, <1>2
<1>4. d = [i \in 1 .. n |->
             [host |-> b[i][1], ep |-> b[i][2], bytes |-> b[i][3],
              next |-> IF i = n THEN Stop ELSE i, adj |-> ExtraAdj(i - 1, n)]]
  BY DEF Table
<1> HIDE DEF d, b, n
<1>5. Len(d) = n
  BY <1>3, <1>4
<1>6. \A k \in 1 .. n : /\ d[k].host = b[k][1] /\ d[k].ep = b[k][2]
                        /\ d[k].bytes = b[k][3] /\ d[k].adj = ExtraAdj(k - 1, n)
                        /\ d[k].next = IF k = n THEN Stop ELSE k
  BY <1>4
<1>7. Linked(d, Stop)
  BY <1>3, <1>5, <1>6 DEF Linked
<1>8. d \in Seq(Descriptors)
  <2>1. ASSUME NEW k \in 1 .. n PROVE d[k] \in Descriptors
    <3>1. b[k] \in BlockSet
      BY <1>1, <2>1 DEF n
    <3>2. b[k][1] \in Nat /\ b[k][2] \in Nat /\ b[k][3] \in Nat
      BY <3>1 DEF BlockSet
    <3>3. ExtraAdj(k - 1, n) \in 0 .. MaxExtraAdj
      <4>1. k - 1 \in 0 .. n - 1
        BY <1>3, <2>1
      <4>2. QED BY <1>3, <4>1, ExtraAdjFacts
    <3>4. (IF k = n THEN Stop ELSE k) \in Nat \cup {Stop}
      BY <1>3, <2>1
    <3>5. d[k] = [host |-> b[k][1], ep |-> b[k][2], bytes |-> b[k][3],
                  next |-> IF k = n THEN Stop ELSE k, adj |-> ExtraAdj(k - 1, n)]
      BY <1>4, <2>1
    <3>6. QED BY <3>2, <3>3, <3>4, <3>5 DEF Descriptors
  <2>2. QED BY <1>3, <1>4, <2>1
<1>9. \E off \in [0 .. Len(d) -> Nat] :
        DescTiling(d, off, start, ep_addr, fixed) /\ off[Len(d)] = len
  <2>1. PICK off \in [0 .. n -> Nat] :
          Tiling(b, off, start, ep_addr, fixed) /\ off[n] = len
    BY <1>1 DEF Tiled, n
  <2>2. ASSUME NEW k \in 1 .. n
        PROVE  /\ d[k].host \in Nat /\ d[k].bytes \in 1 .. DescMax
               /\ off[k] = off[k - 1] + d[k].bytes
               /\ d[k].ep = NextEp(ep_addr, off[k - 1], fixed)
               /\ Maps(d[k].host, start + off[k - 1], d[k].bytes)
               /\ k > 1 => (start + off[k - 1]) % PageSize = 0
    <3>1. /\ b[k][1] \in Nat /\ b[k][3] \in 1 .. DescMax
          /\ off[k] = off[k - 1] + b[k][3]
          /\ b[k][2] = NextEp(ep_addr, off[k - 1], fixed)
          /\ Maps(b[k][1], start + off[k - 1], b[k][3])
          /\ k > 1 => (start + off[k - 1]) % PageSize = 0
      BY <2>1, <2>2 DEF Tiling, n
    <3>2. /\ d[k].host = b[k][1] /\ d[k].ep = b[k][2] /\ d[k].bytes = b[k][3]
      BY <1>6, <2>2
    <3>3. QED BY <3>1, <3>2
  <2>3. off \in [0 .. n -> Nat] /\ off[0] = 0
    BY <2>1 DEF Tiling
  <2>4. DescTiling(d, off, start, ep_addr, fixed)
    BY <1>5, <2>2, <2>3 DEF DescTiling
  <2>5. QED BY <1>5, <2>1, <2>4
<1>10. QED BY <1>1, <1>2, <1>5, <1>6, <1>7, <1>8, <1>9 DEF d, n, b, list, BuiltTable

\* The table of the ring.
LEMMA RingFacts ==
  ASSUME PhysOK
  PROVE  /\ RingTable \in Seq(Descriptors) /\ Linked(RingTable, 0)
         /\ Len(RingTable) = RingPages
         /\ \A k \in 1 .. RingPages : /\ RingTable[k].host = PhysPage(k - 1) * PageSize
                                      /\ RingTable[k].ep = k - 1
<1> DEFINE R == RingPages
           list == ScatterList(0, RingLen)
           t == Table(list, 0, FALSE, TRUE)
           b == Blocks(list, 0, FALSE, TRUE)
           d == RingTable
<1>1. /\ RingLen \in Nat \ {0} /\ Len(list) = R
      /\ \A k \in 1 .. R : list[k].addr = PhysPage(k - 1) * PageSize
  BY RingList
<1>2. R \in Nat \ {0}
  BY SizesAssumption
<1>3. ASSUME NEW fixed \in BOOLEAN, NEW force \in BOOLEAN
      PROVE  LET u == Table(list, 0, fixed, force) IN
             /\ Len(u) = Len(Blocks(list, 0, fixed, force)) /\ u \in Seq(Descriptors)
             /\ Linked(u, Stop)
             /\ \A k \in 1 .. Len(u) : u[k].host = Blocks(list, 0, fixed, force)[k][1]
  <2>1. 0 \in Nat
    OBVIOUS
  <2>2. BuiltTable(0, RingLen, 0, fixed, force)
    BY <1>1, <1>3, <2>1, TableFacts
  <2>3. QED BY <2>2 DEF BuiltTable
<1>4. /\ Len(t) = Len(b) /\ t \in Seq(Descriptors) /\ Linked(t, Stop)
      /\ \A k \in 1 .. Len(t) : t[k].host = b[k][1]
  BY <1>3, Zenon
<1>5. ASSUME NEW fixed \in BOOLEAN
      PROVE  LET c == Blocks(list, 0, fixed, TRUE)
             IN  Len(c) = Len(list) /\ \A k \in 1 .. Len(list) : c[k][1] = list[k].addr
  <2>1. 0 \in Nat
    OBVIOUS
  <2>2. QED BY <1>1, <2>1, ForcedBlocks, Zenon
<1>6. Len(b) = R /\ \A k \in 1 .. R : b[k][1] = list[k].addr
  <2>1. Len(b) = Len(list) /\ \A k \in 1 .. Len(list) : b[k][1] = list[k].addr
    BY <1>5, Zenon
  <2> HIDE DEF b, list
  <2>2. QED BY <1>1, <2>1
<1>7. Len(t) = R
  BY <1>4, <1>6
<1>8. d = [i \in 1 .. R |-> [t[i] EXCEPT !.ep = i - 1, !.next = IF i = R THEN 0 ELSE @]]
  <2>1. d = [i \in 1 .. Len(t) |->
               [t[i] EXCEPT !.ep = i - 1, !.next = IF i = Len(t) THEN 0 ELSE @]]
    BY DEF RingTable, RingResult
  <2> HIDE DEF t, d
  <2>2. QED BY <1>7, <2>1
<1> HIDE DEF t, d, b, list
<1> DEFINE r(i) == [t[i] EXCEPT !.ep = i - 1, !.next = IF i = R THEN 0 ELSE @]
<1>9. Len(d) = R
  <2>1. d = [i \in 1 .. R |-> r(i)]
    BY <1>8
  <2> HIDE DEF r, R
  <2>2. QED BY <1>2, <2>1
<1>10. \A k \in 1 .. R : t[k] \in Descriptors
  BY <1>2, <1>4, <1>7
<1>11. ASSUME NEW k \in 1 .. R
       PROVE  /\ d[k] \in Descriptors /\ d[k].host = t[k].host /\ d[k].ep = k - 1
              /\ d[k].next = (IF k = R THEN 0 ELSE t[k].next) /\ d[k].adj = t[k].adj
  <2>1. d[k] = [t[k] EXCEPT !.ep = k - 1, !.next = IF k = R THEN 0 ELSE @]
    BY <1>8, <1>11
  <2>2. t[k] \in Descriptors /\ k - 1 \in Nat
    BY <1>10, <1>11
  <2>3. d[k] = [host |-> t[k].host, ep |-> k - 1, bytes |-> t[k].bytes,
                next |-> IF k = R THEN 0 ELSE t[k].next, adj |-> t[k].adj]
    <3> HIDE DEF R
    <3>1. QED BY <2>1, <2>2 DEF Descriptors
  <2>4. t[k].host \in Nat /\ t[k].bytes \in Nat /\ t[k].adj \in 0 .. MaxExtraAdj
        /\ (IF k = R THEN 0 ELSE t[k].next) \in Nat \cup {Stop}
    BY <2>2 DEF Descriptors
  <2>5. QED BY <2>2, <2>3, <2>4 DEF Descriptors
<1>12. d \in Seq(Descriptors)
  <2>1. \A k \in 1 .. R : d[k] \in Descriptors
    BY <1>11
  <2>2. d = [i \in 1 .. R |-> r(i)]
    BY <1>8
  <2> HIDE DEF r, R
  <2>3. QED BY <1>2, <2>1, <2>2
<1>13. Linked(d, 0)
  <2>1. ASSUME NEW k \in 1 .. R
        PROVE  d[k].next = (IF k = R THEN 0 ELSE k) /\ d[k].adj = ExtraAdj(k - 1, R)
    <3>1. t[k].next = (IF k = R THEN Stop ELSE k) /\ t[k].adj = ExtraAdj(k - 1, R)
      BY <1>4, <1>7, <2>1 DEF Linked
    <3>2. QED BY <1>11, <2>1, <3>1
  <2>2. QED BY <1>2, <1>9, <2>1 DEF Linked
<1>14. \A k \in 1 .. R : d[k].host = PhysPage(k - 1) * PageSize /\ d[k].ep = k - 1
  BY <1>1, <1>4, <1>6, <1>7, <1>11
<1>15. QED BY <1>9, <1>12, <1>13, <1>14 DEF d

(***************************************************************************)
(* Fetching.                                                               *)
(***************************************************************************)
LEMMA DivMono ==
  ASSUME NEW p \in Nat \ {0}, NEW a \in Nat, NEW b \in Nat, a <= b
  PROVE  a \div p <= b \div p
<1> DEFINE q == a \div p
           s == b \div p
<1>1. q \in Nat /\ a % p \in 0 .. p - 1 /\ a = p * q + (a % p)
  BY DivMod
<1>2. s \in Nat /\ b % p \in 0 .. p - 1 /\ b = p * s + (b % p)
  BY DivMod
<1> HIDE DEF q, s
<1>3. SUFFICES ASSUME s + 1 <= q PROVE FALSE
  BY <1>1, <1>2 DEF q, s
<1>4. p * (s + 1) <= p * q
  BY <1>1, <1>2, <1>3
<1>5. p * (s + 1) = p * s + p /\ p * s \in Nat /\ p * q \in Nat
  BY <1>1, <1>2
<1>6. QED BY <1>1, <1>2, <1>4, <1>5

\* What one fetch brings from a table of n descriptors.
FetchOK(f, n) ==
  /\ f \in Seq(Nat)
  /\ f # <<>> =>
       /\ \A i \in 1 .. Len(f) : f[i] = f[1] + i - 1
       /\ f[1] + Len(f) - 1 < n
       /\ f[1] \div DescsPerPage = (f[1] + Len(f) - 1) \div DescsPerPage

LEMMA FirstFetch ==
  ASSUME NEW n \in Nat \ {0}
  PROVE  LET f == [i \in 1 .. FirstAdj(n) + 1 |-> i - 1] IN
         FetchOK(f, n) /\ f # <<>> /\ Head(f) = 0
<1> DEFINE m == FirstAdj(n)
           f == [i \in 1 .. m + 1 |-> i - 1]
           D == DescsPerPage
<1>1. D \in Nat \ {0} /\ MaxExtraAdj \in Nat /\ MaxExtraAdj < D
  BY SizesAssumption
<1>2. m \in Nat /\ m <= n - 1 /\ m <= MaxExtraAdj
  BY <1>1 DEF FirstAdj, Min2
<1> HIDE DEF m, D
<1>3. f \in Seq(Nat) /\ Len(f) = m + 1 /\ \A i \in 1 .. m + 1 : f[i] = i - 1
  BY <1>2
<1> HIDE DEF f
<1>4. f[1] = 0 /\ f # <<>> /\ Head(f) = 0
  BY <1>2, <1>3
<1>5. 0 \div D = 0 /\ m \div D = 0
  <2>1. (D * 0 + 0) \div D = 0 /\ (D * 0 + m) \div D = 0
    <3>1. 0 \in 0 .. D - 1 /\ m \in 0 .. D - 1
      BY <1>1, <1>2
    <3>2. QED BY <1>1, <3>1, DivUnique
  <2>2. D * 0 + 0 = 0 /\ D * 0 + m = m
    BY <1>1, <1>2
  <2>3. QED BY <2>1, <2>2
<1>6. \A i \in 1 .. Len(f) : f[i] = f[1] + i - 1
  BY <1>2, <1>3, <1>4
<1>7. f[1] + Len(f) - 1 = m
  BY <1>2, <1>3, <1>4
<1>8. FetchOK(f, n)
  BY <1>2, <1>3, <1>4, <1>5, <1>6, <1>7 DEF FetchOK, D
<1>9. QED BY <1>4, <1>8 DEF f, m

\* The descriptors that are left, or that are fetched next.
NextFetch(f, d) == IF Len(f) > 1 THEN Tail(f) ELSE Block(d[Head(f) + 1])

LEMMA FetchNext ==
  ASSUME NEW d, NEW last \in {Stop, 0}, Linked(d, last),
         NEW f, FetchOK(f, Len(d)), f # <<>>
  PROVE  LET g == NextFetch(f, d) IN
         /\ Head(f) \in 0 .. Len(d) - 1 /\ FetchOK(g, Len(d))
         /\ IF Head(f) = Len(d) - 1
              THEN IF last = Stop THEN g = <<>> ELSE g # <<>> /\ Head(g) = 0
              ELSE g # <<>> /\ Head(g) = Head(f) + 1
<1> DEFINE n == Len(d)
           g == NextFetch(f, d)
           h == f[1]
           D == DescsPerPage
<1>1. D \in Nat \ {0} /\ n \in Nat \ {0}
  BY SizesAssumption DEF Linked
<1>2. /\ f \in Seq(Nat) /\ Len(f) \in Nat \ {0} /\ Head(f) = h /\ h \in Nat
      /\ \A i \in 1 .. Len(f) : f[i] = h + i - 1
      /\ h + Len(f) - 1 < n
      /\ h \div D = (h + Len(f) - 1) \div D
  BY DEF FetchOK
<1>3. h \in 0 .. n - 1
  BY <1>1, <1>2
<1>4. CASE Len(f) > 1
  <2>1. g = Tail(f)
    BY <1>4 DEF NextFetch
  <2>2. /\ g \in Seq(Nat) /\ Len(g) = Len(f) - 1 /\ g # <<>>
        /\ \A i \in 1 .. Len(g) : g[i] = f[i + 1]
    <3> DEFINE t == Tail(f)
    <3>1. t \in Seq(Nat) /\ Len(t) = Len(f) - 1
      BY <1>2
    <3>2. \A i \in 1 .. Len(f) - 1 : t[i] = f[i + 1]
      BY <1>2
    <3> HIDE DEF t
    <3>3. t # <<>>
      BY <1>4, <1>2, <3>1
    <3>4. QED BY <2>1, <3>1, <3>2, <3>3 DEF t
  <2> HIDE DEF g, h, n, D
  <2>3. ASSUME NEW i \in 1 .. Len(g) PROVE g[i] = h + i
    <3>1. i + 1 \in 1 .. Len(f) /\ h + (i + 1) - 1 = h + i
      BY <1>2, <2>2, <2>3
    <3>2. g[i] = f[i + 1] /\ f[i + 1] = h + (i + 1) - 1
      BY <1>2, <2>2, <2>3, <3>1
    <3>3. QED BY <3>1, <3>2
  <2>4. g[1] = h + 1 /\ Head(g) = h + 1
    BY <1>2, <1>4, <2>2, <2>3
  <2>5. \A i \in 1 .. Len(g) : g[i] = g[1] + i - 1
    BY <1>2, <2>2, <2>3, <2>4
  <2>6. g[1] + Len(g) - 1 = h + Len(f) - 1
    BY <1>2, <2>2, <2>4
  <2>7. g[1] \div D = (g[1] + Len(g) - 1) \div D
    <3> DEFINE e == h + Len(f) - 1
    <3>1. e \in Nat /\ h + 1 \in Nat /\ h <= h + 1 /\ h + 1 <= e
      BY <1>2, <1>4
    <3>2. h \div D <= (h + 1) \div D /\ (h + 1) \div D <= e \div D
      <4> HIDE DEF e
      <4>1. QED BY <1>1, <1>2, <3>1, DivMono
    <3>3. h \div D \in Nat /\ (h + 1) \div D \in Nat /\ e \div D \in Nat
      <4> HIDE DEF e
      <4>1. QED BY <1>1, <1>2, <3>1, DivMod
    <3>4. QED BY <1>2, <2>4, <2>6, <3>2, <3>3
  <2>8. FetchOK(g, n)
    BY <1>2, <2>2, <2>5, <2>6, <2>7 DEF FetchOK, D
  <2>9. h # n - 1
    <3> DEFINE m == Len(f)
    <3>1. m \in Nat /\ m > 1 /\ h + m - 1 < n /\ h \in Nat /\ n \in Nat
      BY <1>1, <1>2, <1>4
    <3> HIDE DEF m
    <3>2. QED BY <3>1
  <2>10. QED BY <1>2, <1>3, <2>2, <2>4, <2>8, <2>9 DEF g, h, n
<1>5. CASE Len(f) = 1
  <2> DEFINE x == d[h + 1]
             a == ExtraAdj(h, n)
  <2>1. g = Block(x)
    BY <1>2, <1>5 DEF NextFetch
  <2>2. x.next = (IF h + 1 = n THEN last ELSE h + 1) /\ x.adj = a
    <3>1. h + 1 \in 1 .. n /\ (h + 1) - 1 = h
      BY <1>3
    <3>2. QED BY <3>1 DEF Linked
  <2>3. /\ a \in 0 .. MaxExtraAdj
        /\ h < n - 1 => h + 1 + a < n /\ (h + 1 + a) \div D = (h + 1) \div D
        /\ h = n - 1 => a = 0
    <3> HIDE DEF h, n
    <3>1. QED BY <1>1, <1>3, ExtraAdjFacts DEF D
  <2>4. g = IF x.next = Stop THEN <<>> ELSE [i \in 1 .. x.adj + 1 |-> x.next + i - 1]
    BY <2>1 DEF Block
  <2> HIDE DEF x, a, g, h, n, D
  <2>5. a \in Nat
    BY <2>3, SizesAssumption
  <2>6. CASE h = n - 1 /\ last = Stop
    <3>1. g = <<>>
      BY <1>1, <1>2, <2>2, <2>4, <2>6
    <3>2. FetchOK(g, n)
      BY <3>1 DEF FetchOK
    <3>3. QED BY <1>2, <1>3, <2>6, <3>1, <3>2 DEF g, h, n
  <2>7. CASE ~(h = n - 1 /\ last = Stop)
    <3> DEFINE y == IF h = n - 1 THEN 0 ELSE h + 1
    <3>1. x.next = y /\ y \in Nat /\ y # Stop
      BY <1>1, <1>3, <2>2, <2>7 DEF Stop
    <3>2. y + a < n /\ (y + a) \div D = y \div D
      <4>1. CASE h = n - 1
        BY <1>1, <2>3, <4>1
      <4>2. CASE h < n - 1
        <5>1. y = h + 1
          BY <1>1, <1>3, <4>2
        <5>2. QED BY <2>3, <4>2, <5>1
      <4>3. QED BY <1>1, <1>3, <4>1, <4>2
    <3>3. h = n - 1 => y = 0
      OBVIOUS
    <3>4. h # n - 1 => y = h + 1
      OBVIOUS
    <3> HIDE DEF y
    <3>5. g = [i \in 1 .. a + 1 |-> y + i - 1]
      BY <2>2, <2>4, <3>1
    <3>6. /\ g \in Seq(Nat) /\ Len(g) = a + 1 /\ g # <<>>
          /\ \A i \in 1 .. a + 1 : g[i] = y + i - 1
      BY <2>5, <3>1, <3>5
    <3>7. g[1] = y /\ Head(g) = y
      BY <2>5, <3>1, <3>6
    <3>8. \A i \in 1 .. Len(g) : g[i] = g[1] + i - 1
      BY <3>6, <3>7
    <3>9. g[1] + Len(g) - 1 = y + a
      BY <2>5, <3>1, <3>6, <3>7
    <3>10. FetchOK(g, n)
      BY <3>2, <3>6, <3>7, <3>8, <3>9 DEF FetchOK, D
    <3>11. QED BY <1>2, <1>3, <2>7, <3>3, <3>4, <3>6, <3>7, <3>10 DEF g, h, n
  <2>8. QED BY <2>6, <2>7
<1>6. Len(f) > 1 \/ Len(f) = 1
  <2> DEFINE m == Len(f)
  <2>1. m \in Nat \ {0}
    BY <1>2
  <2> HIDE DEF m
  <2>2. m > 1 \/ m = 1
    BY <2>1
  <2>3. QED BY <2>2 DEF m
<1>7. QED BY <1>4, <1>5, <1>6, Zenon

(***************************************************************************)
(* The request.                                                            *)
(***************************************************************************)
FlagsInv ==
  /\ streaming \in BOOLEAN /\ non_incr_addr \in BOOLEAN
  /\ hw_non_incr \in BOOLEAN /\ switched \in BOOLEAN

Transferring == {"build", "run", "orphan"}

\* How far a request is: transfers of TransferMax bytes, but for the last.
ShapeInv ==
  /\ gaps \in PageTables /\ alignments \in AlignRegisters
  /\ pc \in {"idle", "create", "build", "run", "orphan", "done", "ring", "oops"}
  /\ req \in Requests \cup {NoRequest}
  /\ done \in 0 .. req.count
  /\ pos = req.pos + done
  /\ pc \in Transferring => done < req.count
  /\ pc = "done" => done = req.count
  /\ pc \in {"idle", "ring"} => req = NoRequest /\ done = 0
  /\ done = req.count \/ done % TransferMax = 0

LEMMA RequestFacts ==
  ASSUME NEW r \in Requests \cup {NoRequest}
  PROVE  r.start \in Nat /\ r.count \in Nat /\ r.pos \in Nat
<1>1. CASE r \in Requests
  <2>1. r.start \in Starts /\ r.count \in Counts /\ r.pos \in Positions
    BY <1>1 DEF Requests
  <2>2. QED BY <2>1, InputsAssumption
<1>2. CASE r = NoRequest
  BY <1>2 DEF NoRequest
<1>3. QED BY <1>1, <1>2

LEMMA ModZero ==
  ASSUME NEW p \in Nat \ {0}, NEW a \in Nat, a % p = 0
  PROVE  /\ 0 % p = 0 /\ (a + p) % p = 0
         /\ a < p => a = 0
<1> DEFINE q == a \div p
<1>1. q \in Nat /\ a = p * q + (a % p)
  BY DivMod
<1> HIDE DEF q
<1>2. p * q \in Nat /\ a = p * q
  BY <1>1
<1>3. a + p = p * (q + 1) + 0 /\ 0 = p * 0 + 0 /\ 0 \in 0 .. p - 1 /\ q + 1 \in Nat
  <2>1. p * (q + 1) = p * q + p
    BY <1>1
  <2>2. QED BY <1>1, <1>2, <2>1
<1>4. (p * (q + 1) + 0) % p = 0 /\ (p * 0 + 0) % p = 0
  BY <1>3, DivUnique
<1>5. ASSUME a < p PROVE a = 0
  <2>1. CASE q = 0
    BY <1>1, <1>2, <2>1
  <2>2. CASE q >= 1
    <3>1. p * 1 <= p * q
      BY <1>1, <2>2
    <3>2. QED BY <1>2, <1>5, <3>1
  <2>3. QED BY <1>1, <2>1, <2>2
<1>6. QED BY <1>3, <1>4, <1>5

\* The transfer in hand.
LEMMA TransferFacts ==
  ASSUME ShapeInv, done < req.count
  PROVE  /\ TransferLen \in Nat \ {0} /\ TransferLen <= TransferMax
         /\ TransferAddr \in Nat /\ pos \in Nat /\ done \in Nat /\ req.count \in Nat
         /\ req.start \in Nat /\ req.pos \in Nat
         /\ done + TransferLen \in 0 .. req.count
         /\ done % TransferMax = 0
         /\ done + TransferLen = req.count \/ TransferLen = TransferMax
<1>1. req.start \in Nat /\ req.count \in Nat /\ req.pos \in Nat
  BY RequestFacts DEF ShapeInv
<1>2. done \in 0 .. req.count /\ pos = req.pos + done
      /\ (done = req.count \/ done % TransferMax = 0)
  BY DEF ShapeInv
<1>3. TransferMax \in Nat \ {0}
  BY SizesAssumption
<1>4. TransferLen = IF req.count - done < TransferMax THEN req.count - done ELSE TransferMax
  BY DEF TransferLen, Remaining, Min2
<1>5. done < req.count
  OBVIOUS
<1>6. done % TransferMax = 0
  BY <1>1, <1>2, <1>5
<1>7. TransferAddr \in Nat
  BY <1>1, <1>2 DEF TransferAddr
<1> DEFINE t == TransferLen
           m == TransferMax
<1> HIDE DEF t, m
<1>8. t = IF req.count - done < m THEN req.count - done ELSE m
  BY <1>4 DEF t, m
<1>9. /\ t \in Nat \ {0} /\ t <= m /\ done + t \in 0 .. req.count
      /\ done + t = req.count \/ t = m
  BY <1>1, <1>2, <1>3, <1>5, <1>8 DEF m
<1>10. QED BY <1>1, <1>2, <1>6, <1>7, <1>9 DEF t, m

LEMMA FlagsHold == Spec => []FlagsInv
<1>1. Init => FlagsInv
  BY DEF Init, FlagsInv
<1>2. FlagsInv /\ [Next]_vars => FlagsInv'
  <2> SUFFICES ASSUME FlagsInv, [Next]_vars PROVE FlagsInv'
    OBVIOUS
  <2> USE DEF FlagsInv
  <2>1. CASE \/ \E r \in Requests : Request(r)
             \/ CreateFails \/ PinPages \/ PinFails \/ AllocFails
             \/ Completed \/ Failed \/ Interrupted \/ Finish \/ ReturnDone
             \/ OpenRing \/ CloseRing \/ HwMove
    <3>1. UNCHANGED <<streaming, non_incr_addr, hw_non_incr>> /\ switched' \in {switched, FALSE}
      BY <2>1, Zenon DEF Request, CreateFails, PinPages, PinFails, AllocFails, Completed, Failed,
         Interrupted, Finish, ReturnDone, OpenRing, CloseRing, HwMove, Return,
         config_vars, mode_vars
    <3>2. QED BY <3>1
  <2>2. CASE Build
    <3>1. UNCHANGED <<streaming, non_incr_addr, switched>>
          /\ hw_non_incr' = (non_incr_addr /\ ~PollMode)
      BY <2>2 DEF Build, config_vars
    <3>2. hw_non_incr' \in BOOLEAN
      BY <3>1
    <3>3. QED BY <3>1, <3>2
  <2>3. CASE AddrModeSet
    <3>1. UNCHANGED streaming /\ non_incr_addr' = ~non_incr_addr /\ hw_non_incr' = ~non_incr_addr
          /\ switched' = (switched \/ pc # "idle")
      BY <2>3 DEF AddrModeSet, config_vars
    <3>2. non_incr_addr' \in BOOLEAN /\ hw_non_incr' \in BOOLEAN /\ switched' \in BOOLEAN
      BY <3>1
    <3>3. QED BY <3>1, <3>2
  <2>4. CASE UNCHANGED vars \/ Halted
    BY <2>4 DEF vars, Halted, config_vars, mode_vars
  <2>5. QED BY <2>1, <2>2, <2>3, <2>4, Zenon DEF Next
<1>3. QED BY <1>1, <1>2, PTL DEF Spec

LEMMA ShapeStep == ShapeInv /\ [Next]_vars => ShapeInv'
<1> SUFFICES ASSUME ShapeInv, [Next]_vars PROVE ShapeInv'
  OBVIOUS
<1> USE DEF config_vars, mode_vars, table_vars
<1>1. /\ gaps \in PageTables /\ alignments \in AlignRegisters
      /\ req \in Requests \cup {NoRequest} /\ done \in 0 .. req.count
      /\ pos = req.pos + done /\ (done = req.count \/ done % TransferMax = 0)
  BY DEF ShapeInv
<1>2. req.start \in Nat /\ req.count \in Nat /\ req.pos \in Nat /\ done \in Nat
  BY <1>1, RequestFacts
<1>3. TransferMax \in Nat \ {0}
  BY SizesAssumption
<1>4. 0 % TransferMax = 0
  BY <1>3
<1>5. UNCHANGED <<gaps, alignments>>
  BY Zenon DEF Next, vars, Halted, Request, CreateFails, PinPages, PinFails, Build, AllocFails, Completed,
     Failed, Interrupted, Finish, ReturnDone, AddrModeSet, OpenRing, CloseRing, HwMove
<1>6. ASSUME pc' = "idle", req' = NoRequest, done' = 0, pos' = 0 PROVE ShapeInv'
  <2>1. req'.count = 0 /\ req'.pos = 0
    BY <1>6 DEF NoRequest
  <2>2. QED BY <1>1, <1>5, <1>6, <2>1 DEF ShapeInv, Transferring
<1>7. ASSUME UNCHANGED <<req, done, pos, pc>> PROVE ShapeInv'
  BY <1>5, <1>7 DEF ShapeInv
<1>8. CASE \E r \in Requests : Request(r)
  <2>1. PICK r \in Requests : Request(r)
    BY <1>8
  <2>2. pc = "idle" /\ pc' = "create" /\ req' = r /\ pos' = r.pos /\ done' = done
    BY <2>1 DEF Request
  <2>3. done = 0 /\ r.pos \in Nat /\ r.count \in Nat
    BY <2>2, RequestFacts DEF ShapeInv
  <2>4. QED BY <1>1, <1>4, <1>5, <2>2, <2>3 DEF ShapeInv, Transferring
<1>9. CASE CreateFails \/ Failed \/ ReturnDone
  BY <1>6, <1>9 DEF CreateFails, Failed, ReturnDone, Return
<1>10. CASE PinPages
  <2>1. pc = "create" /\ Remaining > 0 /\ UNCHANGED <<req, done, pos>>
    BY <1>10 DEF PinPages
  <2>2. done < req.count
    BY <1>2, <2>1 DEF Remaining
  <2>3. ScatterAsserts(TransferAddr, TransferLen)
    BY <2>2, TransferFacts, AssertsHold
  <2>4. pc' = "build"
    BY <1>10, <2>3 DEF PinPages
  <2>5. QED BY <1>1, <1>5, <2>1, <2>2, <2>4 DEF ShapeInv, Transferring
<1>11. CASE PinFails \/ Build \/ AllocFails \/ Interrupted
  <2>1. UNCHANGED <<req, done, pos>> /\ (pc' = "oops" \/ (pc \in Transferring /\ pc' \in {"run", "orphan"}))
    BY <1>11 DEF PinFails, Build, AllocFails, Interrupted, Transferring
  <2>2. QED BY <1>1, <1>5, <2>1 DEF ShapeInv, Transferring
<1>12. CASE Completed
  <2>1. pc = "run" /\ pc' = "create" /\ UNCHANGED req
        /\ done' = done + TransferLen /\ pos' = pos + TransferLen
    BY <1>12 DEF Completed, Advance
  <2>2. done < req.count
    BY <2>1 DEF ShapeInv, Transferring
  <2>3. /\ TransferLen \in Nat \ {0} /\ done + TransferLen \in 0 .. req.count
        /\ done % TransferMax = 0
        /\ done + TransferLen = req.count \/ TransferLen = TransferMax
    BY <2>2, TransferFacts
  <2> DEFINE t == TransferLen
  <2> HIDE DEF t
  <2>4. done' = req.count \/ done' % TransferMax = 0
    <3>1. CASE done + t = req.count
      BY <2>1, <3>1 DEF t
    <3>2. CASE t = TransferMax
      <4>1. (done + TransferMax) % TransferMax = 0
        BY <1>2, <1>3, <2>3, ModZero
      <4>2. QED BY <2>1, <3>2, <4>1 DEF t
    <3>3. QED BY <2>3, <3>1, <3>2 DEF t
  <2>5. pos' = req.pos + done'
    BY <1>1, <1>2, <2>1, <2>3
  <2>6. QED BY <1>1, <1>5, <2>1, <2>3, <2>4, <2>5 DEF ShapeInv, Transferring
<1>13. CASE Finish
  <2>1. pc' = "done" /\ UNCHANGED <<req, done, pos>> /\ req.count - done = 0
    BY <1>13 DEF Finish, Remaining
  <2>2. done = req.count
    BY <1>2, <2>1
  <2>3. QED BY <1>1, <1>5, <2>1, <2>2 DEF ShapeInv, Transferring
<1>14. CASE AddrModeSet \/ HwMove \/ Halted \/ UNCHANGED vars
  <2>1. UNCHANGED <<req, done, pos, pc>>
    BY <1>14 DEF AddrModeSet, HwMove, Halted, vars
  <2>2. QED BY <1>7, <2>1
<1>15. CASE OpenRing
  <2>1. pc = "idle" /\ pc' = "ring" /\ UNCHANGED <<req, done, pos>>
    BY <1>15 DEF OpenRing
  <2>2. QED BY <1>1, <1>5, <2>1 DEF ShapeInv, Transferring
<1>16. CASE CloseRing
  BY <1>6, <1>16 DEF CloseRing, Return
<1>17. QED BY <1>8, <1>9, <1>10, <1>11, <1>12, <1>13, <1>14, <1>15, <1>16, Zenon DEF Next

LEMMA ShapeHolds == Spec => []ShapeInv
<1>1. Init => ShapeInv
  <2> SUFFICES ASSUME Init PROVE ShapeInv
    OBVIOUS
  <2>1. TransferMax \in Nat \ {0} /\ NoRequest.count = 0 /\ NoRequest.pos = 0
    BY SizesAssumption DEF NoRequest
  <2>2. QED BY <2>1 DEF Init, ShapeInv, Transferring
<1>2. QED BY <1>1, ShapeStep, PTL DEF Spec

(***************************************************************************)
(* The tables of a transfer.                                               *)
(***************************************************************************)
LEMMA SameScatter ==
  ASSUME UNCHANGED gaps, NEW start, NEW len
  PROVE  ScatterList(start, len)' = ScatterList(start, len)
BY DEF ScatterList, PhysPage

TransferSgl == ScatterList(TransferAddr, TransferLen)
TransferTable(fixed) == Table(TransferSgl, pos, fixed, FALSE)

LEMMA SameTransfer ==
  ASSUME UNCHANGED <<gaps, req, done>>
  PROVE  TransferSgl' = TransferSgl /\ TransferPages' = TransferPages
<1>1. TransferAddr' = TransferAddr /\ TransferLen' = TransferLen
  BY DEF TransferAddr, TransferLen, Remaining
<1>2. TransferSgl' = TransferSgl
  BY <1>1, SameScatter DEF TransferSgl
<1>3. TransferPages' = TransferPages
  BY <1>1 DEF TransferPages
<1>4. QED BY <1>2, <1>3

\* The list and the pins of the transfer in hand, its table and the address
\* mode of the hardware while it runs; nothing is left of it elsewhere.
ListInv ==
  /\ pc \in Transferring => sgl = TransferSgl /\ pins = TransferPages
  /\ pc \in {"idle", "create", "done", "ring"} => pins = {}
  /\ pins \subseteq Nat

TableInv ==
  /\ pc \in {"run", "orphan"} =>
       \E fixed \in BOOLEAN :
         (~switched => fixed = non_incr_addr) /\ desc = TransferTable(fixed)
  /\ pc = "ring" => desc = RingTable
  /\ pc \notin {"run", "orphan", "ring"} => desc = <<>> /\ fetched = <<>>

ModeInv ==
  pc \in {"run", "orphan"} /\ ~switched => hw_non_incr = (non_incr_addr /\ ~PollMode)

LEMMA SameRing == ASSUME UNCHANGED gaps PROVE RingTable' = RingTable
BY SameScatter DEF RingTable

LEMMA PagesAreNat ==
  ASSUME ShapeInv, done < req.count PROVE TransferPages \subseteq Nat
<1>1. TransferAddr \in Nat /\ TransferLen \in Nat \ {0}
  BY TransferFacts
<1>2. FirstPage(TransferAddr) \in Nat
  BY <1>1, Geometry
<1>3. QED BY <1>2 DEF TransferPages

LEMMA GapsFixed == [Next]_vars => UNCHANGED <<gaps, streaming, alignments>>
BY Zenon DEF Next, vars, Halted, Request, CreateFails, PinPages, PinFails, Build, AllocFails,
   Completed, Failed, Interrupted, Finish, ReturnDone, AddrModeSet, OpenRing,
   CloseRing, HwMove, config_vars

LEMMA ListStep == ShapeInv /\ ListInv /\ [Next]_vars => ListInv'
<1> SUFFICES ASSUME ShapeInv, ListInv, [Next]_vars PROVE ListInv'
  OBVIOUS
<1> USE DEF config_vars, mode_vars, table_vars
<1>1. UNCHANGED gaps
  BY GapsFixed
<1>2. pins \subseteq Nat
  BY DEF ListInv
<1>3. ASSUME UNCHANGED <<req, done, sgl, pins>>,
             (pc' = pc \/ pc' = "oops" \/ (pc \in Transferring /\ pc' \in Transferring)
              \/ (pc \in {"idle", "create", "done", "ring"}
                    /\ pc' \in {"idle", "create", "done", "ring"}))
      PROVE  ListInv'
  <2>1. TransferSgl' = TransferSgl /\ TransferPages' = TransferPages
    BY <1>1, <1>3, SameTransfer
  <2>2. QED BY <1>3, <2>1 DEF ListInv, Transferring
<1>4. ASSUME pc' \in {"idle", "create", "done", "ring"}, pins' = {} PROVE ListInv'
  BY <1>4 DEF ListInv, Transferring
<1>5. CASE (\E r \in Requests : Request(r)) \/ CreateFails \/ Finish \/ ReturnDone
             \/ OpenRing \/ CloseRing
  <2>1. /\ pc \in {"idle", "create", "done", "ring"} /\ pins' = pins
        /\ pc' \in {"idle", "create", "done", "ring"}
    BY <1>5 DEF Request, CreateFails, Finish, ReturnDone, OpenRing, CloseRing, Return
  <2>2. QED BY <1>4, <2>1 DEF ListInv
<1>6. CASE PinPages
  <2>1. pc = "create" /\ Remaining > 0 /\ UNCHANGED <<req, done>>
    BY <1>6 DEF PinPages
  <2>2. done < req.count
    <3>1. req.count \in Nat /\ done \in Nat
      BY RequestFacts DEF ShapeInv
    <3>2. QED BY <2>1, <3>1 DEF Remaining
  <2>3. ScatterAsserts(TransferAddr, TransferLen)
    BY <2>2, TransferFacts, AssertsHold
  <2>4. pc' = "build" /\ sgl' = TransferSgl /\ pins' = TransferPages
    BY <1>6, <2>3 DEF PinPages, TransferSgl
  <2>5. TransferSgl' = TransferSgl /\ TransferPages' = TransferPages
    BY <1>1, <2>1, SameTransfer
  <2>6. TransferPages \subseteq Nat
    BY <2>2, PagesAreNat
  <2>7. QED BY <2>4, <2>5, <2>6 DEF ListInv, Transferring
<1>7. CASE PinFails \/ Build \/ AllocFails \/ Interrupted
  <2>1. UNCHANGED <<req, done, sgl, pins>>
        /\ (pc' = "oops" \/ (pc \in Transferring /\ pc' \in Transferring))
    BY <1>7 DEF PinFails, Build, AllocFails, Interrupted, Transferring
  <2>2. QED BY <1>3, <2>1
<1>8. CASE Completed \/ Failed
  <2>1. pc = "run" /\ pins' = pins \ TransferPages /\ pc' \in {"create", "idle"}
    BY <1>8 DEF Completed, Failed, ReleasePages, Return
  <2>2. pins = TransferPages
    BY <2>1 DEF ListInv, Transferring
  <2>3. QED BY <1>4, <2>1, <2>2
<1>10. CASE AddrModeSet \/ HwMove \/ Halted \/ UNCHANGED vars
  <2>1. UNCHANGED <<req, done, sgl, pins, pc>>
    BY <1>10 DEF AddrModeSet, HwMove, Halted, vars
  <2>2. QED BY <1>3, <2>1
<1>11. QED BY <1>5, <1>6, <1>7, <1>8, <1>10, Zenon DEF Next

LEMMA TableStep ==
  FlagsInv /\ ListInv /\ TableInv /\ [Next]_vars => TableInv'
<1> SUFFICES ASSUME FlagsInv, ListInv, TableInv, [Next]_vars PROVE TableInv'
  OBVIOUS
<1> USE DEF config_vars, mode_vars, table_vars
<1>1. UNCHANGED gaps
  BY GapsFixed
<1>2. RingTable' = RingTable
  BY <1>1, SameRing
<1>3. ASSUME UNCHANGED <<req, done, pos>> PROVE \A fixed : TransferTable(fixed)' = TransferTable(fixed)
  <2>1. TransferSgl' = TransferSgl
    BY <1>1, <1>3, SameTransfer
  <2>2. QED BY <1>3, <2>1 DEF TransferTable
<1>4. ASSUME pc' \notin {"run", "orphan", "ring"}, desc' = <<>>, fetched' = <<>> PROVE TableInv'
  BY <1>4 DEF TableInv
<1>5. CASE (\E r \in Requests : Request(r)) \/ CreateFails \/ PinPages \/ PinFails \/ AllocFails
             \/ Finish \/ ReturnDone
  <2>1. /\ pc \notin {"run", "orphan", "ring"} /\ fetched' = fetched /\ desc' \in {desc, <<>>}
        /\ pc' \notin {"run", "orphan", "ring"}
    BY <1>5 DEF Request, CreateFails, PinPages, PinFails, AllocFails, Finish, ReturnDone, Return
  <2>2. QED BY <1>4, <2>1 DEF TableInv
<1>6. CASE Completed \/ Failed \/ CloseRing
  <2>1. desc' = <<>> /\ fetched' = <<>> /\ pc' \in {"create", "idle"}
    BY <1>6 DEF Completed, Failed, CloseRing, Return
  <2>2. QED BY <1>4, <2>1
<1>7. CASE Build
  <2>1. /\ pc = "build" /\ pc' = "run" /\ desc' = Table(sgl, pos, non_incr_addr, FALSE)
        /\ UNCHANGED <<req, done, pos, non_incr_addr, switched>>
    BY <1>7 DEF Build
  <2>2. desc' = TransferTable(non_incr_addr)
    BY <2>1 DEF ListInv, Transferring, TransferTable
  <2>3. TransferSgl' = TransferSgl
    BY <1>1, <2>1, SameTransfer
  <2>4. \E fixed \in BOOLEAN : /\ ~switched' => fixed = non_incr_addr'
                              /\ desc' = Table(TransferSgl', pos', fixed, FALSE)
    <3>1. non_incr_addr \in BOOLEAN /\ non_incr_addr' = non_incr_addr
      BY <2>1 DEF FlagsInv
    <3>2. desc' = Table(TransferSgl', pos', non_incr_addr, FALSE)
      BY <2>1, <2>2, <2>3 DEF TransferTable
    <3>3. QED BY <3>1, <3>2, Zenon
  <2>5. QED BY <2>1, <2>4 DEF TableInv, TransferTable
<1>8. CASE OpenRing
  BY <1>2, <1>8 DEF OpenRing, TableInv
<1>9. CASE Interrupted \/ HwMove \/ AddrModeSet \/ Halted \/ UNCHANGED vars
  <2>1. /\ UNCHANGED <<req, done, pos, desc>>
        /\ (pc' = pc \/ (pc = "run" /\ pc' = "orphan"))
    BY <1>9 DEF Interrupted, HwMove, AddrModeSet, Halted, vars
  <2>2. \/ ~switched' => (~switched /\ UNCHANGED non_incr_addr)
        \/ pc \notin {"run", "orphan"}
    BY <1>9, Zenon DEF Interrupted, HwMove, AddrModeSet, Halted, vars
  <2>3. fetched' = fetched \/ fetched # <<>>
    BY <1>9, Zenon DEF Interrupted, HwMove, AddrModeSet, Halted, vars
  <2>4. QED BY <1>2, <1>3, <2>1, <2>2, <2>3 DEF TableInv
<1>10. QED BY <1>5, <1>6, <1>7, <1>8, <1>9, Zenon DEF Next

LEMMA ModeStep == FlagsInv /\ ModeInv /\ [Next]_vars => ModeInv'
<1> SUFFICES ASSUME FlagsInv, ModeInv, [Next]_vars PROVE ModeInv'
  OBVIOUS
<1> USE DEF config_vars, mode_vars, table_vars
<1>1. CASE Build
  BY <1>1 DEF Build, ModeInv
<1>2. CASE AddrModeSet
  BY <1>2, Zenon DEF AddrModeSet, ModeInv
<1>3. CASE HwMove \/ Halted \/ UNCHANGED vars \/ Interrupted
  <2>1. UNCHANGED <<switched, non_incr_addr, hw_non_incr>> /\ (pc' = pc \/ pc = "run")
    BY <1>3, Zenon DEF HwMove, Halted, vars, Interrupted
  <2>2. QED BY <2>1 DEF ModeInv
<1>4. CASE (\E r \in Requests : Request(r)) \/ CreateFails \/ PinPages \/ PinFails \/ AllocFails
             \/ Finish \/ ReturnDone \/ Completed \/ Failed \/ OpenRing \/ CloseRing
  <2>1. pc' \notin {"run", "orphan"}
    BY <1>4 DEF Request, CreateFails, PinPages, PinFails, AllocFails, Finish, ReturnDone,
       Return, Completed, Failed, OpenRing, CloseRing
  <2>2. QED BY <2>1 DEF ModeInv
<1>5. QED BY <1>1, <1>2, <1>3, <1>4, Zenon DEF Next

LEMMA TablesHold == Spec => [](FlagsInv /\ ShapeInv /\ ListInv /\ TableInv /\ ModeInv)
<1>1. Init => ListInv /\ TableInv /\ ModeInv
  BY DEF Init, ListInv, TableInv, ModeInv, Transferring
<1>2. QED BY <1>1, FlagsHold, ShapeHolds, ListStep, TableStep, ModeStep, PTL DEF Spec

TablesInv == FlagsInv /\ ShapeInv /\ ListInv /\ TableInv /\ ModeInv

\* What the invariants say of a transfer that runs.
RunTiling(off, fixed) ==
  /\ ~switched => fixed = non_incr_addr
  /\ DescTiling(desc, off, TransferAddr, pos, fixed) /\ off[Len(desc)] = TransferLen

LEMMA RunFacts ==
  ASSUME TablesInv, pc \in {"run", "orphan"}
  PROVE  /\ desc \in Seq(Descriptors) /\ Linked(desc, Stop)
         /\ Len(desc) \in 1 .. Len(sgl) /\ Len(sgl) \in Nat /\ done < req.count
         /\ \E fixed \in BOOLEAN : \E off \in [0 .. Len(desc) -> Nat] : RunTiling(off, fixed)
<1>1. PICK fixed \in BOOLEAN :
        (~switched => fixed = non_incr_addr) /\ desc = TransferTable(fixed)
  BY DEF TablesInv, TableInv
<1>2. done < req.count /\ sgl = TransferSgl /\ ShapeInv /\ gaps \in PageTables
  BY DEF TablesInv, ShapeInv, ListInv, Transferring
<1>3. TransferLen \in Nat \ {0} /\ TransferAddr \in Nat /\ pos \in Nat
  BY <1>2, TransferFacts
<1>4. PhysOK
  BY <1>2, FiniteGaps
<1>5. ASSUME NEW force \in BOOLEAN PROVE BuiltTable(TransferAddr, TransferLen, pos, fixed, force)
  BY <1>3, <1>4, TableFacts
<1>6. BuiltTable(TransferAddr, TransferLen, pos, fixed, FALSE)
  BY <1>5, Zenon
<1>7. desc = Table(ScatterList(TransferAddr, TransferLen), pos, fixed, FALSE)
      /\ sgl = ScatterList(TransferAddr, TransferLen)
  BY <1>1, <1>2 DEF TransferTable, TransferSgl
<1>8. /\ Len(desc) \in 1 .. Len(sgl) /\ Len(sgl) \in Nat
      /\ desc \in Seq(Descriptors) /\ Linked(desc, Stop)
      /\ \E off \in [0 .. Len(desc) -> Nat] :
           DescTiling(desc, off, TransferAddr, pos, fixed) /\ off[Len(desc)] = TransferLen
  BY <1>6, <1>7, Zenon DEF BuiltTable
<1>9. QED BY <1>1, <1>2, <1>8 DEF RunTiling

LEMMA RingRunFacts ==
  ASSUME TablesInv, pc = "ring"
  PROVE  /\ desc = RingTable /\ desc \in Seq(Descriptors) /\ Linked(desc, 0)
         /\ Len(desc) = RingPages /\ PhysOK
<1>1. desc = RingTable /\ PhysOK
  BY FiniteGaps DEF TablesInv, TableInv, ShapeInv
<1>2. QED BY <1>1, RingFacts

TableLength == pc \in {"run", "orphan", "ring"} => Len(desc) \in Nat \ {0}

LEMMA TableLengthHolds == TablesInv => TableLength
BY RunFacts, RingRunFacts DEF Linked, TableLength

FetchInv == FetchOK(fetched, Len(desc))

LEMMA FetchStep == TablesInv /\ FetchInv /\ [Next]_vars /\ TablesInv' => FetchInv'
<1> SUFFICES ASSUME TablesInv, FetchInv, [Next]_vars, TablesInv' PROVE FetchInv'
  OBVIOUS
<1> USE DEF config_vars, mode_vars, table_vars
<1>1. ASSUME fetched' = <<>> PROVE FetchInv'
  BY <1>1 DEF FetchInv, FetchOK
<1>2. CASE pc' \notin {"run", "orphan", "ring"}
  <2>1. fetched' = <<>>
    BY <1>2 DEF TablesInv, TableInv
  <2>2. QED BY <1>1, <2>1
<1>3. CASE Build \/ OpenRing
  <2>1. fetched' = [i \in 1 .. FirstAdj(Len(desc')) + 1 |-> i - 1] /\ pc' \in {"run", "ring"}
    BY <1>3 DEF Build, OpenRing
  <2>2. Len(desc)' \in Nat \ {0}
    <3>1. TablesInv' => TableLength'
      BY TableLengthHolds, PTL
    <3>2. QED BY <2>1, <3>1 DEF TableLength
  <2>3. QED BY <2>1, <2>2, FirstFetch DEF FetchInv
<1>4. CASE HwMove
  <2>1. fetched # <<>> /\ UNCHANGED desc /\ fetched' = NextFetch(fetched, desc)
    BY <1>4 DEF HwMove, NextFetch
  <2>2. pc \in {"run", "orphan", "ring"}
    BY <2>1 DEF TablesInv, TableInv
  <2>3. PICK last \in {Stop, 0} : Linked(desc, last)
    BY <2>2, RunFacts, RingRunFacts
  <2>4. FetchOK(NextFetch(fetched, desc), Len(desc))
    BY <2>1, <2>3, FetchNext DEF FetchInv
  <2>5. QED BY <2>1, <2>4 DEF FetchInv
<1>5. CASE Interrupted \/ AddrModeSet \/ Halted \/ UNCHANGED vars
  <2>1. UNCHANGED <<fetched, desc>>
    BY <1>5 DEF Interrupted, AddrModeSet, Halted, vars
  <2>2. QED BY <2>1 DEF FetchInv
<1>6. CASE (\E r \in Requests : Request(r)) \/ CreateFails \/ PinPages \/ PinFails \/ AllocFails
             \/ Finish \/ ReturnDone \/ Completed \/ Failed \/ CloseRing
  <2>1. pc' \notin {"run", "orphan", "ring"}
    BY <1>6 DEF Request, CreateFails, PinPages, PinFails, AllocFails, Finish, ReturnDone,
       Return, Completed, Failed, CloseRing
  <2>2. QED BY <1>2, <2>1
<1>7. QED BY <1>3, <1>4, <1>5, <1>6, Zenon DEF Next

LEMMA FetchHolds == Spec => [](TablesInv /\ FetchInv)
<1>1. Init => FetchInv
  BY DEF Init, FetchInv, FetchOK
<1>2. Spec => []TablesInv
  BY TablesHold DEF TablesInv
<1>3. QED BY <1>1, <1>2, FetchStep, PTL DEF Spec

\* Whatever the length of the table and however it is cut into fetches, the
\* hardware fetches only descriptors of the table and never, with one fetch,
\* descriptors of two 4 KB pages: the counts of xdma_desc_adjacent() and of
\* engine_start() are right at every boundary.
THEOREM FetchesInPage == Spec => []FetchInPage
<1>1. TablesInv /\ FetchInv => FetchInPage
  <2> SUFFICES ASSUME FetchInv, fetched # <<>>
               PROVE  /\ \A i \in 1 .. Len(fetched) : fetched[i] < Len(desc)
                      /\ Head(fetched) \div DescsPerPage
                           = fetched[Len(fetched)] \div DescsPerPage
    BY DEF FetchInPage
  <2> DEFINE n == Len(desc)
             m == Len(fetched)
             h == fetched[1]
  <2>1. /\ m \in Nat \ {0} /\ Head(fetched) = h /\ h \in Nat
        /\ \A i \in 1 .. m : fetched[i] = h + i - 1
        /\ h + m - 1 < n
        /\ h \div DescsPerPage = (h + m - 1) \div DescsPerPage
    BY DEF FetchInv, FetchOK
  <2>2. n \in Int
    OBVIOUS
  <2> HIDE DEF n, m, h
  <2>3. m \in 1 .. m /\ \A i \in 1 .. m : fetched[i] < n
    BY <2>1, <2>2
  <2>4. fetched[m] = h + m - 1
    BY <2>1, <2>3
  <2>5. QED BY <2>1, <2>3, <2>4 DEF n, m
<1>2. QED BY <1>1, FetchHolds, PTL

(***************************************************************************)
(* Pins.                                                                   *)
(***************************************************************************)
LEMMA OffBound ==
  ASSUME NEW d, Len(d) \in Nat, NEW off, NEW a, NEW ep_addr, NEW fixed,
         DescTiling(d, off, a, ep_addr, fixed)
  PROVE  \A k \in 0 .. Len(d) : off[k] \in Nat /\ off[k] <= off[Len(d)]
<1> DEFINE n == Len(d)
           G == {j \in 0 .. n : off[n - j] <= off[n]}
<1>1. n \in Nat /\ off \in [0 .. n -> Nat]
      /\ \A k \in 1 .. n : off[k] = off[k - 1] + d[k].bytes /\ d[k].bytes \in 1 .. DescMax
  BY DEF DescTiling
<1> HIDE DEF n
<1>2. \A k \in 0 .. n : off[k] \in Nat
  BY <1>1
<1>3. 0 \in G
  <2>1. n - 0 = n /\ off[n] \in Nat
    BY <1>1, <1>2
  <2>2. QED BY <1>1, <2>1
<1>4. ASSUME NEW j \in 0 .. n - 1, j \in G PROVE j + 1 \in G
  <2> DEFINE k == n - j
  <2>1. k \in 1 .. n /\ k - 1 = n - (j + 1) /\ k - 1 \in 0 .. n /\ k \in 0 .. n /\ j + 1 \in 0 .. n
        /\ n \in 0 .. n
    BY <1>1, <1>4
  <2>2. off[k] <= off[n]
    BY <1>4
  <2> HIDE DEF k
  <2>3. off[k] = off[k - 1] + d[k].bytes /\ d[k].bytes \in 1 .. DescMax
    BY <1>1, <2>1
  <2>4. off[k - 1] <= off[n]
    <3>1. off[k] \in Nat /\ off[k - 1] \in Nat /\ off[n] \in Nat
      BY <1>2, <2>1
    <3>2. QED BY <2>2, <2>3, <3>1, SizesAssumption
  <2>5. QED BY <2>1, <2>4
<1>5. \A j \in 0 .. n : j \in G
  <2> HIDE DEF G
  <2>1. QED BY <1>1, <1>3, <1>4, UpTo
<1>6. ASSUME NEW k \in 0 .. n PROVE off[k] <= off[n]
  <2>1. n - k \in 0 .. n /\ n - (n - k) = k
    BY <1>1, <1>6
  <2>2. n - k \in G
    BY <1>5, <2>1
  <2>3. QED BY <2>1, <2>2
<1>7. QED BY <1>2, <1>6 DEF n

\* Where a byte of the buffer lies.
LEMMA PhysFacts ==
  ASSUME PhysOK, NEW y \in Nat
  PROVE  /\ PhysAddr(y) \in Nat
         /\ PhysAddr(y) \div PageSize = PhysPage(y \div PageSize)
         /\ PhysPage(y \div PageSize) \in Nat
<1> DEFINE p == PageSize
           v == y \div p
           q == PhysPage(v)
<1>1. p \in Nat \ {0}
  BY SizesAssumption
<1>2. v \in Nat /\ y % p \in 0 .. p - 1
  <2> HIDE DEF p
  <2>1. QED BY <1>1, DivMod
<1>3. q \in Nat
  BY <1>2 DEF PhysOK
<1>4. PhysAddr(y) = q * p + (y % p)
  BY DEF PhysAddr
<1> HIDE DEF q, p, v
<1>5. q * p = p * q /\ p * q \in Nat
  BY <1>1, <1>3
<1>6. (p * q + (y % p)) \div p = q
  BY <1>1, <1>2, <1>3, DivUnique
<1>7. QED BY <1>2, <1>3, <1>4, <1>5, <1>6, <1>1 DEF q, p, v

\* The bytes that descriptor i of a running transfer moves are bytes of the
\* transfer.
LEMMA DescBytes ==
  ASSUME TablesInv, pc \in {"run", "orphan"},
         NEW fixed \in BOOLEAN, NEW off \in [0 .. Len(desc) -> Nat], RunTiling(off, fixed),
         NEW i \in 1 .. Len(desc), NEW x \in 0 .. desc[i].bytes - 1
  PROVE  /\ off[i - 1] + x \in 0 .. TransferLen - 1
         /\ desc[i].host + x = PhysAddr(TransferAddr + off[i - 1] + x)
         /\ TransferAddr + off[i - 1] + x \in Nat
<1>1. Len(desc) \in Nat /\ done < req.count /\ ShapeInv
  BY RunFacts DEF TablesInv
<1>2. TransferLen \in Nat \ {0} /\ TransferAddr \in Nat
  BY <1>1, TransferFacts
<1>3. DescTiling(desc, off, TransferAddr, pos, fixed) /\ off[Len(desc)] = TransferLen
  BY DEF RunTiling
<1>4. \A k \in 0 .. Len(desc) : off[k] \in Nat /\ off[k] <= TransferLen
  BY <1>1, <1>3, OffBound
<1>5. /\ off[i] = off[i - 1] + desc[i].bytes /\ desc[i].bytes \in 1 .. DescMax
      /\ Maps(desc[i].host, TransferAddr + off[i - 1], desc[i].bytes)
  BY <1>3 DEF DescTiling
<1>6. off[i] \in Nat /\ off[i] <= TransferLen /\ off[i - 1] \in Nat
  <2>1. i \in 0 .. Len(desc) /\ i - 1 \in 0 .. Len(desc)
    BY <1>1
  <2>2. QED BY <1>4, <2>1
<1>7. desc[i].host + x = PhysAddr(TransferAddr + off[i - 1] + x)
  BY <1>5 DEF Maps
<1> DEFINE b == desc[i].bytes
           o == off[i - 1]
           l == TransferLen
<1>8. b \in Nat /\ x \in 0 .. b - 1 /\ o + b <= l
  BY <1>5, <1>6, SizesAssumption
<1> HIDE DEF b, o, l
<1>9. o + x \in 0 .. l - 1
  <2>1. o \in Nat /\ l \in Nat
    BY <1>2, <1>6 DEF o, l
  <2>2. QED BY <1>8, <2>1
<1>10. TransferAddr + o + x \in Nat
  <2>1. TransferAddr \in Nat /\ o \in Nat /\ x \in Nat
    BY <1>2, <1>6, <1>8 DEF o
  <2>2. QED BY <2>1
<1>11. QED BY <1>7, <1>9, <1>10 DEF o, l

\* The pages a transfer addresses stay pinned for as long as the hardware has
\* descriptors of it, also when the caller is gone.  Every pin is given back
\* when the driver destroys the transfer; those of a transfer whose caller was
\* interrupted, which it never destroys, are all there for good.
THEOREM PinsAccounted == Spec => []PinsBalanced
<1>1. TablesInv => PinsBalanced
  <2> SUFFICES ASSUME TablesInv PROVE PinsBalanced
    OBVIOUS
  <2>1. /\ pc \in {"idle", "create", "done", "ring"} => pins = {}
        /\ pc = "orphan" => pins = TransferPages
    BY DEF TablesInv, ListInv, Transferring
  <2>2. ASSUME fetched # <<>>, pc # "ring", NEW i \in 1 .. Len(desc),
               NEW a \in desc[i].host .. desc[i].host + desc[i].bytes - 1
        PROVE  \E v \in pins : PhysPage(v) = a \div PageSize
    <3>1. pc \in {"run", "orphan"}
      BY <2>2 DEF TablesInv, TableInv
    <3>2. pins = TransferPages /\ ShapeInv /\ PhysOK
      BY <3>1, FiniteGaps DEF TablesInv, ListInv, Transferring, ShapeInv
    <3>3. PICK fixed \in BOOLEAN : \E off \in [0 .. Len(desc) -> Nat] : RunTiling(off, fixed)
      BY <3>1, RunFacts
    <3>4. PICK off \in [0 .. Len(desc) -> Nat] : RunTiling(off, fixed)
      BY <3>3
    <3>5. desc[i].host \in Nat /\ desc[i].bytes \in 1 .. DescMax
      BY <3>4 DEF RunTiling, DescTiling
    <3> DEFINE x == a - desc[i].host
               y == TransferAddr + off[i - 1] + x
    <3>6. x \in 0 .. desc[i].bytes - 1 /\ desc[i].host + x = a
      BY <2>2, <3>5, SizesAssumption
    <3> HIDE DEF x
    <3>7. off[i - 1] + x \in 0 .. TransferLen - 1 /\ a = PhysAddr(y) /\ y \in Nat
      BY <2>2, <3>1, <3>4, <3>6, DescBytes
    <3>8. TransferLen \in Nat \ {0} /\ TransferAddr \in Nat
      BY <3>1, <3>2, RunFacts, TransferFacts
    <3>9. off[i - 1] \in Nat
      <4>1. i - 1 \in 0 .. Len(desc)
        BY <2>2
      <4>2. QED BY <4>1
    <3>10. TransferAddr <= y /\ y <= TransferAddr + TransferLen - 1
      <4> DEFINE o == off[i - 1]
                 l == TransferLen
                 t == TransferAddr
      <4>1. o + x \in 0 .. l - 1 /\ l \in Nat /\ t \in Nat /\ o \in Nat /\ x \in Int
        BY <2>2, <3>5, <3>6, <3>7, <3>8, <3>9
      <4> HIDE DEF o, l, t
      <4>2. t <= t + o + x /\ t + o + x <= t + l - 1
        BY <4>1
      <4>3. QED BY <4>2 DEF o, l, t
    <3> HIDE DEF y
    <3>11. y \div PageSize \in TransferPages
      <4>1. TransferAddr + TransferLen - 1 \in Nat /\ PageSize \in Nat \ {0}
        BY <3>8, SizesAssumption
      <4>2. /\ TransferAddr \div PageSize <= y \div PageSize
            /\ y \div PageSize <= (TransferAddr + TransferLen - 1) \div PageSize
        BY <3>7, <3>8, <3>10, <4>1, DivMono
      <4>3. /\ TransferAddr \div PageSize \in Nat /\ y \div PageSize \in Nat
            /\ (TransferAddr + TransferLen - 1) \div PageSize \in Nat
        BY <3>7, <3>8, <4>1, DivMod
      <4>4. QED BY <4>2, <4>3 DEF TransferPages, FirstPage, LastPage
    <3>12. a \div PageSize = PhysPage(y \div PageSize)
      BY <3>2, <3>7, PhysFacts
    <3>13. QED BY <3>2, <3>11, <3>12
  <2>3. QED BY <2>1, <2>2 DEF PinsBalanced
<1>2. QED BY <1>1, FetchHolds, PTL

\* The ranges of the variables, the descriptors included, hold throughout.
THEOREM DescTypeCorrect == Spec => []TypeOK
<1>1. TablesInv /\ FetchInv => TypeOK
  <2> SUFFICES ASSUME TablesInv, FetchInv PROVE TypeOK
    OBVIOUS
  <2>1. streaming \in BOOLEAN /\ non_incr_addr \in BOOLEAN /\ hw_non_incr \in BOOLEAN
        /\ switched \in BOOLEAN
    BY DEF TablesInv, FlagsInv
  <2>2. /\ gaps \in PageTables /\ alignments \in AlignRegisters
        /\ pc \in {"idle", "create", "build", "run", "orphan", "done", "ring", "oops"}
        /\ req \in Requests \cup {NoRequest}
        /\ done \in 0 .. req.count /\ pos = req.pos + done
    BY DEF TablesInv, ShapeInv
  <2>3. pins \subseteq Nat /\ fetched \in Seq(Nat)
    BY DEF TablesInv, ListInv, FetchInv, FetchOK
  <2>4. desc \in Seq(Descriptors)
    <3>1. CASE pc \in {"run", "orphan"}
      BY <3>1, RunFacts
    <3>2. CASE pc = "ring"
      BY <3>2, RingRunFacts
    <3>3. CASE pc \notin {"run", "orphan", "ring"}
      BY <3>3 DEF TablesInv, TableInv
    <3>4. QED BY <3>1, <3>2, <3>3
  <2>5. \A i \in 1 .. Len(desc) : desc[i] \in Descriptors
    BY <2>4
  <2>6. QED BY <2>1, <2>2, <2>3, <2>5 DEF TypeOK, Descriptors
<1>2. QED BY <1>1, FetchHolds, PTL

(***************************************************************************)
(* Alignment.                                                              *)
(***************************************************************************)
LEMMA Multiple ==
  ASSUME NEW p \in Nat \ {0}, NEW a \in Nat
  PROVE  a % p = 0 <=> \E q \in Nat : a = p * q
<1>1. ASSUME a % p = 0 PROVE \E q \in Nat : a = p * q
  <2>1. a \div p \in Nat /\ a = p * (a \div p) + (a % p)
    BY DivMod
  <2>2. a = p * (a \div p)
    BY <1>1, <2>1
  <2>3. QED BY <2>1, <2>2
<1>2. ASSUME NEW q \in Nat, a = p * q PROVE a % p = 0
  <2>1. 0 \in 0 .. p - 1 /\ p * q + 0 = a
    BY <1>2
  <2>2. (p * q + 0) % p = 0
    BY <2>1, DivUnique
  <2>3. QED BY <2>1, <2>2
<1>3. QED BY <1>1, <1>2

\* Multiples of multiples, sums and differences.
LEMMA MultTrans ==
  ASSUME NEW p \in Nat \ {0}, NEW m \in Nat \ {0}, NEW a \in Nat, a % m = 0, m % p = 0
  PROVE  a % p = 0
<1>1. PICK q \in Nat : a = m * q
  BY Multiple
<1>2. PICK r \in Nat : m = p * r
  BY Multiple
<1>3. a = p * (r * q) /\ r * q \in Nat
  BY <1>1, <1>2
<1>4. QED BY <1>3, Multiple

LEMMA MultSum ==
  ASSUME NEW p \in Nat \ {0}, NEW a \in Nat, NEW b \in Nat, a % p = 0, b % p = 0
  PROVE  /\ (a + b) % p = 0
         /\ b <= a => (a - b) % p = 0
<1>1. PICK q \in Nat : a = p * q
  BY Multiple
<1>2. PICK r \in Nat : b = p * r
  BY Multiple
<1>3. a + b = p * (q + r) /\ a - b = p * (q - r)
  BY <1>1, <1>2
<1>4. (a + b) % p = 0
  <2> DEFINE s == a + b
             t == q + r
  <2>1. s \in Nat /\ t \in Nat /\ s = p * t
    BY <1>3
  <2> HIDE DEF s, t
  <2>2. s % p = 0
    BY <2>1, Multiple
  <2>3. QED BY <2>2 DEF s
<1>5. ASSUME b <= a PROVE (a - b) % p = 0
  <2>1. r <= q
    <3>1. SUFFICES ASSUME q + 1 <= r PROVE FALSE
      OBVIOUS
    <3>2. p * (q + 1) <= p * r /\ p * (q + 1) = p * q + p
      BY <3>1
    <3>3. QED BY <1>1, <1>2, <1>5, <3>2
  <2>2. q - r \in Nat /\ a - b \in Nat
    BY <1>5, <2>1
  <2>3. QED BY <1>3, <2>2, Multiple
<1>6. QED BY <1>4, <1>5

\* Numbers that differ by a multiple of p have the same remainder.
LEMMA SameRemainder ==
  ASSUME NEW p \in Nat \ {0}, NEW a \in Nat, NEW b \in Nat, NEW k \in Int, a = b + p * k
  PROVE  a % p = b % p
<1> DEFINE q == a \div p
           s == b \div p
           m == a % p
           t == b % p
           z == q - s - k
<1>1. q \in Nat /\ m \in 0 .. p - 1 /\ a = p * q + m
  BY DivMod
<1>2. s \in Nat /\ t \in 0 .. p - 1 /\ b = p * s + t
  BY DivMod
<1> HIDE DEF q, s, m, t
<1>3. p * z = p * q - p * s - p * k /\ z \in Int
  BY <1>1, <1>2
<1>4. p * q \in Int /\ p * s \in Int /\ p * k \in Int
  BY <1>1, <1>2
<1> HIDE DEF z
<1>5. p * z = t - m
  BY <1>1, <1>2, <1>3, <1>4
<1>6. ~(z >= 1)
  <2>1. SUFFICES ASSUME z >= 1 PROVE FALSE
    OBVIOUS
  <2>2. p * 1 <= p * z
    BY <1>3, <2>1
  <2>3. QED BY <1>1, <1>2, <1>5, <2>2
<1>7. ~(z <= -1)
  <2>1. SUFFICES ASSUME z <= -1 PROVE FALSE
    OBVIOUS
  <2>2. p * z <= p * (-1)
    BY <1>3, <2>1
  <2>3. p * (-1) = -p
    OBVIOUS
  <2>4. QED BY <1>1, <1>2, <1>5, <2>2, <2>3
<1>8. z = 0
  BY <1>3, <1>6, <1>7
<1>9. t = m
  BY <1>1, <1>2, <1>5, <1>8
<1>10. QED BY <1>9 DEF m, t

LEMMA ShiftRemainder ==
  ASSUME NEW p \in Nat \ {0}, NEW a \in Nat, NEW b \in Nat, NEW c \in Nat, a % p = b % p
  PROVE  (a + c) % p = (b + c) % p
<1> DEFINE q == a \div p
           s == b \div p
           m == a % p
<1>1. q \in Nat /\ m \in 0 .. p - 1 /\ a = p * q + m
  BY DivMod
<1>2. s \in Nat /\ b = p * s + m
  BY DivMod
<1> HIDE DEF q, s, m
<1>3. p * (q - s) = p * q - p * s /\ q - s \in Int /\ p * q \in Int /\ p * s \in Int
  BY <1>1, <1>2
<1>4. a + c = (b + c) + p * (q - s)
  BY <1>1, <1>2, <1>3
<1> DEFINE x == a + c
           y == b + c
           k == q - s
<1>5. x \in Nat /\ y \in Nat /\ k \in Int /\ x = y + p * k
  BY <1>3, <1>4
<1> HIDE DEF x, y, k
<1>6. x % p = y % p
  BY <1>5, SameRemainder
<1>7. QED BY <1>6 DEF x, y

\* A physical address agrees with its virtual address modulo a divisor of
\* the page size.
LEMMA PhysAlign ==
  ASSUME PhysOK, NEW A \in Nat \ {0}, PageSize % A = 0, NEW y \in Nat
  PROVE  PhysAddr(y) % A = y % A
<1> DEFINE p == PageSize
           v == y \div p
           q == PhysPage(v)
           r == y % p
<1>1. p \in Nat \ {0}
  BY SizesAssumption
<1>2. PICK c \in Nat : p = A * c
  BY <1>1, Multiple
<1>3. v \in Nat /\ r \in 0 .. p - 1 /\ y = p * v + r
  <2> HIDE DEF p
  <2>1. QED BY <1>1, DivMod
<1>4. q \in Nat
  BY <1>3 DEF PhysOK
<1>5. PhysAddr(y) = q * p + r
  BY DEF PhysAddr
<1>6. PhysAddr(y) \in Nat
  BY PhysFacts
<1> HIDE DEF p, v, q, r
<1>7. p * v \in Nat /\ q * p \in Nat /\ q * p - p * v = A * (c * (q - v)) /\ c * (q - v) \in Int
  <2>1. q * p \in Nat /\ p * v \in Nat /\ c * (q - v) \in Int
    BY <1>1, <1>2, <1>3, <1>4
  <2>2. q * p - p * v = p * (q - v)
    BY <1>1, <1>3, <1>4
  <2>3. p * (q - v) = A * (c * (q - v))
    <3>1. q - v \in Int
      BY <1>3, <1>4
    <3>2. QED BY <1>2, <3>1
  <2>4. QED BY <2>1, <2>2, <2>3
<1>8. PhysAddr(y) = y + A * (c * (q - v))
  BY <1>3, <1>5, <1>7
<1>9. QED BY <1>6, <1>7, <1>8, SameRemainder

LEMMA AlignFacts ==
  ASSUME alignments \in AlignRegisters
  PROVE  /\ AddrAlign \in Nat \ {0} /\ LenGranularity \in Nat \ {0}
         /\ PageSize % AddrAlign = 0 /\ TransferMax % AddrAlign = 0
         /\ AddrAlign % LenGranularity = 0
<1>1. CASE alignments = <<0, 0>>
  <2>1. AddrAlign = 1 /\ LenGranularity = 1
    BY <1>1 DEF AddrAlign, LenGranularity
  <2>2. PageSize % 1 = 0 /\ TransferMax % 1 = 0 /\ 1 % 1 = 0
    BY SizesAssumption
  <2>3. QED BY <2>1, <2>2
<1>2. CASE alignments # <<0, 0>>
  <2>1. AddrAlign = alignments[1] /\ LenGranularity = alignments[2]
    BY <1>2 DEF AddrAlign, LenGranularity
  <2>2. QED BY <1>2, <2>1, AlignAssumption
<1>3. QED BY <1>1, <1>2

AlignInv ==
  pc \in {"create", "done"} \cup Transferring /\ ~switched => TransferAligned(req)

LEMMA AlignStep == AlignInv /\ [Next]_vars => AlignInv'
<1> SUFFICES ASSUME AlignInv, [Next]_vars PROVE AlignInv'
  OBVIOUS
<1> USE DEF config_vars, mode_vars, table_vars
<1>1. UNCHANGED <<streaming, alignments>>
  BY GapsFixed
<1>2. ASSUME UNCHANGED <<non_incr_addr, req>> PROVE TransferAligned(req)' <=> TransferAligned(req)
  BY <1>1, <1>2 DEF TransferAligned, AddrAlign, LenGranularity
<1>3. CASE \E r \in Requests : Request(r)
  <2>1. PICK r \in Requests : Request(r)
    BY <1>3
  <2>2. TransferAligned(r) /\ req' = r /\ UNCHANGED non_incr_addr
    BY <2>1 DEF Request
  <2>3. TransferAligned(req)'
    BY <1>1, <2>2 DEF TransferAligned, AddrAlign, LenGranularity
  <2>4. QED BY <2>3 DEF AlignInv
<1>4. CASE PinPages \/ Build \/ Completed \/ Interrupted \/ Finish \/ HwMove \/ PinFails \/ AllocFails
             \/ Halted \/ UNCHANGED vars
  <2>1. UNCHANGED <<non_incr_addr, req, switched>>
    BY <1>4, Zenon DEF PinPages, Build, Completed, Interrupted, Finish, HwMove, PinFails, AllocFails,
       Halted, vars
  <2>2. \/ pc \in {"create", "done"} \cup Transferring
        \/ pc' = pc
    BY <1>4 DEF PinPages, Build, Completed, Interrupted, Finish, HwMove, PinFails, AllocFails,
       Halted, vars, Transferring
  <2>3. QED BY <1>2, <2>1, <2>2, Zenon DEF AlignInv
<1>5. CASE CreateFails \/ Failed \/ ReturnDone \/ OpenRing \/ CloseRing
  <2>1. pc' \in {"idle", "ring"}
    BY <1>5 DEF CreateFails, Failed, ReturnDone, OpenRing, CloseRing, Return
  <2>2. pc' \notin {"create", "done"} \cup Transferring
    BY <2>1 DEF Transferring
  <2>3. QED BY <2>2 DEF AlignInv
<1>6. CASE AddrModeSet
  <2>1. pc' = pc /\ switched' = (switched \/ pc # "idle")
    BY <1>6 DEF AddrModeSet
  <2>2. "idle" \notin {"create", "done"} \cup Transferring
    BY DEF Transferring
  <2>3. QED BY <2>1, <2>2, Zenon DEF AlignInv
<1>7. QED BY <1>3, <1>4, <1>5, <1>6, Zenon DEF Next

\* A memory-mapped transfer with incrementing addresses: host and device
\* address of every descriptor agree modulo the alignment.
LEMMA AlignedCopy ==
  ASSUME TablesInv, AlignInv, pc \in {"run", "orphan"}, ~switched, ~(streaming \/ non_incr_addr),
         NEW i \in 1 .. Len(desc)
  PROVE  desc[i].host % AddrAlign = desc[i].ep % AddrAlign
<1> DEFINE A == AddrAlign
<1>1. ShapeInv /\ FlagsInv /\ alignments \in AlignRegisters /\ PhysOK
  BY FiniteGaps DEF TablesInv, ShapeInv
<1>2. A \in Nat \ {0} /\ PageSize % A = 0
  BY <1>1, AlignFacts
<1>3. PICK fixed \in BOOLEAN : \E off \in [0 .. Len(desc) -> Nat] : RunTiling(off, fixed)
  BY RunFacts
<1>4. PICK off \in [0 .. Len(desc) -> Nat] : RunTiling(off, fixed)
  BY <1>3
<1>5. fixed = FALSE
  <2>1. fixed = non_incr_addr
    BY <1>4 DEF RunTiling
  <2>2. QED BY <1>3, <2>1
<1>6. desc[i].ep = NextEp(pos, off[i - 1], fixed) /\ desc[i].bytes \in 1 .. DescMax
      /\ desc[i].host \in Nat /\ off[i - 1] \in Nat
  <2>1. i - 1 \in 0 .. Len(desc)
    OBVIOUS
  <2>2. QED BY <1>4, <2>1 DEF RunTiling, DescTiling
<1>7. desc[i].ep = pos + off[i - 1]
  BY <1>5, <1>6 DEF NextEp
<1>8. desc[i].host = PhysAddr(TransferAddr + off[i - 1])
  <2>1. 0 \in 0 .. desc[i].bytes - 1
    BY <1>6
  <2>2. desc[i].host + 0 = PhysAddr(TransferAddr + off[i - 1] + 0)
    BY <1>4, <2>1, DescBytes
  <2>3. TransferAddr \in Nat
    BY <1>1, RunFacts, TransferFacts
  <2>4. desc[i].host + 0 = desc[i].host /\ TransferAddr + off[i - 1] + 0 = TransferAddr + off[i - 1]
    BY <1>6, <2>3
  <2>5. QED BY <2>2, <2>4
<1>9. req.start \in Nat /\ req.pos \in Nat /\ done \in Nat /\ pos = req.pos + done
      /\ TransferAddr = req.start + done
  BY <1>1, RunFacts, TransferFacts DEF ShapeInv, TransferAddr
<1>10. req.start % A = req.pos % A
  <2>1. TransferAligned(req)
    BY DEF AlignInv, Transferring
  <2>2. QED BY <2>1 DEF TransferAligned
<1> DEFINE c == done + off[i - 1]
<1>11. c \in Nat /\ TransferAddr + off[i - 1] = req.start + c /\ pos + off[i - 1] = req.pos + c
  <2> DEFINE o == off[i - 1]
             s == req.start
             e == req.pos
  <2>1. o \in Nat /\ s \in Nat /\ e \in Nat /\ done \in Nat /\ pos = e + done
        /\ TransferAddr = s + done
    BY <1>6, <1>9
  <2> HIDE DEF o, s, e
  <2>2. done + o \in Nat /\ TransferAddr + o = s + (done + o) /\ pos + o = e + (done + o)
    BY <2>1
  <2>3. QED BY <2>2 DEF o, s, e
<1> HIDE DEF A, c
<1>12. (req.start + c) % A = (req.pos + c) % A
  <2> DEFINE s == req.start
             e == req.pos
  <2>1. s \in Nat /\ e \in Nat /\ s % A = e % A /\ c \in Nat
    BY <1>9, <1>10, <1>11
  <2> HIDE DEF s, e
  <2>2. A \in Nat \ {0}
    BY <1>2
  <2>3. (s + c) % A = (e + c) % A
    BY <2>1, <2>2, ShiftRemainder
  <2>4. QED BY <2>3 DEF s, e
<1>13. PhysAddr(req.start + c) % A = (req.start + c) % A
  <2> DEFINE y == req.start + c
  <2>1. y \in Nat
    BY <1>9, <1>11
  <2> HIDE DEF y
  <2>2. PhysAddr(y) % A = y % A
    BY <1>1, <1>2, <2>1, PhysAlign
  <2>3. QED BY <2>2 DEF y
<1>14. QED BY <1>7, <1>8, <1>11, <1>12, <1>13 DEF A

\* A stream or a fixed address: every boundary between descriptors is aligned.
LEMMA AlignedEdges ==
  ASSUME TablesInv, AlignInv, pc \in {"run", "orphan"}, ~switched, streaming \/ non_incr_addr,
         NEW fixed \in BOOLEAN, NEW off \in [0 .. Len(desc) -> Nat], RunTiling(off, fixed),
         NEW k \in 0 .. Len(desc)
  PROVE  /\ TransferAddr + off[k] \in Nat
         /\ (TransferAddr + off[k]) % LenGranularity = 0
         /\ k < Len(desc) => (TransferAddr + off[k]) % AddrAlign = 0
<1> DEFINE A == AddrAlign
           G == LenGranularity
           t == TransferAddr
           l == TransferLen
           n == Len(desc)
<1>1. ShapeInv /\ alignments \in AlignRegisters /\ done < req.count /\ n \in Nat \ {0}
  BY RunFacts DEF TablesInv, ShapeInv, Linked
<1>2. A \in Nat \ {0} /\ G \in Nat \ {0} /\ PageSize % A = 0 /\ TransferMax % A = 0 /\ A % G = 0
  BY <1>1, AlignFacts
<1>3. req.start % A = 0 /\ req.count % G = 0
  <2>1. TransferAligned(req)
    BY DEF AlignInv, Transferring
  <2>2. QED BY <2>1 DEF TransferAligned
<1>4. /\ req.start \in Nat /\ req.count \in Nat /\ done \in Nat /\ t = req.start + done
      /\ t \in Nat /\ l \in Nat /\ done % TransferMax = 0
      /\ done + l = req.count \/ l = TransferMax
  BY <1>1, TransferFacts DEF TransferAddr
<1>5. TransferMax \in Nat \ {0} /\ PageSize \in Nat \ {0}
  BY SizesAssumption
<1>6. off[k] \in Nat /\ off[0] = 0 /\ off[n] = l
      /\ \A j \in 1 .. n : j > 1 => (t + off[j - 1]) % PageSize = 0
  BY DEF RunTiling, DescTiling
<1>7. k \in 0 .. n
  OBVIOUS
<1> HIDE DEF A, G, t, l, n
<1>8. t + off[k] \in Nat
  BY <1>4, <1>6
<1>9. done % A = 0
  BY <1>2, <1>4, <1>5, MultTrans
<1>10. t % A = 0
  BY <1>2, <1>3, <1>4, <1>9, MultSum
<1>11. ASSUME NEW a \in Nat, a % A = 0 PROVE a % G = 0
  BY <1>2, <1>11, MultTrans
<1>12. CASE k = 0
  <2>1. t + off[k] = t
    BY <1>4, <1>6, <1>12
  <2>2. QED BY <1>4, <1>8, <1>10, <1>11, <2>1 DEF A, G, t
<1>13. CASE k > 0 /\ k < n
  <2>1. k + 1 \in 1 .. n /\ k + 1 > 1 /\ (k + 1) - 1 = k
    BY <1>1, <1>7, <1>13
  <2>2. (t + off[k]) % PageSize = 0
    BY <1>6, <2>1
  <2>3. (t + off[k]) % A = 0
    BY <1>2, <1>5, <1>8, <2>2, MultTrans
  <2>4. QED BY <1>8, <1>11, <2>3 DEF A, G, t
<1>14. CASE k = n
  <2>1. t + off[k] = req.start + (done + l)
    BY <1>4, <1>6, <1>14
  <2>2. (done + l) % G = 0
    <3>1. CASE done + l = req.count
      BY <1>3, <3>1
    <3>2. CASE l = TransferMax
      <4>1. (done + l) % A = 0
        BY <1>2, <1>4, <1>5, <1>9, <3>2, MultSum
      <4>2. done + l \in Nat
        BY <1>4
      <4>3. QED BY <1>11, <4>1, <4>2
    <3>3. QED BY <1>4, <3>1, <3>2
  <2>3. req.start % G = 0
    BY <1>3, <1>4, <1>11
  <2>4. done + l \in Nat
    BY <1>4
  <2>5. (req.start + (done + l)) % G = 0
    <3> DEFINE x == done + l
    <3> HIDE DEF x
    <3>1. x \in Nat /\ x % G = 0
      BY <2>2, <2>4 DEF x
    <3>2. (req.start + x) % G = 0
      BY <1>2, <1>4, <2>3, <3>1, MultSum
    <3>3. QED BY <3>2 DEF x
  <2>6. ~(k < n)
    BY <1>1, <1>14
  <2>7. QED BY <1>8, <2>1, <2>5, <2>6 DEF G, t, n
<1>15. k = 0 \/ (k > 0 /\ k < n) \/ k = n
  BY <1>1, <1>7
<1>16. QED BY <1>12, <1>13, <1>14, <1>15

LEMMA AlignedStream ==
  ASSUME TablesInv, AlignInv, pc \in {"run", "orphan"}, ~switched, streaming \/ non_incr_addr,
         NEW i \in 1 .. Len(desc)
  PROVE  desc[i].host % AddrAlign = 0 /\ desc[i].bytes % LenGranularity = 0
<1> DEFINE A == AddrAlign
           G == LenGranularity
           t == TransferAddr
<1>1. ShapeInv /\ alignments \in AlignRegisters /\ PhysOK
  BY FiniteGaps DEF TablesInv, ShapeInv
<1>2. A \in Nat \ {0} /\ G \in Nat \ {0} /\ PageSize % A = 0
  BY <1>1, AlignFacts
<1>3. PICK fixed \in BOOLEAN : \E off \in [0 .. Len(desc) -> Nat] : RunTiling(off, fixed)
  BY RunFacts
<1>4. PICK off \in [0 .. Len(desc) -> Nat] : RunTiling(off, fixed)
  BY <1>3
<1>5. i \in 0 .. Len(desc) /\ i - 1 \in 0 .. Len(desc) /\ i - 1 < Len(desc)
  OBVIOUS
<1>6. /\ desc[i].host \in Nat /\ desc[i].bytes \in 1 .. DescMax
      /\ off[i] = off[i - 1] + desc[i].bytes /\ off[i] \in Nat /\ off[i - 1] \in Nat
  BY <1>4, <1>5 DEF RunTiling, DescTiling
<1>7. (t + off[i - 1]) % A = 0 /\ (t + off[i - 1]) % G = 0 /\ t + off[i - 1] \in Nat
  BY <1>3, <1>4, <1>5, AlignedEdges
<1>8. (t + off[i]) % G = 0 /\ t + off[i] \in Nat
  BY <1>3, <1>4, <1>5, AlignedEdges
<1>9. t \in Nat
  BY <1>1, RunFacts, TransferFacts
<1>10. desc[i].host = PhysAddr(t + off[i - 1])
  <2>1. 0 \in 0 .. desc[i].bytes - 1
    BY <1>6
  <2>2. desc[i].host + 0 = PhysAddr(t + off[i - 1] + 0)
    BY <1>4, <2>1, DescBytes
  <2>3. desc[i].host + 0 = desc[i].host /\ t + off[i - 1] + 0 = t + off[i - 1]
    BY <1>6, <1>9
  <2>4. QED BY <2>2, <2>3
<1> DEFINE x == t + off[i]
           y == t + off[i - 1]
<1>11. x \in Nat /\ y \in Nat /\ y <= x /\ x - y = desc[i].bytes
  <2>1. desc[i].bytes \in Nat
    BY <1>6, SizesAssumption
  <2> DEFINE c == off[i]
             o == off[i - 1]
             z == desc[i].bytes
  <2>2. c \in Nat /\ o \in Nat /\ z \in Nat /\ c = o + z
    BY <1>6, <2>1
  <2> HIDE DEF c, o, z, t
  <2>3. t + c \in Nat /\ t + o \in Nat /\ t + o <= t + c /\ (t + c) - (t + o) = z
    BY <1>9, <2>2
  <2>4. QED BY <2>3 DEF c, o, z
<1> HIDE DEF x, y, A, G
<1>12. x % G = 0 /\ y % G = 0 /\ y % A = 0
  BY <1>7, <1>8 DEF x, y
<1>13. (x - y) % G = 0
  BY <1>2, <1>11, <1>12, MultSum
<1>14. PhysAddr(y) % A = y % A
  BY <1>1, <1>2, <1>11, PhysAlign
<1>15. QED BY <1>10, <1>11, <1>12, <1>13, <1>14 DEF y, A, G

\* For every buffer, page table and alignment the assertions of xdma-sgm.c
\* hold, the descriptors fit the table that was allocated and their length
\* field, none is empty, and the alignment that check_transfer_align() tested
\* on the whole request holds of each of them.
THEOREM DescriptorsAlwaysFit == Spec => []DescriptorsFit
<1>1. TablesInv /\ AlignInv => DescriptorsFit
  <2> SUFFICES ASSUME TablesInv, AlignInv PROVE DescriptorsFit
    OBVIOUS
  <2>1. ScatterAssertions
    BY DEF TablesInv, ShapeInv, ScatterAssertions
  <2>2. ASSUME pc \in {"run", "orphan"} PROVE Len(desc) \in 1 .. Len(sgl)
    BY <2>2, RunFacts
  <2>3. ASSUME pc \in {"run", "orphan"}, NEW i \in 1 .. Len(desc)
        PROVE  desc[i].bytes \in 1 .. DescMax
    BY <2>3, RunFacts DEF RunTiling, DescTiling
  <2>4. ASSUME pc \in {"run", "orphan"}, ~switched, NEW i \in 1 .. Len(desc)
        PROVE  IF streaming \/ non_incr_addr
                 THEN /\ desc[i].host % AddrAlign = 0
                      /\ desc[i].bytes % LenGranularity = 0
                 ELSE desc[i].host % AddrAlign = desc[i].ep % AddrAlign
    BY <2>4, AlignedStream, AlignedCopy
  <2>5. QED BY <2>1, <2>2, <2>3, <2>4, Zenon DEF DescriptorsFit
<1>2. Init => AlignInv
  BY DEF Init, AlignInv, Transferring
<1>3. QED BY <1>1, <1>2, AlignStep, FetchHolds, PTL DEF Spec

(***************************************************************************)
(* Delivery.                                                               *)
(***************************************************************************)
Pairs == Nat \X Nat
Sent == {"create", "done"} \cup Transferring

\* How much has been moved: the descriptors before the next one to execute.
LenInv ==
  /\ moved \in Seq(Pairs)
  /\ pc = "idle" => moved = <<>>
  /\ pc \in {"create", "build", "done"} => Len(moved) = done
  /\ pc \in {"run", "orphan"} =>
       \E fixed \in BOOLEAN : \E off \in [0 .. Len(desc) -> Nat] :
         /\ RunTiling(off, fixed)
         /\ Len(moved) = done + (IF fetched = <<>> THEN TransferLen ELSE off[Head(fetched)])

HostInv ==
  pc \in Sent => \A k \in 1 .. Len(moved) : moved[k][1] = PhysAddr(req.start + k - 1)

DevInv ==
  pc \in Sent /\ ~switched =>
    /\ ~non_incr_addr => \A k \in 1 .. Len(moved) : moved[k][2] = req.pos + k - 1
    /\ non_incr_addr /\ req.count <= TransferMax /\ ~PollMode =>
         \A k \in 1 .. Len(moved) : moved[k][2] = req.pos

RingInv ==
  pc = "ring" =>
    /\ fetched # <<>> /\ Head(fetched) = Len(moved) % RingPages
    /\ \A k \in 1 .. Len(moved) :
         moved[k] = <<PhysPage((k - 1) % RingPages) * PageSize, (k - 1) % RingPages>>

LEMMA Concatenated ==
  ASSUME NEW S, NEW a \in Seq(S), NEW b \in Seq(S)
  PROVE  /\ a \o b \in Seq(S) /\ Len(a \o b) = Len(a) + Len(b)
         /\ \A x \in 1 .. Len(a) + Len(b) :
              (a \o b)[x] = IF x <= Len(a) THEN a[x] ELSE b[x - Len(a)]
<1>1. a \o b \in Seq(S)
  OBVIOUS
<1>2. Len(a \o b) = Len(a) + Len(b)
  OBVIOUS
<1>3. \A x \in 1 .. Len(a) + Len(b) :
        (a \o b)[x] = IF x <= Len(a) THEN a[x] ELSE b[x - Len(a)]
  OBVIOUS
<1>4. QED BY <1>1, <1>2, <1>3

\* The hardware executes the descriptor at the head of those it fetched.
LEMMA MoveOne ==
  ASSUME TablesInv, FetchInv, HwMove, pc \in {"run", "orphan"},
         NEW fixed \in BOOLEAN, NEW off \in [0 .. Len(desc) -> Nat], RunTiling(off, fixed),
         moved \in Seq(Pairs), Len(moved) = done + off[Head(fetched)]
  PROVE  LET i == Head(fetched) + 1
             m == Len(moved)
         IN /\ i \in 1 .. Len(desc) /\ moved' \in Seq(Pairs)
            /\ Len(moved') = done + off[i] /\ Len(moved') = m + desc[i].bytes
            /\ \A j \in 1 .. m : moved'[j] = moved[j]
            /\ \A j \in m + 1 .. Len(moved') :
                 moved'[j] = <<PhysAddr(req.start + j - 1),
                               IF hw_non_incr THEN desc[i].ep ELSE desc[i].ep + (j - m - 1)>>
            /\ IF fetched' = <<>> THEN off[i] = TransferLen ELSE Head(fetched') = i
<1> DEFINE h == Head(fetched)
           i == h + 1
           m == Len(moved)
           n == Len(desc)
           d == desc[i]
           b == d.bytes
           t == TransferAddr
           s == Moves(d)
<1>1. Linked(desc, Stop) /\ n \in Nat \ {0} /\ done < req.count /\ ShapeInv
      /\ desc \in Seq(Descriptors)
  BY RunFacts DEF TablesInv, Linked
<1>2. fetched # <<>> /\ moved' = moved \o s /\ fetched' = NextFetch(fetched, desc)
  BY DEF HwMove, NextFetch
<1>3. /\ h \in 0 .. n - 1
      /\ IF h = n - 1 THEN fetched' = <<>> ELSE fetched' # <<>> /\ Head(fetched') = h + 1
  <2>1. Stop \in {Stop, 0}
    OBVIOUS
  <2>2. FetchOK(fetched, n)
    BY DEF FetchInv
  <2>3. /\ h \in 0 .. n - 1
        /\ IF h = n - 1
             THEN IF Stop = Stop THEN NextFetch(fetched, desc) = <<>>
                  ELSE NextFetch(fetched, desc) # <<>> /\ Head(NextFetch(fetched, desc)) = 0
             ELSE NextFetch(fetched, desc) # <<>> /\ Head(NextFetch(fetched, desc)) = h + 1
    BY <1>1, <1>2, <2>1, <2>2, FetchNext, Zenon
  <2>4. QED BY <1>2, <2>3
<1>4. i \in 1 .. n /\ i - 1 = h /\ h \in 0 .. n
  BY <1>1, <1>3
<1>5. DescTiling(desc, off, t, pos, fixed) /\ off[n] = TransferLen
  BY DEF RunTiling
<1>6. /\ d.host \in Nat /\ b \in 1 .. DescMax /\ off[i] = off[h] + b /\ off[h] \in Nat
      /\ Maps(d.host, t + off[h], b)
  BY <1>4, <1>5 DEF DescTiling
<1>7. b \in Nat \ {0}
  BY <1>6, SizesAssumption
<1>8. t = req.start + done /\ req.start \in Nat /\ done \in Nat
  BY <1>1, TransferFacts DEF TransferAddr
<1>9. d \in Descriptors
  BY <1>1, <1>4
<1>10. d.ep \in Nat
  BY <1>9 DEF Descriptors
<1>11. s = [k \in 1 .. b |-> <<d.host + k - 1, IF hw_non_incr THEN d.ep ELSE d.ep + k - 1>>]
  BY DEF Moves
<1>12. m = done + off[h] /\ m \in Nat
  BY <1>6, <1>8
<1> HIDE DEF h, i, m, n, d, b, t, s
<1>13. \A k \in 1 .. b : s[k] \in Pairs
  <2>1. SUFFICES ASSUME NEW k \in 1 .. b PROVE s[k] \in Pairs
    OBVIOUS
  <2>2. s[k] = <<d.host + k - 1, IF hw_non_incr THEN d.ep ELSE d.ep + k - 1>>
    BY <1>11, <2>1
  <2>3. d.host + k - 1 \in Nat /\ d.ep + k - 1 \in Nat
    BY <1>6, <1>7, <1>10, <2>1
  <2>4. (IF hw_non_incr THEN d.ep ELSE d.ep + k - 1) \in Nat
    BY <1>10, <2>3
  <2>5. QED BY <2>2, <2>3, <2>4 DEF Pairs
<1>14. s \in Seq(Pairs) /\ Len(s) = b
  <2>1. s \in [1 .. b -> Pairs]
    BY <1>11, <1>13
  <2>2. QED BY <1>7, <2>1
<1>15. /\ moved' \in Seq(Pairs) /\ Len(moved') = m + b
       /\ \A j \in 1 .. m : moved'[j] = moved[j]
       /\ \A j \in m + 1 .. m + b : moved'[j] = s[j - m]
  <2>1. moved \in Seq(Pairs) /\ Len(moved) = m
    BY DEF m
  <2>2. moved \o s \in Seq(Pairs) /\ Len(moved \o s) = m + b
    BY <1>14, <2>1, Concatenated
  <2>3. ASSUME NEW j \in 1 .. m PROVE (moved \o s)[j] = moved[j]
    BY <1>7, <1>12, <1>14, <2>1, <2>3
  <2>4. ASSUME NEW j \in m + 1 .. m + b PROVE (moved \o s)[j] = s[j - m]
    <3>1. m \in Nat /\ b \in Nat
      BY <1>7, <1>12
    <3>2. j \in 1 .. m + b /\ ~(j <= m)
      BY <2>4, <3>1
    <3>3. \A x \in 1 .. Len(moved) + Len(s) :
            (moved \o s)[x] = IF x <= Len(moved) THEN moved[x] ELSE s[x - Len(moved)]
      BY <1>14, <2>1, Concatenated
    <3>4. QED BY <1>14, <2>1, <3>2, <3>3
  <2>5. QED BY <1>2, <2>2, <2>3, <2>4
<1>16. Len(moved') = done + off[i]
  BY <1>6, <1>7, <1>8, <1>12, <1>15
<1>17. ASSUME NEW j \in m + 1 .. Len(moved')
       PROVE  moved'[j] = <<PhysAddr(req.start + j - 1),
                            IF hw_non_incr THEN d.ep ELSE d.ep + (j - m - 1)>>
  <2> DEFINE k == j - m
  <2>1. k \in 1 .. b /\ k - 1 \in 0 .. b - 1 /\ j \in m + 1 .. m + b
    <3>1. j \in m + 1 .. m + b
      BY <1>15, <1>17
    <3>2. m \in Nat /\ b \in Nat
      BY <1>7, <1>12
    <3>3. QED BY <3>1, <3>2
  <2> HIDE DEF k
  <2>2. moved'[j] = <<d.host + k - 1, IF hw_non_incr THEN d.ep ELSE d.ep + k - 1>>
    <3>1. moved'[j] = s[k]
      BY <1>15, <2>1 DEF k
    <3>2. QED BY <1>11, <2>1, <3>1
  <2>3. d.host + (k - 1) = PhysAddr(t + off[h] + (k - 1))
    BY <1>6, <2>1 DEF Maps
  <2>4. t + off[h] + (k - 1) = req.start + j - 1
    <3> DEFINE o == off[h]
               a == req.start
    <3>1. o \in Nat /\ a \in Nat /\ done \in Nat /\ t = a + done /\ m = done + o
      BY <1>6, <1>8, <1>12
    <3>2. j \in Int /\ k = j - m
      BY <1>7, <1>12, <2>1 DEF k
    <3> HIDE DEF o, a
    <3>3. t + o + (k - 1) = a + j - 1
      BY <3>1, <3>2
    <3>4. QED BY <3>3 DEF o, a
  <2>5. d.host + k - 1 = d.host + (k - 1) /\ d.ep + k - 1 = d.ep + (j - m - 1)
    <3>1. k = j - m /\ j \in Int /\ m \in Int
      BY <1>7, <1>12, <1>15, <1>17 DEF k
    <3>2. QED BY <1>6, <1>10, <3>1
  <2>6. QED BY <2>2, <2>3, <2>4, <2>5
<1>18. IF fetched' = <<>> THEN off[i] = TransferLen ELSE Head(fetched') = i
  <2>1. h = n - 1 => i = n
    BY <1>1, <1>3 DEF i
  <2>2. QED BY <1>3, <1>5, <2>1 DEF i
<1>19. QED BY <1>4, <1>15, <1>16, <1>17, <1>18 DEF h, i, m, n, d, b

LEMMA SamePhys == ASSUME UNCHANGED gaps, NEW a PROVE PhysAddr(a)' = PhysAddr(a)
BY DEF PhysAddr, PhysPage

\* The tiling of the transfer survives every step that leaves the transfer in
\* hand.
LEMMA TilingStays ==
  ASSUME UNCHANGED <<gaps, req, done, pos, desc>>,
         ~switched' => ~switched /\ UNCHANGED non_incr_addr,
         NEW fixed \in BOOLEAN, NEW off \in [0 .. Len(desc) -> Nat], RunTiling(off, fixed)
  PROVE  RunTiling(off, fixed)' /\ TransferLen' = TransferLen
<1>1. TransferAddr' = TransferAddr /\ TransferLen' = TransferLen
  BY DEF TransferAddr, TransferLen, Remaining
<1>2. ASSUME NEW a, NEW host, NEW bytes PROVE Maps(host, a, bytes)' = Maps(host, a, bytes)
  BY SamePhys DEF Maps
<1>3. DescTiling(desc, off, TransferAddr, pos, fixed) /\ off[Len(desc)] = TransferLen
      /\ (~switched => fixed = non_incr_addr)
  BY DEF RunTiling
<1>4. DescTiling(desc, off, TransferAddr, pos, fixed)'
  BY <1>1, <1>2, <1>3 DEF DescTiling
<1>5. QED BY <1>1, <1>3, <1>4 DEF RunTiling

RunHas ==
  pc \in {"run", "orphan"} =>
    \E fixed \in BOOLEAN : \E off \in [0 .. Len(desc) -> Nat] : RunTiling(off, fixed)

LEMMA RunHasHolds == TablesInv => RunHas
BY RunFacts DEF RunHas

\* The steps of a request but for those of the hardware.
Quiet ==
  \/ CreateFails \/ PinPages \/ PinFails \/ Build \/ AllocFails \/ Completed \/ Failed
  \/ Interrupted \/ Finish \/ ReturnDone \/ AddrModeSet \/ OpenRing
  \/ CloseRing \/ Halted \/ UNCHANGED vars \/ \E r \in Requests : Request(r)

\* They leave what was moved alone until the request returns.
LEMMA QuietStep ==
  ASSUME Quiet
  PROVE  \/ moved' = moved /\ req' = req /\ ((pc' \in Sent => pc \in Sent) \/ pc' = pc)
         \/ moved' = <<>> /\ pc' = "idle"
         \/ moved' = moved /\ pc = "idle"
BY DEF Quiet, CreateFails, PinPages, PinFails, Build, AllocFails, Completed, Failed, Interrupted,
   Finish, ReturnDone, AddrModeSet, OpenRing, CloseRing, Halted, vars, Request, Return,
   config_vars, mode_vars, table_vars, Sent, Transferring

LEMMA LenStep == TablesInv /\ FetchInv /\ LenInv /\ [Next]_vars /\ TablesInv' => LenInv'
<1> SUFFICES ASSUME TablesInv, FetchInv, LenInv, [Next]_vars, TablesInv' PROVE LenInv'
  OBVIOUS
<1> USE DEF config_vars, mode_vars, table_vars
<1>1. UNCHANGED gaps /\ moved \in Seq(Pairs)
  BY GapsFixed DEF LenInv
<1>2. ASSUME moved' = <<>>, pc' = "idle" PROVE LenInv'
  BY <1>2 DEF LenInv
<1>3. CASE \/ CreateFails \/ Failed \/ ReturnDone \/ CloseRing
  <2>1. moved' = <<>> /\ pc' = "idle"
    BY <1>3 DEF CreateFails, Failed, ReturnDone, CloseRing, Return
  <2>2. QED BY <1>2, <2>1
<1>4. CASE \/ \E r \in Requests : Request(r)
           \/ PinPages \/ PinFails \/ AllocFails \/ Finish \/ OpenRing
  <2>1. /\ moved' = moved /\ done' = done /\ pc \in {"idle", "create", "build"}
        /\ pc' \in {"create", "build", "oops", "done", "ring", "assert"}
        /\ pc' \in {"create", "build", "done"} => pc \in {"idle", "create", "build"}
    BY <1>4 DEF Request, PinPages, PinFails, AllocFails, Finish, OpenRing
  <2>2. Len(moved) = done
    <3>1. CASE pc = "idle"
      BY <3>1 DEF LenInv, TablesInv, ShapeInv
    <3>2. CASE pc # "idle"
      BY <2>1, <3>2 DEF LenInv
    <3>3. QED BY <3>1, <3>2
  <2>3. QED BY <1>1, <2>1, <2>2 DEF LenInv
<1>5. CASE Build
  <2>1. /\ pc = "build" /\ pc' = "run" /\ moved' = moved /\ done' = done
        /\ fetched' = [i \in 1 .. FirstAdj(Len(desc')) + 1 |-> i - 1]
    BY <1>5 DEF Build
  <2>2. Len(moved) = done
    BY <2>1 DEF LenInv
  <2>3. TablesInv' => RunHas' /\ TableLength'
    BY RunHasHolds, TableLengthHolds, PTL
  <2>4. PICK fixed \in BOOLEAN : \E off \in [0 .. Len(desc') -> Nat] : RunTiling(off, fixed)'
    BY <2>1, <2>3 DEF RunHas
  <2>5. PICK off \in [0 .. Len(desc') -> Nat] : RunTiling(off, fixed)'
    BY <2>4
  <2>6. fetched' # <<>> /\ Head(fetched') = 0
    <3>1. Len(desc') \in Nat \ {0}
      BY <2>1, <2>3 DEF TableLength
    <3>2. QED BY <2>1, <3>1, FirstFetch
  <2>7. off[0] = 0
    BY <2>5 DEF RunTiling, DescTiling
  <2>8. Len(moved') = done' + off[Head(fetched')]
    <3>1. done \in Nat
      BY <2>1, TransferFacts DEF TablesInv, ShapeInv, Transferring
    <3>2. QED BY <2>1, <2>2, <2>6, <2>7, <3>1
  <2>9. QED BY <1>1, <2>1, <2>4, <2>5, <2>6, <2>8 DEF LenInv
<1>6. CASE Completed
  <2>1. /\ pc = "run" /\ pc' = "create" /\ fetched = <<>> /\ moved' = moved
        /\ done' = done + TransferLen
    BY <1>6 DEF Completed, Advance
  <2>2. Len(moved) = done + TransferLen
    BY <2>1 DEF LenInv
  <2>3. QED BY <1>1, <2>1, <2>2 DEF LenInv
<1>7. CASE Interrupted \/ AddrModeSet \/ Halted \/ UNCHANGED vars
  <2>1. /\ UNCHANGED <<req, done, pos, desc, moved, fetched>>
        /\ (pc' = pc \/ (pc = "run" /\ pc' = "orphan"))
    BY <1>7 DEF Interrupted, AddrModeSet, Halted, vars
  <2>2. \/ ~switched' => (~switched /\ UNCHANGED non_incr_addr)
        \/ pc \notin {"run", "orphan"}
    BY <1>7, Zenon DEF Interrupted, AddrModeSet, Halted, vars
  <2>3. CASE pc \in {"run", "orphan"}
    <3>1. PICK fixed \in BOOLEAN : \E off \in [0 .. Len(desc) -> Nat] :
            /\ RunTiling(off, fixed)
            /\ Len(moved) = done + (IF fetched = <<>> THEN TransferLen ELSE off[Head(fetched)])
      BY <2>3 DEF LenInv
    <3>2. PICK off \in [0 .. Len(desc) -> Nat] :
            /\ RunTiling(off, fixed)
            /\ Len(moved) = done + (IF fetched = <<>> THEN TransferLen ELSE off[Head(fetched)])
      BY <3>1
    <3>3. RunTiling(off, fixed)' /\ TransferLen' = TransferLen
      BY <1>1, <2>1, <2>2, <2>3, <3>1, <3>2, TilingStays
    <3>4. Len(moved') = done' + (IF fetched' = <<>> THEN TransferLen' ELSE off[Head(fetched')])
      BY <2>1, <3>2, <3>3
    <3>5. off \in [0 .. Len(desc') -> Nat]
      BY <2>1
    <3>6. QED BY <1>1, <2>1, <2>3, <3>1, <3>3, <3>4, <3>5 DEF LenInv
  <2>4. CASE pc \notin {"run", "orphan"}
    BY <2>1, <2>4 DEF LenInv
  <2>5. QED BY <2>3, <2>4
<1>8. CASE HwMove
  <2>1. /\ UNCHANGED <<req, done, pos, desc, pc, switched, non_incr_addr>> /\ fetched # <<>>
    BY <1>8 DEF HwMove
  <2>2. pc \in {"run", "orphan", "ring"}
    BY <2>1 DEF TablesInv, TableInv
  <2>3. CASE pc = "ring"
    <3>1. moved' = Append(moved, <<desc[Head(fetched) + 1].host, desc[Head(fetched) + 1].ep>>)
      BY <1>8, <2>3 DEF HwMove
    <3>2. desc \in Seq(Descriptors) /\ Linked(desc, 0)
      BY <2>3, RingRunFacts
    <3>3. Head(fetched) \in 0 .. Len(desc) - 1
      BY <2>1, <3>2, FetchNext DEF FetchInv
    <3>4. desc[Head(fetched) + 1] \in Descriptors
      <4> DEFINE i == Head(fetched) + 1
      <4>1. i \in 1 .. Len(desc)
        BY <3>3
      <4> HIDE DEF i
      <4>2. desc[i] \in Descriptors
        BY <3>2, <4>1
      <4>3. QED BY <4>2 DEF i
    <3>5. <<desc[Head(fetched) + 1].host, desc[Head(fetched) + 1].ep>> \in Pairs
      BY <3>4 DEF Descriptors, Pairs
    <3>6. moved' \in Seq(Pairs)
      BY <1>1, <3>1, <3>5
    <3>7. QED BY <2>1, <2>3, <3>6 DEF LenInv
  <2>4. CASE pc \in {"run", "orphan"}
    <3>1. PICK fixed \in BOOLEAN : \E off \in [0 .. Len(desc) -> Nat] :
            /\ RunTiling(off, fixed)
            /\ Len(moved) = done + (IF fetched = <<>> THEN TransferLen ELSE off[Head(fetched)])
      BY <2>4 DEF LenInv
    <3>2. PICK off \in [0 .. Len(desc) -> Nat] :
            /\ RunTiling(off, fixed) /\ Len(moved) = done + off[Head(fetched)]
      BY <2>1, <3>1
    <3> DEFINE i == Head(fetched) + 1
    <3>3. /\ i \in 1 .. Len(desc) /\ moved' \in Seq(Pairs) /\ Len(moved') = done + off[i]
          /\ IF fetched' = <<>> THEN off[i] = TransferLen ELSE Head(fetched') = i
      BY <1>1, <1>8, <2>4, <3>1, <3>2, MoveOne
    <3> HIDE DEF i
    <3>4. RunTiling(off, fixed)' /\ TransferLen' = TransferLen
      BY <1>1, <2>1, <3>1, <3>2, TilingStays
    <3>5. Len(moved') = done' + (IF fetched' = <<>> THEN TransferLen' ELSE off[Head(fetched')])
      BY <2>1, <3>3, <3>4
    <3>6. off \in [0 .. Len(desc') -> Nat]
      BY <2>1
    <3>7. QED BY <2>1, <2>4, <3>1, <3>3, <3>4, <3>5, <3>6 DEF LenInv
  <2>5. QED BY <2>2, <2>3, <2>4
<1>9. QED BY <1>3, <1>4, <1>5, <1>6, <1>7, <1>8, Zenon DEF Next

LEMMA HostStep == TablesInv /\ FetchInv /\ LenInv /\ HostInv /\ [Next]_vars => HostInv'
<1> SUFFICES ASSUME TablesInv, FetchInv, LenInv, HostInv, [Next]_vars PROVE HostInv'
  OBVIOUS
<1>1. UNCHANGED gaps /\ moved \in Seq(Pairs)
  BY GapsFixed DEF LenInv
<1>2. ASSUME NEW a PROVE PhysAddr(a)' = PhysAddr(a)
  BY <1>1, SamePhys
<1>3. ASSUME moved' = <<>> PROVE HostInv'
  BY <1>3 DEF HostInv
<1>4. ASSUME moved' = moved, req' = req, pc \in Sent PROVE HostInv'
  BY <1>2, <1>4 DEF HostInv
<1>5. CASE Quiet
  <2>1. CASE moved' = moved /\ req' = req /\ ((pc' \in Sent => pc \in Sent) \/ pc' = pc)
    <3>1. pc \in Sent \/ pc' \notin Sent
      BY <2>1
    <3>2. QED BY <1>4, <2>1, <3>1 DEF HostInv
  <2>2. CASE moved' = <<>>
    BY <1>3, <2>2
  <2>3. CASE moved' = moved /\ pc = "idle"
    BY <1>3, <2>3 DEF LenInv
  <2>4. QED BY <1>5, <2>1, <2>2, <2>3, QuietStep
<1>6. CASE HwMove
  <2>1. UNCHANGED <<pc, req>> /\ fetched # <<>>
    BY <1>6 DEF HwMove
  <2>2. CASE pc \notin {"run", "orphan"}
    <3>1. pc = "ring"
      BY <2>1, <2>2 DEF TablesInv, TableInv
    <3>2. pc' \notin Sent
      BY <2>1, <3>1 DEF Sent, Transferring
    <3>3. QED BY <3>2 DEF HostInv
  <2>3. CASE pc \in {"run", "orphan"}
    <3>1. PICK fixed \in BOOLEAN : \E off \in [0 .. Len(desc) -> Nat] :
            RunTiling(off, fixed) /\ Len(moved) = done + off[Head(fetched)]
      BY <2>1, <2>3 DEF LenInv
    <3>2. PICK off \in [0 .. Len(desc) -> Nat] :
            RunTiling(off, fixed) /\ Len(moved) = done + off[Head(fetched)]
      BY <3>1
    <3> DEFINE m == Len(moved)
               i == Head(fetched) + 1
    <3>3. /\ \A j \in 1 .. m : moved'[j] = moved[j]
          /\ \A j \in m + 1 .. Len(moved') :
               moved'[j] = <<PhysAddr(req.start + j - 1),
                             IF hw_non_incr THEN desc[i].ep ELSE desc[i].ep + (j - m - 1)>>
          /\ moved' \in Seq(Pairs)
      BY <1>1, <1>6, <2>3, <3>1, <3>2, MoveOne
    <3>4. pc \in Sent
      BY <2>3 DEF Sent, Transferring
    <3>5. \A j \in 1 .. m : moved[j][1] = PhysAddr(req.start + j - 1)
      BY <3>4 DEF HostInv
    <3>6. m \in Nat /\ Len(moved') \in Nat
      BY <1>1, <3>3
    <3> HIDE DEF m, i
    <3>7. ASSUME NEW j \in 1 .. Len(moved') PROVE moved'[j][1] = PhysAddr(req.start + j - 1)
      <4>1. CASE j <= m
        <5>1. j \in 1 .. m
          BY <3>6, <3>7, <4>1
        <5>2. QED BY <3>3, <3>5, <5>1
      <4>2. CASE j > m
        <5>1. j \in m + 1 .. Len(moved')
          BY <3>6, <3>7, <4>2
        <5>2. QED BY <3>3, <5>1
      <4>3. QED BY <3>6, <3>7, <4>1, <4>2
    <3>8. QED BY <1>2, <2>1, <3>7 DEF HostInv
  <2>4. QED BY <2>2, <2>3
<1>7. QED BY <1>5, <1>6, Zenon DEF Next, Quiet

\* The device addresses that a run descriptor stands for.
LEMMA DevMove ==
  ASSUME TablesInv, FetchInv, HwMove, pc \in {"run", "orphan"}, ~switched,
         NEW fixed \in BOOLEAN, NEW off \in [0 .. Len(desc) -> Nat], RunTiling(off, fixed),
         moved \in Seq(Pairs), Len(moved) = done + off[Head(fetched)],
         NEW j \in Len(moved) + 1 .. Len(moved')
  PROVE  /\ ~non_incr_addr => moved'[j][2] = req.pos + j - 1
         /\ non_incr_addr /\ req.count <= TransferMax /\ ~PollMode => moved'[j][2] = req.pos
<1> DEFINE i == Head(fetched) + 1
           m == Len(moved)
           o == off[i - 1]
           e == desc[i].ep
<1>1. /\ i \in 1 .. Len(desc) /\ moved' \in Seq(Pairs)
      /\ moved'[j] = <<PhysAddr(req.start + j - 1),
                       IF hw_non_incr THEN e ELSE e + (j - m - 1)>>
  BY MoveOne
<1>2. moved'[j][2] = IF hw_non_incr THEN e ELSE e + (j - m - 1)
  BY <1>1
<1>3. fixed = non_incr_addr /\ e = NextEp(pos, o, fixed)
  BY <1>1 DEF RunTiling, DescTiling
<1>4. hw_non_incr = (non_incr_addr /\ ~PollMode)
  BY DEF TablesInv, ModeInv
<1>5. /\ req.pos \in Nat /\ done \in Nat /\ pos = req.pos + done /\ req.count \in Nat
      /\ done % TransferMax = 0 /\ done < req.count
  BY RunFacts, TransferFacts DEF TablesInv, ShapeInv
<1>6. Head(fetched) \in Nat
  <2>1. fetched \in Seq(Nat) /\ fetched # <<>>
    BY DEF FetchInv, FetchOK, HwMove
  <2>2. QED BY <2>1
<1>7. o \in Nat /\ m = done + o /\ i - 1 = Head(fetched)
  <2>1. i - 1 = Head(fetched) /\ i - 1 \in 0 .. Len(desc)
    <3> DEFINE h == Head(fetched)
    <3>1. h \in Nat /\ i = h + 1 /\ i \in 1 .. Len(desc)
      BY <1>1, <1>6
    <3> HIDE DEF h, i
    <3>2. i - 1 = h /\ i - 1 \in 0 .. Len(desc)
      BY <3>1
    <3>3. QED BY <3>2 DEF h
  <2>2. off[i - 1] \in Nat
    BY <2>1
  <2>3. QED BY <2>1, <2>2
<1>8. j \in Int
  OBVIOUS
<1> HIDE DEF i, m, o, e
<1>9. ASSUME ~non_incr_addr PROVE moved'[j][2] = req.pos + j - 1
  <2>1. moved'[j][2] = e + (j - m - 1)
    BY <1>2, <1>4, <1>9
  <2>2. e = pos + o
    BY <1>3, <1>9 DEF NextEp
  <2> DEFINE q == req.pos
  <2>3. q \in Nat /\ pos = q + done
    BY <1>5
  <2> HIDE DEF q
  <2>4. e + (j - m - 1) = q + j - 1
    BY <1>5, <1>7, <1>8, <2>2, <2>3
  <2>5. QED BY <2>1, <2>4 DEF q
<1>10. ASSUME non_incr_addr, req.count <= TransferMax, ~PollMode PROVE moved'[j][2] = req.pos
  <2>1. moved'[j][2] = e
    BY <1>2, <1>4, <1>10
  <2>2. e = pos
    BY <1>3, <1>10 DEF NextEp
  <2>3. done = 0
    <3> DEFINE c == req.count
    <3>1. TransferMax \in Nat \ {0} /\ c \in Nat /\ done < c /\ c <= TransferMax
      BY <1>5, <1>10, SizesAssumption
    <3> HIDE DEF c
    <3>2. done \in Nat /\ done < TransferMax /\ done % TransferMax = 0
      BY <1>5, <3>1
    <3>3. QED BY <3>1, <3>2, ModZero
  <2>4. QED BY <1>5, <2>1, <2>2, <2>3
<1>11. QED BY <1>9, <1>10

LEMMA DevStep == TablesInv /\ FetchInv /\ LenInv /\ DevInv /\ [Next]_vars => DevInv'
<1> SUFFICES ASSUME TablesInv, FetchInv, LenInv, DevInv, [Next]_vars PROVE DevInv'
  OBVIOUS
<1> USE DEF config_vars, mode_vars, table_vars
<1>1. moved \in Seq(Pairs)
  BY DEF LenInv
<1>2. ASSUME moved' = <<>> PROVE DevInv'
  BY <1>2 DEF DevInv
<1>3. CASE Quiet /\ ~AddrModeSet
  <2>1. pc' \in Sent => UNCHANGED <<switched, non_incr_addr>>
    BY <1>3, Zenon DEF Quiet, CreateFails, PinPages, PinFails, Build, AllocFails, Completed, Failed,
       Interrupted, Finish, ReturnDone, OpenRing, CloseRing, Halted, vars, Request, Return,
       Sent, Transferring
  <2>2. CASE moved' = moved /\ req' = req /\ ((pc' \in Sent => pc \in Sent) \/ pc' = pc)
    BY <2>1, <2>2 DEF DevInv
  <2>3. CASE moved' = <<>>
    BY <1>2, <2>3
  <2>4. CASE moved' = moved /\ pc = "idle"
    BY <1>2, <2>4 DEF LenInv
  <2>5. QED BY <1>3, <2>2, <2>3, <2>4, QuietStep
<1>4. CASE AddrModeSet
  <2>1. pc' = pc /\ moved' = moved /\ switched' = (switched \/ pc # "idle")
    BY <1>4 DEF AddrModeSet
  <2>2. CASE pc = "idle"
    BY <1>2, <2>1, <2>2 DEF LenInv
  <2>3. CASE pc # "idle"
    BY <2>1, <2>3 DEF DevInv
  <2>4. QED BY <2>2, <2>3
<1>5. CASE HwMove
  <2>1. UNCHANGED <<pc, req, switched, non_incr_addr>> /\ fetched # <<>>
    BY <1>5 DEF HwMove
  <2>2. CASE pc \notin {"run", "orphan"}
    <3>1. pc = "ring"
      BY <2>1, <2>2 DEF TablesInv, TableInv
    <3>2. pc' \notin Sent
      BY <2>1, <3>1 DEF Sent, Transferring
    <3>3. QED BY <3>2 DEF DevInv
  <2>3. CASE pc \in {"run", "orphan"} /\ ~switched
    <3>1. PICK fixed \in BOOLEAN : \E off \in [0 .. Len(desc) -> Nat] :
            RunTiling(off, fixed) /\ Len(moved) = done + off[Head(fetched)]
      BY <2>1, <2>3 DEF LenInv
    <3>2. PICK off \in [0 .. Len(desc) -> Nat] :
            RunTiling(off, fixed) /\ Len(moved) = done + off[Head(fetched)]
      BY <3>1
    <3> DEFINE m == Len(moved)
    <3>3. (\A j \in 1 .. m : moved'[j] = moved[j]) /\ moved' \in Seq(Pairs)
      BY <1>1, <1>5, <2>3, <3>1, <3>2, MoveOne
    <3>4. ASSUME NEW j \in m + 1 .. Len(moved')
          PROVE  /\ ~non_incr_addr => moved'[j][2] = req.pos + j - 1
                 /\ non_incr_addr /\ req.count <= TransferMax /\ ~PollMode =>
                      moved'[j][2] = req.pos
      BY <1>1, <1>5, <2>3, <3>1, <3>2, <3>4, DevMove
    <3>5. /\ ~non_incr_addr => \A k \in 1 .. m : moved[k][2] = req.pos + k - 1
          /\ non_incr_addr /\ req.count <= TransferMax /\ ~PollMode =>
               \A k \in 1 .. m : moved[k][2] = req.pos
      BY <2>3 DEF DevInv, Sent, Transferring
    <3>6. m \in Nat /\ Len(moved') \in Nat
      BY <1>1, <3>3
    <3> HIDE DEF m
    <3>7. \A j \in 1 .. Len(moved') : j \in 1 .. m \/ j \in m + 1 .. Len(moved')
      BY <3>6
    <3>8. /\ ~non_incr_addr => \A k \in 1 .. Len(moved') : moved'[k][2] = req.pos + k - 1
          /\ non_incr_addr /\ req.count <= TransferMax /\ ~PollMode =>
               \A k \in 1 .. Len(moved') : moved'[k][2] = req.pos
      BY <3>3, <3>4, <3>5, <3>7, Zenon
    <3>9. QED BY <2>1, <3>8 DEF DevInv
  <2>4. CASE switched
    BY <2>1, <2>4 DEF DevInv
  <2>5. QED BY <2>2, <2>3, <2>4
<1>6. QED BY <1>3, <1>4, <1>5, Zenon DEF Next, Quiet

\* The ring goes round.
LEMMA ModNext ==
  ASSUME NEW p \in Nat \ {0}, NEW a \in Nat
  PROVE  (a + 1) % p = IF a % p = p - 1 THEN 0 ELSE (a % p) + 1
<1> DEFINE q == a \div p
           r == a % p
<1>1. q \in Nat /\ r \in 0 .. p - 1 /\ a = p * q + r
  BY DivMod
<1> HIDE DEF q, r
<1>2. p * q \in Nat
  BY <1>1
<1>3. CASE r = p - 1
  <2>1. p * (q + 1) = p * q + p
    BY <1>1
  <2>2. a + 1 = p * (q + 1) + 0 /\ 0 \in 0 .. p - 1 /\ q + 1 \in Nat
    BY <1>1, <1>2, <1>3, <2>1
  <2>3. (p * (q + 1) + 0) % p = 0
    BY <2>2, DivUnique
  <2>4. QED BY <1>3, <2>2, <2>3 DEF r
<1>4. CASE r # p - 1
  <2>1. a + 1 = p * q + (r + 1) /\ r + 1 \in 0 .. p - 1
    BY <1>1, <1>2, <1>4
  <2>2. (p * q + (r + 1)) % p = r + 1
    BY <1>1, <2>1, DivUnique
  <2>3. QED BY <1>4, <2>1, <2>2 DEF r
<1>5. QED BY <1>3, <1>4

LEMMA RingStep == TablesInv /\ FetchInv /\ LenInv /\ RingInv /\ [Next]_vars /\ TablesInv' => RingInv'
<1> SUFFICES ASSUME TablesInv, FetchInv, LenInv, RingInv, [Next]_vars, TablesInv' PROVE RingInv'
  OBVIOUS
<1> USE DEF config_vars, mode_vars, table_vars
<1>1. UNCHANGED gaps /\ moved \in Seq(Pairs)
  BY GapsFixed DEF LenInv
<1>2. ASSUME NEW v PROVE PhysPage(v)' = PhysPage(v)
  BY <1>1 DEF PhysPage
<1>3. RingPages \in Nat \ {0}
  BY SizesAssumption
<1>4. CASE OpenRing
  <2>1. /\ pc = "idle" /\ pc' = "ring" /\ moved' = moved
        /\ fetched' = [i \in 1 .. FirstAdj(Len(desc')) + 1 |-> i - 1]
    BY <1>4 DEF OpenRing
  <2>2. moved' = <<>>
    BY <2>1 DEF LenInv
  <2>3. TablesInv' => TableLength'
    BY TableLengthHolds, PTL
  <2>4. fetched' # <<>> /\ Head(fetched') = 0
    <3>1. Len(desc') \in Nat \ {0}
      BY <2>1, <2>3 DEF TableLength
    <3>2. QED BY <2>1, <3>1, FirstFetch
  <2>5. Len(moved') = 0 /\ 0 % RingPages = 0
    BY <1>3, <2>2
  <2>6. QED BY <2>4, <2>5 DEF RingInv
<1>5. CASE HwMove
  <2>1. UNCHANGED <<pc, desc>> /\ fetched # <<>> /\ fetched' = NextFetch(fetched, desc)
    BY <1>5 DEF HwMove, NextFetch
  <2>2. SUFFICES ASSUME pc = "ring" PROVE RingInv'
    BY <2>1 DEF RingInv
  <2> DEFINE m == Len(moved)
             h == Head(fetched)
             R == RingPages
             d == desc[h + 1]
  <2>3. /\ desc = RingTable /\ Linked(desc, 0) /\ Len(desc) = R /\ PhysOK
    BY <2>2, RingRunFacts
  <2>4. h = m % R /\ m \in Nat
        /\ \A k \in 1 .. m : moved[k] = <<PhysPage((k - 1) % R) * PageSize, (k - 1) % R>>
    BY <1>1, <2>2 DEF RingInv
  <2>5. /\ h \in 0 .. R - 1 /\ fetched' # <<>>
        /\ Head(fetched') = IF h = R - 1 THEN 0 ELSE h + 1
    <3>1. 0 \in {Stop, 0} /\ 0 # Stop
      BY DEF Stop
    <3>2. FetchOK(fetched, Len(desc))
      BY DEF FetchInv
    <3>3. LET g == NextFetch(fetched, desc) IN
          /\ h \in 0 .. Len(desc) - 1
          /\ IF h = Len(desc) - 1
               THEN IF 0 = Stop THEN g = <<>> ELSE g # <<>> /\ Head(g) = 0
               ELSE g # <<>> /\ Head(g) = h + 1
      BY <2>1, <2>3, <3>1, <3>2, FetchNext, Zenon
    <3> HIDE DEF h, R
    <3>4. QED BY <2>1, <2>3, <3>1, <3>3
  <2>6. d.host = PhysPage(h) * PageSize /\ d.ep = h
    <3>1. h + 1 \in 1 .. R /\ (h + 1) - 1 = h
      BY <1>3, <2>5
    <3> HIDE DEF h
    <3>2. RingTable[h + 1].host = PhysPage((h + 1) - 1) * PageSize /\ RingTable[h + 1].ep = (h + 1) - 1
      BY <2>3, <3>1, RingFacts
    <3>3. QED BY <2>3, <3>1, <3>2
  <2>7. moved' = Append(moved, <<d.host, d.ep>>)
    BY <1>5, <2>2 DEF HwMove
  <2> HIDE DEF h, d
  <2>8. /\ Len(moved') = m + 1
        /\ \A k \in 1 .. m : moved'[k] = moved[k]
        /\ moved'[m + 1] = <<d.host, d.ep>>
    BY <1>1, <2>7
  <2> HIDE DEF m, R
  <2>9. Head(fetched') = (m + 1) % R
    <3>1. (m + 1) % R = IF m % R = R - 1 THEN 0 ELSE (m % R) + 1
      BY <1>3, <2>4, ModNext DEF R
    <3>2. QED BY <2>4, <2>5, <3>1
  <2>10. ASSUME NEW k \in 1 .. m + 1
         PROVE  moved'[k] = <<PhysPage((k - 1) % R) * PageSize, (k - 1) % R>>
    <3>1. CASE k = m + 1
      <4>1. k - 1 = m
        BY <2>4, <3>1
      <4>2. (k - 1) % R = h
        BY <2>4, <4>1
      <4>3. QED BY <2>6, <2>8, <3>1, <4>2
    <3>2. CASE k # m + 1
      <4>1. k \in 1 .. m
        BY <2>4, <2>10, <3>2
      <4>2. QED BY <2>4, <2>8, <4>1
    <3>3. QED BY <3>1, <3>2
  <2>11. QED BY <1>2, <2>5, <2>8, <2>9, <2>10 DEF RingInv, R
<1>6. CASE AddrModeSet \/ Halted \/ UNCHANGED vars
  <2>1. UNCHANGED <<pc, moved, fetched>>
    BY <1>6 DEF AddrModeSet, Halted, vars
  <2>2. QED BY <1>2, <2>1 DEF RingInv
<1>7. CASE \/ CreateFails \/ PinPages \/ PinFails \/ Build \/ AllocFails \/ Completed \/ Failed
           \/ Interrupted \/ Finish \/ ReturnDone \/ CloseRing
           \/ \E r \in Requests : Request(r)
  <2>1. pc' # "ring"
    BY <1>7 DEF CreateFails, PinPages, PinFails, Build, AllocFails, Completed, Failed, Interrupted,
       Finish, ReturnDone, CloseRing, Request, Return
  <2>2. QED BY <2>1 DEF RingInv
<1>8. QED BY <1>4, <1>5, <1>6, <1>7, Zenon DEF Next

\* Every request that succeeds has moved each of its bytes once, in order,
\* between its own physical and device addresses, whatever the buffer, the
\* page table, and the limits of a transfer, a descriptor and a fetch are;
\* and the ring of a cyclic receive goes through its pages and its result
\* slots in step for ever.
THEOREM EverythingDelivered == Spec => []Delivered
<1>1. TablesInv /\ LenInv /\ HostInv /\ DevInv => RequestDelivered
  <2> SUFFICES ASSUME TablesInv, LenInv, HostInv, DevInv, pc = "done", ~switched
               PROVE  /\ Len(moved) = req.count
                      /\ \A k \in 1 .. req.count : moved[k][1] = PhysAddr(req.start + k - 1)
                      /\ ~streaming /\ ~non_incr_addr =>
                           \A k \in 1 .. req.count : moved[k][2] = req.pos + k - 1
                      /\ ~streaming /\ non_incr_addr /\ req.count <= TransferMax /\ ~PollMode =>
                           \A k \in 1 .. req.count : moved[k][2] = req.pos
    BY DEF RequestDelivered
  <2>1. Len(moved) = req.count
    BY DEF LenInv, TablesInv, ShapeInv
  <2>2. pc \in Sent
    BY DEF Sent
  <2>3. QED BY <2>1, <2>2, Zenon DEF HostInv, DevInv
<1>2. RingInv => RingInOrder
  BY DEF RingInv, RingInOrder
<1>3. Init => LenInv /\ HostInv /\ DevInv /\ RingInv
  <2> SUFFICES ASSUME Init PROVE LenInv /\ HostInv /\ DevInv /\ RingInv
    OBVIOUS
  <2>1. moved = <<>> /\ pc = "idle"
    BY DEF Init
  <2>2. QED BY <2>1 DEF LenInv, HostInv, DevInv, RingInv
<1>4. QED BY <1>1, <1>2, <1>3, LenStep, HostStep, DevStep, RingStep, FetchHolds, PTL
          DEF Spec, Delivered
=============================================================================
