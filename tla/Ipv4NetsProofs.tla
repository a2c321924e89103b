--------------------------- MODULE Ipv4NetsProofs ---------------------------
(***************************************************************************)
(* What the proofs about the daemons need of networks, for every width of  *)
(* addresses: two networks are disjoint or the longer prefix is inside.    *)
(* That is arithmetic on powers of two. It is proved by counting subsets,  *)
(* of which a set of k elements has 2^k, since no induction is available.  *)
(***************************************************************************)
EXTENDS Ipv4Nets, FiniteSetTheorems, TLAPS

\* 2^k is the number of subsets of 1 .. k.
LEMMA Subsets ==
  ASSUME NEW k \in Nat
  PROVE  IsFiniteSet(SUBSET (1 .. k)) /\ Cardinality(SUBSET (1 .. k)) = 2^k
<1>1. IsFiniteSet(1 .. k) /\ Cardinality(1 .. k) = k
  BY FS_Interval
<1> QED
  BY <1>1, FS_SUBSET

LEMMA PowerPositive ==
  ASSUME NEW k \in Nat
  PROVE  2^k \in Nat /\ 2^k >= 1
<1>1. 2^k \in Nat
  BY Subsets, FS_CardinalityType
<1>2. SUBSET (1 .. k) # {}
  OBVIOUS
<1>3. 2^k # 0
  BY <1>2, Subsets, FS_EmptySet
<1> QED
  BY <1>1, <1>3

LEMMA PowerGrows ==
  ASSUME NEW j \in Nat, NEW k \in Nat, j < k
  PROVE  2^j < 2^k
<1>1. SUBSET (1 .. j) \subseteq SUBSET (1 .. k)
  OBVIOUS
<1>2. {k} \in SUBSET (1 .. k) /\ {k} \notin SUBSET (1 .. j)
  OBVIOUS
<1> DEFINE A == SUBSET (1 .. j)
           C == SUBSET (1 .. k)
<1>3. A \in SUBSET C /\ A # C
  BY <1>1, <1>2
<1>4. IsFiniteSet(C) /\ Cardinality(A) = 2^j /\ Cardinality(C) = 2^k
  BY Subsets
<1> HIDE DEF A, C
<1>5. 2^j <= 2^k /\ 2^j # 2^k
  BY <1>3, <1>4, FS_Subset
<1> QED
  BY <1>5, PowerPositive

(***************************************************************************)
(* A subset of 1 .. j+k is one of 1 .. j and one of the k numbers above.   *)
(***************************************************************************)
LEMMA PowerOfSum ==
  ASSUME NEW j \in Nat, NEW k \in Nat
  PROVE  2^(j + k) = 2^j * 2^k
<1> DEFINE A == SUBSET (1 .. j)
           B == SUBSET (1 .. k)
           C == SUBSET (1 .. j + k)
           f == [p \in A \X B |-> p[1] \cup {i + j : i \in p[2]}]
<1>1. IsFiniteSet(A \X B) /\ Cardinality(A \X B) = 2^j * 2^k
  <2>1. /\ IsFiniteSet(A) /\ Cardinality(A) = 2^j
        /\ IsFiniteSet(B) /\ Cardinality(B) = 2^k
    BY Subsets
  <2> HIDE DEF A, B
  <2> QED
    BY <2>1, FS_Product
<1>2. f \in [A \X B -> C]
  OBVIOUS
<1>3. ASSUME NEW p \in A \X B, NEW q \in A \X B, f[p] = f[q]
      PROVE  p = q
  <2>1. p[1] = f[p] \cap (1 .. j) /\ q[1] = f[q] \cap (1 .. j)
    OBVIOUS
  <2>2. /\ p[2] = {i \in 1 .. k : i + j \in f[p]}
        /\ q[2] = {i \in 1 .. k : i + j \in f[q]}
    OBVIOUS
  <2> QED
    <3>1. p[1] = q[1] /\ p[2] = q[2]
      BY <1>3, <2>1, <2>2
    <3> QED
      BY <3>1
<1>4. ASSUME NEW S \in C PROVE \E p \in A \X B : f[p] = S
  <2> DEFINE p == <<S \cap (1 .. j), {i \in 1 .. k : i + j \in S}>>
  <2>1. p \in A \X B
    OBVIOUS
  <2>2. f[p] = (S \cap (1 .. j)) \cup {i + j : i \in {x \in 1 .. k : x + j \in S}}
    BY <2>1
  <2>3. S \subseteq f[p]
    <3> SUFFICES ASSUME NEW x \in S, x \notin 1 .. j PROVE x \in f[p]
      BY <2>2
    <3>1. x - j \in 1 .. k /\ (x - j) + j = x
      OBVIOUS
    <3> HIDE DEF p
    <3> QED
      BY <2>2, <3>1
  <2>4. f[p] \subseteq S
    BY <2>2
  <2> HIDE DEF p
  <2> QED
    BY <2>1, <2>3, <2>4
<1>5. f \in Bijection(A \X B, C)
  <2> HIDE DEF A, B, C, f
  <2>1. f \in Injection(A \X B, C)
    BY <1>2, <1>3 DEF Injection, IsInjective
  <2>2. f \in Surjection(A \X B, C)
    BY <1>2, <1>4 DEF Surjection
  <2> QED
    BY <2>1, <2>2 DEF Bijection
<1>6. Cardinality(C) = Cardinality(A \X B)
  BY <1>1, <1>5, FS_Bijection DEF ExistsBijection
<1>7. j + k \in Nat
  OBVIOUS
<1> QED
  BY <1>1, <1>6, <1>7, Subsets
-----------------------------------------------------------------------------
\* Products of the numbers that networks are made of.
LEMMA Multiples ==
  ASSUME NEW a \in Int, NEW b \in Int, NEW s \in Nat, s >= 1
  PROVE  /\ a * s \in Int
         /\ a <= b => a * s <= b * s
         /\ a * s < b * s => a < b
         /\ (a + 1) * s = a * s + s
  OBVIOUS

LEMMA Division ==
  ASSUME NEW a \in Int, NEW s \in Nat, s >= 1
  PROVE  /\ (a \div s) \in Int
         /\ (a \div s) * s <= a
         /\ a < (a \div s) * s + s
  OBVIOUS

\* A network has a whole number of addresses, and its written one is in it.
LEMMA Inside ==
  ASSUME NEW n \in Net, Width \in Nat
  PROVE  /\ Size(n) \in Nat /\ Size(n) >= 1
         /\ First(n) \in Int /\ Last(n) \in Int
         /\ Contains(n, n.addr)
         /\ n.addr \in Span(n) /\ n.addr \in Int
<1>1. Size(n) \in Nat /\ Size(n) >= 1
  BY PowerPositive DEF Size, Net
<1>2. n.addr \in Int
  BY PowerPositive DEF Net, Address
<1> DEFINE a == n.addr
           s == Size(n)
           q == a \div s
<1> HIDE DEF a, s
<1>3. q \in Int /\ q * s <= a /\ a < q * s + s
  BY <1>1, <1>2, Division DEF a, s
<1> QED
  BY <1>1, <1>2, <1>3, Multiples DEF First, Last, Contains, Span, a, s

LEMMA AddressIn ==
  ASSUME NEW n \in Net, NEW m \in Net, Width \in Nat
  PROVE  Contains(n, m.addr) <=> m.addr \in Span(n)
<1>1. First(n) \in Int /\ Last(n) \in Int /\ m.addr \in Int
  BY Inside
<1> QED
  BY <1>1 DEF Contains, Span

(***************************************************************************)
(* Two networks are disjoint, or the one with the longer prefix is inside. *)
(***************************************************************************)
THEOREM NestedOrApart ==
  ASSUME NEW m \in Net, NEW n \in Net, Width \in Nat, m.len <= n.len
  PROVE  Span(m) \cap Span(n) = {} \/ Span(n) \subseteq Span(m)
<1> DEFINE s == Size(n)
           k == 2^(n.len - m.len)
           q == n.addr \div s
           r == m.addr \div Size(m)
<1>1. s \in Nat /\ s >= 1 /\ k \in Nat /\ k >= 1
  <2>1. n.len - m.len \in Nat
    BY DEF Net
  <2> QED
    BY <2>1, PowerPositive, Inside
<1>2. Size(m) = k * s
  <2>1. /\ n.len - m.len \in Nat /\ Width - n.len \in Nat
        /\ (n.len - m.len) + (Width - n.len) = Width - m.len
    BY DEF Net
  <2> QED
    BY <2>1, PowerOfSum DEF Size
<1>3. q \in Int /\ r \in Int
  <2>1. n.addr \in Int /\ m.addr \in Int /\ Size(m) \in Nat /\ Size(m) >= 1
    BY Inside
  <2> HIDE DEF s
  <2> QED
    BY <1>1, <2>1
<1> HIDE DEF s, k, q, r
<1>4. /\ First(n) = q * s /\ Last(n) = q * s + s - 1
      /\ First(m) = r * (k * s) /\ Last(m) = r * (k * s) + k * s - 1
  BY <1>2 DEF First, Last, q, r, s
<1>5. /\ r * (k * s) = (r * k) * s
      /\ r * (k * s) + k * s = (r * k + k) * s
      /\ q * s + s = (q + 1) * s
      /\ r * k \in Int
  BY <1>1, <1>3
<1>6. SUFFICES ASSUME NEW x \in Span(m) \cap Span(n)
               PROVE  Span(n) \subseteq Span(m)
  OBVIOUS
<1> DEFINE b == r * k
<1>7. /\ b \in Int /\ b + k \in Int
      /\ First(m) = b * s /\ Last(m) = (b + k) * s - 1
      /\ Last(n) = (q + 1) * s - 1
  <2>1. b \in Int /\ b + k \in Int
    BY <1>1, <1>5
  <2>2. r * (k * s) = b * s /\ r * (k * s) + k * s = (b + k) * s
    BY <1>5
  <2> HIDE DEF b
  <2> DEFINE u == r * (k * s)
             v == k * s
             w == q * s
  <2>3. u \in Int /\ v \in Int /\ w \in Int /\ s \in Int
    BY <1>1, <1>3
  <2>4. /\ u = b * s /\ u + v = (b + k) * s /\ w + s = (q + 1) * s
        /\ First(m) = u /\ Last(m) = u + v - 1 /\ Last(n) = w + s - 1
    BY <1>4, <1>5, <2>2
  <2> HIDE DEF b, u, v, w
  <2> QED
    BY <2>1, <2>3, <2>4
<1> HIDE DEF b
<1>8. x \in Int /\ b * s <= x /\ x < (b + k) * s /\ q * s <= x /\ x < (q + 1) * s
  BY <1>1, <1>3, <1>4, <1>6, <1>7, Multiples DEF Span
<1>9. q < b + k /\ b < q + 1
  BY <1>1, <1>3, <1>7, <1>8, Multiples
<1>10. b * s <= q * s /\ (q + 1) * s <= (b + k) * s
  BY <1>1, <1>3, <1>7, <1>9, Multiples
<1> QED
  BY <1>1, <1>3, <1>4, <1>7, <1>10, Multiples DEF Span
=============================================================================
