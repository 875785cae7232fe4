---------------------------- MODULE LayoutProofs ----------------------------
(***************************************************************************)
(* Sizes that divide give a layout in which no index leaves its array and   *)
(* no two workers share a root.                                             *)
(***************************************************************************)
EXTENDS Layout, TLAPS

\* A quotient is determined by its division.
LEMMA QuotientIs ==
  ASSUME NEW d \in Nat \ {0}, NEW q \in Nat, NEW r \in Nat, r < d, NEW n \in Nat, n = d * q + r
  PROVE  n \div d = q
<1> DEFINE p == n \div d
<1> DEFINE s == n % d
<1>1. p \in Int /\ s \in 0 .. (d - 1) /\ n = d * p + s
  OBVIOUS
<1> HIDE DEF p, s
<1>2. d * p + s = d * q + r
  BY <1>1
<1>3. ~(p < q)
  <2> SUFFICES ASSUME p + 1 <= q PROVE FALSE
    BY <1>1
  <2>1. d * (p + 1) <= d * q
    BY <1>1
  <2>2. d * (p + 1) = d * p + d
    BY <1>1
  <2> QED BY <1>1, <1>2, <2>1, <2>2
<1>4. ~(q < p)
  <2> SUFFICES ASSUME q + 1 <= p PROVE FALSE
    BY <1>1
  <2>1. d * (q + 1) <= d * p
    BY <1>1
  <2>2. d * (q + 1) = d * q + d
    OBVIOUS
  <2> QED BY <1>1, <1>2, <2>1, <2>2
<1> QED BY <1>1, <1>3, <1>4 DEF p

\* The quotient of a number below a product.
LEMMA QuotientBelow ==
  ASSUME NEW d \in Nat \ {0}, NEW m \in Nat, NEW n \in Nat, n < d * m
  PROVE  (n \div d) \in 0 .. (m - 1)
<1> DEFINE p == n \div d
<1> DEFINE s == n % d
<1>1. p \in Int /\ s \in 0 .. (d - 1) /\ n = d * p + s
  OBVIOUS
<1> HIDE DEF p, s
<1>2. ~(m <= p)
  <2> SUFFICES ASSUME m <= p PROVE FALSE
    OBVIOUS
  <2>1. d * m <= d * p
    BY <1>1
  <2> QED BY <1>1, <2>1
<1>3. ~(p < 0)
  <2> SUFFICES ASSUME p <= -1 PROVE FALSE
    BY <1>1
  <2>1. d * p <= d * (-1)
    BY <1>1
  <2> QED BY <1>1, <2>1
<1> QED BY <1>1, <1>2, <1>3 DEF p

\* Dividing twice.
LEMMA QuotientOfQuotient ==
  ASSUME NEW a \in Nat \ {0}, NEW c \in Nat \ {0}, NEW n \in Nat
  PROVE  n \div (a * c) = (n \div a) \div c
<1> DEFINE p == n \div a
<1> DEFINE s == n % a
<1> DEFINE u == p \div c
<1> DEFINE v == p % c
<1>1. p \in Int /\ s \in 0 .. (a - 1) /\ n = a * p + s
  OBVIOUS
<1>2. p \in Nat
  <2> SUFFICES ASSUME p <= -1 PROVE FALSE
    BY <1>1
  <2> HIDE DEF p, s
  <2>1. a * p <= a * (-1)
    BY <1>1
  <2> QED BY <1>1, <2>1
<1> HIDE DEF p, s
<1>3. u \in Int /\ v \in 0 .. (c - 1) /\ p = c * u + v
  BY <1>2
<1>4. u \in Nat
  <2> SUFFICES ASSUME u <= -1 PROVE FALSE
    BY <1>3
  <2> HIDE DEF u, v
  <2>1. c * u <= c * (-1)
    BY <1>3
  <2> QED BY <1>2, <1>3, <2>1
<1> HIDE DEF u, v
<1>5. a * c \in Nat \ {0} /\ a * v + s \in Nat
  BY <1>1, <1>3
<1>6. a * v + s < a * c
  <2>1. a * (v + 1) <= a * c
    BY <1>3
  <2>2. a * (v + 1) = a * v + a
    BY <1>3
  <2> QED BY <1>1, <1>3, <1>5, <2>1, <2>2
<1>7. n = (a * c) * u + (a * v + s)
  <2>1. a * (c * u + v) = (a * c) * u + a * v
    BY <1>3, <1>4
  <2> QED BY <1>1, <1>3, <1>5, <2>1
<1>8. n \div (a * c) = u
  <2> DEFINE d == a * c
  <2> DEFINE r == a * v + s
  <2>1. d \in Nat \ {0} /\ r \in Nat /\ r < d /\ n = d * u + r
    BY <1>5, <1>6, <1>7
  <2> HIDE DEF d, r
  <2>2. n \div d = u
    BY <1>4, <2>1, QuotientIs
  <2> QED BY <2>2 DEF d
<1> QED BY <1>8 DEF u, p

\* A division without remainder.
LEMMA QuotientExact ==
  ASSUME NEW d \in Nat \ {0}, NEW n \in Nat \ {0}, n % d = 0
  PROVE  \E q \in Nat \ {0} : n = d * q
<1> DEFINE p == n \div d
<1>1. p \in Int /\ n = d * p
  OBVIOUS
<1> HIDE DEF p
<1>2. p > 0
  <2> SUFFICES ASSUME p <= 0 PROVE FALSE
    BY <1>1
  <2>1. d * p <= d * 0
    BY <1>1
  <2> QED BY <1>1, <2>1
<1> QED BY <1>1, <1>2

\* When the threads divide the roots and the roots the buckets, enclave_message_pass
\* finds a queue for every bucket, the workers a root with all its buckets, and the
\* buckets of one root all go to one worker: the condition under which the store
\* needs no lock.
THEOREM DividingSizesFit == SizesDivide => LayoutOK
<1> SUFFICES ASSUME SizesDivide PROVE LayoutOK
  OBVIOUS
<1> DEFINE t == NumThreads
<1>1. PICK c \in Nat \ {0} : TreeRootSize = t * c
  BY QuotientExact DEF SizesDivide
<1>2. PICK a \in Nat \ {0} : BucketSize = TreeRootSize * a
  BY QuotientExact, Zenon DEF SizesDivide
<1>3. t \in Nat \ {0}
  BY DEF SizesDivide
<1> HIDE DEF t
<1>4. TreeRootSize \in Nat \ {0} /\ a * c \in Nat \ {0}
  BY <1>1, <1>3
<1>5. BucketSize = a * TreeRootSize /\ BucketSize = (a * c) * t /\ BucketSize \in Nat \ {0}
  <2>1. (t * c) * a = (a * c) * t
    BY <1>3
  <2> QED BY <1>1, <1>2, <1>4, <2>1
<1>6. ratio_root_per_buckets = a
  <2>1. BucketSize = TreeRootSize * a + 0
    BY <1>2, <1>4
  <2>2. BucketSize \div TreeRootSize = a
    BY <1>4, <1>5, <2>1, QuotientIs
  <2> QED BY <2>2 DEF ratio_root_per_buckets
<1>7. BucketSize \div NumThreads = a * c
  <2>1. BucketSize = t * (a * c) + 0
    BY <1>3, <1>4, <1>5
  <2>2. BucketSize \div t = a * c
    BY <1>3, <1>4, <1>5, <2>1, QuotientIs
  <2> QED BY <2>2 DEF t
<1>8. ASSUME NEW h \in Buckets
      PROVE  /\ thread_id(h) \in Workers /\ root_index(h) \in Roots
             /\ start_index(h) + ratio_root_per_buckets <= BucketSize
             /\ thread_id(h) = root_index(h) \div c
  <2>1. h \in Nat /\ h < BucketSize
    BY <1>5 DEF Buckets
  <2>2. thread_id(h) = h \div (a * c) /\ root_index(h) = h \div a
    BY <1>6, <1>7 DEF thread_id, root_index
  <2>3. thread_id(h) \in Workers
    <3>1. h \div (a * c) \in 0 .. (t - 1)
      BY <1>3, <1>4, <1>5, <2>1, QuotientBelow, Zenon
    <3> QED BY <2>2, <3>1 DEF Workers, t
  <2>4. root_index(h) \in Roots
    <3>1. h \div a \in 0 .. (TreeRootSize - 1)
      BY <1>4, <1>5, <2>1, QuotientBelow, Zenon
    <3> QED BY <2>2, <3>1 DEF Roots
  <2>5. start_index(h) + ratio_root_per_buckets <= BucketSize
    <3> DEFINE g == root_index(h)
    <3>1. g \in Nat /\ g + 1 <= TreeRootSize /\ start_index(h) = g * a
      BY <1>4, <1>6, <2>4 DEF Roots, start_index
    <3> HIDE DEF g
    <3>2. a * (g + 1) <= a * TreeRootSize
      BY <1>4, <3>1
    <3>3. a * (g + 1) = g * a + a
      BY <3>1
    <3> QED BY <1>4, <1>5, <1>6, <3>1, <3>2, <3>3
  <2>6. thread_id(h) = root_index(h) \div c
    BY <2>1, <2>2, QuotientOfQuotient
  <2> QED BY <2>3, <2>4, <2>5, <2>6
<1>9. \A g, h \in Buckets : root_index(g) = root_index(h) => thread_id(g) = thread_id(h)
  BY <1>8
<1>10. NumThreads \in Nat \ {0} /\ ratio_root_per_buckets \in Nat \ {0} /\ (BucketSize \div NumThreads) \in Nat \ {0}
  BY <1>3, <1>4, <1>6, <1>7 DEF t
<1> QED BY <1>4, <1>5, <1>8, <1>9, <1>10 DEF LayoutOK

=============================================================================
