------------------------- MODULE EnclaveStoreProofs -------------------------
(***************************************************************************)
(* Proofs about EnclaveStore, for every number of buckets, roots, workers,  *)
(* keys and values: the type invariant, and that the integrity checks never *)
(* fail by the server's own doing.                                          *)
(***************************************************************************)
EXTENDS StoreInvariant, WellFoundedInduction, TLAPS

-----------------------------------------------------------------------------
(***************************************************************************)
(* The MAC arrays of module MacTree: what the array of a root looks like    *)
(* around one bucket, and which buckets it depends on. It is what the index *)
(* arithmetic of enclave_rebuild_tree_root relies on.                       *)
(***************************************************************************)

\* The layout, spelled out.
LEMMA LayoutFacts ==
  /\ BucketSize \in Nat \ {0}
  /\ TreeRootSize \in Nat \ {0}
  /\ NumThreads \in Nat \ {0}
  /\ ratio_root_per_buckets \in Nat \ {0}
  /\ (BucketSize \div NumThreads) \in Nat \ {0}
  /\ \A h \in Buckets :
       /\ thread_id(h) \in Workers
       /\ root_index(h) \in Roots
       /\ start_index(h) + ratio_root_per_buckets <= BucketSize
  /\ \A g, h \in Buckets : root_index(g) = root_index(h) => thread_id(g) = thread_id(h)
BY LayoutAssumption, Zenon DEF LayoutOK

LEMMA SameSequence ==
  ASSUME NEW S, NEW q \in Seq(S), NEW r \in Seq(S), Len(q) = Len(r),
         \A i \in 1 .. Len(q) : q[i] = r[i]
  PROVE  q = r
OBVIOUS

LEMMA ConcatGroups ==
  ASSUME NEW S, NEW q \in Seq(S), NEW r \in Seq(S), NEW u \in Seq(S)
  PROVE  (q \o r) \o u = q \o (r \o u)
OBVIOUS

\* A non-empty set of naturals has a least element: the induction used below.
LEMMA NatMin ==
  ASSUME NEW T, T \subseteq Nat, T # {}
  PROVE  \E n \in T : \A m \in T : n <= m
<1> DEFINE R == {ss \in Nat \X Nat : ss[1] < ss[2]}
<1>1. IsWellFoundedOn(R, Nat)
  BY NatLessThanWellFounded DEF OpToRel
<1>2. \A m, n \in Nat : m < n => << m, n >> \in R
  OBVIOUS
<1> HIDE DEF R
<1>3. PICK n \in T : \A m \in T : ~(<< m, n >> \in R)
  BY <1>1, WFMin, Zenon
<1>4. SUFFICES ASSUME NEW m \in T PROVE n <= m
  OBVIOUS
<1>5. m \in Nat /\ n \in Nat
  OBVIOUS
<1>6. ~(m < n)
  BY <1>2, <1>3, <1>5, Zenon
<1> QED BY <1>5, <1>6

-----------------------------------------------------------------------------
\* f is the function that the recursion of mac_prefix describes, up to N.
PrefixSolution(f, macs, start, N) ==
  f = [n \in 0 .. N |-> IF n = 0 THEN << >> ELSE f[n - 1] \o macs[start + n - 1]]

\* The recursion of mac_prefix has a solution.
LEMMA PrefixExists ==
  ASSUME NEW macs, NEW start, NEW N \in Nat
  PROVE  \E f : PrefixSolution(f, macs, start, N)
<1> DEFINE T == {M \in Nat : ~ \E f : PrefixSolution(f, macs, start, M)}
<1>1. SUFFICES ASSUME T # {} PROVE FALSE
  OBVIOUS
<1>2. PICK M \in T : \A m \in T : M <= m
  BY <1>1, NatMin, Zenon
<1>3. M # 0
  <2>1. PrefixSolution([n \in 0 .. 0 |-> << >>], macs, start, 0)
    BY DEF PrefixSolution
  <2> QED BY <2>1
<1>4. PICK f : PrefixSolution(f, macs, start, M - 1)
  BY <1>2, <1>3
<1> DEFINE last == f[M - 1] \o macs[start + M - 1]
<1> DEFINE g == [n \in 0 .. M |-> IF n = M THEN last ELSE f[n]]
<1>5. \A n \in 0 .. (M - 1) : f[n] = IF n = 0 THEN << >> ELSE f[n - 1] \o macs[start + n - 1]
  BY <1>4, Zenon DEF PrefixSolution
<1>6. \A n \in 0 .. M : g[n] = IF n = 0 THEN << >> ELSE g[n - 1] \o macs[start + n - 1]
  <2> SUFFICES ASSUME NEW n \in 0 .. M
               PROVE  g[n] = IF n = 0 THEN << >> ELSE g[n - 1] \o macs[start + n - 1]
    BY Zenon
  <2>1. CASE n = M
    <3>1. g[n] = last /\ g[n - 1] = f[M - 1]
      BY <2>1, <1>3
    <3> QED BY <3>1, <2>1, <1>3, Zenon
  <2>2. CASE n # M
    <3>1. g[n] = f[n] /\ (n # 0 => g[n - 1] = f[n - 1])
      BY <2>2
    <3> HIDE DEF g
    <3> QED BY <3>1, <2>2, <1>5
  <2> QED BY <2>1, <2>2
<1>7. PrefixSolution(g, macs, start, M)
  <2>1. g = [n \in 0 .. M |-> g[n]]
    OBVIOUS
  <2> HIDE DEF g
  <2> QED BY <2>1, <1>6, Zenon DEF PrefixSolution
<1> QED BY <1>7

\* mac_prefix satisfies its recursion.
LEMMA PrefixDef ==
  ASSUME NEW macs, NEW start, NEW n \in 0 .. ratio_root_per_buckets,
         ratio_root_per_buckets \in Nat
  PROVE  mac_prefix(macs, start)[n] =
           IF n = 0 THEN << >> ELSE mac_prefix(macs, start)[n - 1] \o macs[start + n - 1]
<1> DEFINE N == ratio_root_per_buckets
<1>1. \E f : PrefixSolution(f, macs, start, N)
  BY PrefixExists
<1>2. PrefixSolution(CHOOSE f : PrefixSolution(f, macs, start, N), macs, start, N)
  BY <1>1
<1>3. mac_prefix(macs, start) = CHOOSE f : PrefixSolution(f, macs, start, N)
  BY DEF mac_prefix, PrefixSolution
<1>4. PrefixSolution(mac_prefix(macs, start), macs, start, N)
  BY <1>2, <1>3
<1> HIDE DEF N
<1> DEFINE p == mac_prefix(macs, start)
<1>5. p = [i \in 0 .. N |-> IF i = 0 THEN << >> ELSE p[i - 1] \o macs[start + i - 1]]
  BY <1>4, Zenon DEF PrefixSolution
<1> HIDE DEF p
<1>6. p[n] = IF n = 0 THEN << >> ELSE p[n - 1] \o macs[start + n - 1]
  BY <1>5 DEF N
<1> QED BY <1>6 DEF p

-----------------------------------------------------------------------------
\* The buckets from start_index(h) on: h is one of the ratio_root_per_buckets
\* many, they all exist, and they are the buckets with the root of h.
LEMMA Group ==
  ASSUME NEW h \in Buckets
  PROVE  /\ ratio_root_per_buckets \in Nat \ {0}
         /\ start_index(h) \in Nat
         /\ h - start_index(h) \in 0 .. (ratio_root_per_buckets - 1)
         /\ \A n \in 0 .. (ratio_root_per_buckets - 1) :
              /\ start_index(h) + n \in Buckets
              /\ root_index(start_index(h) + n) = root_index(h)
<1> DEFINE r == ratio_root_per_buckets
<1> DEFINE q == root_index(h)
<1>1. r \in Nat \ {0} /\ h \in Nat /\ q \in Nat /\ q = h \div r
  BY LayoutFacts DEF root_index, Buckets, Roots
<1>2. start_index(h) = q * r
  BY DEF start_index
<1> HIDE DEF r, q
<1>3. q * r \in Nat /\ q * r <= h /\ h < q * r + r
  BY <1>1
<1>4. \A n \in 0 .. (r - 1) : (q * r + n) \div r = q
  BY <1>1
<1>5. start_index(h) + r <= BucketSize
  BY LayoutFacts DEF r
<1>6. h - start_index(h) \in 0 .. (r - 1)
  BY <1>1, <1>2, <1>3
<1>7. \A n \in 0 .. (r - 1) : start_index(h) + n \in Buckets
  BY <1>1, <1>2, <1>3, <1>5, LayoutFacts DEF Buckets
<1>8. \A n \in 0 .. (r - 1) : root_index(start_index(h) + n) = q
  BY <1>2, <1>4 DEF root_index, r
<1> QED BY <1>1, <1>2, <1>3, <1>6, <1>7, <1>8 DEF r, q

-----------------------------------------------------------------------------
\* macs holds a sequence of elements of S for every bucket.
MacSeqs(macs, S) == \A b \in Buckets : macs[b] \in Seq(S)

\* The sequence of one bucket.
LEMMA MacSeqsAt ==
  ASSUME NEW S, NEW macs, MacSeqs(macs, S), NEW b \in Buckets
  PROVE  macs[b] \in Seq(S)
BY Zenon DEF MacSeqs

\* Every prefix of the array of a root is a sequence of MACs.
LEMMA PrefixType ==
  ASSUME NEW S, NEW macs, MacSeqs(macs, S),
         NEW h \in Buckets, NEW n \in 0 .. ratio_root_per_buckets
  PROVE  mac_prefix(macs, start_index(h))[n] \in Seq(S)
<1> DEFINE r == ratio_root_per_buckets
<1> DEFINE p == mac_prefix(macs, start_index(h))
<1> DEFINE T == {i \in 0 .. r : p[i] \notin Seq(S)}
<1>1. r \in Nat \ {0} /\ \A i \in 0 .. (r - 1) : macs[start_index(h) + i] \in Seq(S)
  BY Group DEF MacSeqs
<1>2. start_index(h) \in Nat
  BY Group
<1>3. \A i \in 0 .. r : p[i] = IF i = 0 THEN << >> ELSE p[i - 1] \o macs[start_index(h) + i - 1]
  BY <1>1, PrefixDef
<1> HIDE DEF p, r
<1>4. SUFFICES ASSUME T # {} PROVE FALSE
  BY DEF p, r
<1>5. PICK i \in T : \A m \in T : i <= m
  <2>1. T \subseteq Nat
    BY <1>1
  <2> QED BY <1>4, <2>1, NatMin, Zenon
<1>6. i # 0
  <2>1. p[0] = << >> /\ << >> \in Seq(S)
    BY <1>1, <1>3
  <2> QED BY <2>1, Zenon
<1>7. p[i - 1] \in Seq(S)
  BY <1>1, <1>5, <1>6
<1>8. macs[start_index(h) + i - 1] \in Seq(S)
  <2>1. i - 1 \in 0 .. (r - 1) /\ start_index(h) + i - 1 = start_index(h) + (i - 1)
    BY <1>1, <1>2, <1>6
  <2> QED BY <1>1, <2>1
<1>9. p[i - 1] \o macs[start_index(h) + i - 1] \in Seq(S)
  BY <1>7, <1>8
<1> QED BY <1>3, <1>5, <1>6, <1>9, Zenon

\* The first d MAC sequences alone determine the prefix of length d.
LEMMA PrefixLocal ==
  ASSUME NEW macs, NEW macs2, NEW start \in Nat,
         ratio_root_per_buckets \in Nat,
         NEW d \in 0 .. ratio_root_per_buckets,
         \A i \in 0 .. (d - 1) : macs[start + i] = macs2[start + i]
  PROVE  \A n \in 0 .. d : mac_prefix(macs, start)[n] = mac_prefix(macs2, start)[n]
<1> DEFINE r == ratio_root_per_buckets
<1> DEFINE p == mac_prefix(macs, start)
<1> DEFINE p2 == mac_prefix(macs2, start)
<1> DEFINE T == {i \in 0 .. d : p[i] # p2[i]}
<1>1. \A i \in 0 .. r : p[i] = IF i = 0 THEN << >> ELSE p[i - 1] \o macs[start + i - 1]
  BY PrefixDef
<1>2. \A i \in 0 .. r : p2[i] = IF i = 0 THEN << >> ELSE p2[i - 1] \o macs2[start + i - 1]
  BY PrefixDef
<1> HIDE DEF p, p2
<1>3. SUFFICES ASSUME T # {} PROVE FALSE
  BY DEF p, p2
<1>4. PICK i \in T : \A m \in T : i <= m
  <2>1. T \subseteq Nat
    OBVIOUS
  <2> QED BY <1>3, <2>1, NatMin, Zenon
<1>5. i \in 0 .. r /\ i \in 0 .. d
  OBVIOUS
<1>6. i # 0
  BY <1>1, <1>2, <1>5
<1>7. p[i - 1] = p2[i - 1]
  BY <1>4, <1>5, <1>6
<1>8. macs[start + i - 1] = macs2[start + i - 1]
  <2>1. i - 1 \in 0 .. (d - 1) /\ start + i - 1 = start + (i - 1)
    BY <1>5, <1>6
  <2> QED BY <2>1
<1>9. p[i] = p2[i]
  BY <1>1, <1>2, <1>5, <1>6, <1>7, <1>8
<1> QED BY <1>9

\* The array of a root does not depend on the buckets of other roots.
LEMMA AggregateLocal ==
  ASSUME NEW macs, NEW macs2, NEW h \in Buckets,
         \A b \in Buckets : root_index(b) = root_index(h) => macs[b] = macs2[b]
  PROVE  aggregate_mac(macs, h) = aggregate_mac(macs2, h)
<1>1. /\ ratio_root_per_buckets \in Nat \ {0}
      /\ start_index(h) \in Nat
      /\ \A i \in 0 .. (ratio_root_per_buckets - 1) :
           macs[start_index(h) + i] = macs2[start_index(h) + i]
  BY Group
<1>2. ratio_root_per_buckets \in 0 .. ratio_root_per_buckets
  BY <1>1
<1>3. \A n \in 0 .. ratio_root_per_buckets :
        mac_prefix(macs, start_index(h))[n] = mac_prefix(macs2, start_index(h))[n]
  BY <1>1, <1>2, PrefixLocal
<1> QED BY <1>2, <1>3 DEF aggregate_mac

\* Nor does the number of MACs before a bucket.
LEMMA CountLocal ==
  ASSUME NEW macs, NEW macs2, NEW h \in Buckets,
         \A b \in Buckets : root_index(b) = root_index(h) => macs[b] = macs2[b]
  PROVE  prev_mac_count(macs, h) = prev_mac_count(macs2, h)
<1> DEFINE d == h - start_index(h)
<1>1. /\ ratio_root_per_buckets \in Nat
      /\ start_index(h) \in Nat
      /\ d \in 0 .. (ratio_root_per_buckets - 1)
      /\ \A i \in 0 .. (ratio_root_per_buckets - 1) :
           macs[start_index(h) + i] = macs2[start_index(h) + i]
  BY Group
<1> HIDE DEF d
<1>2. d \in 0 .. ratio_root_per_buckets /\ d \in 0 .. d
  BY <1>1
<1>3. \A i \in 0 .. (d - 1) : macs[start_index(h) + i] = macs2[start_index(h) + i]
  BY <1>1
<1>4. \A n \in 0 .. d :
        mac_prefix(macs, start_index(h))[n] = mac_prefix(macs2, start_index(h))[n]
  BY <1>1, <1>2, <1>3, PrefixLocal, SMTT(30)
<1> QED BY <1>2, <1>4 DEF prev_mac_count, d

\* The arrays of the root of h before and after the MACs of h change: the MACs of
\* h stand, whole, after the prev_mac_count MACs of the buckets before it.
Spliced(macs, macs2, h, S) ==
  \E pre, suf \in Seq(S) :
    /\ Len(pre) = prev_mac_count(macs, h)
    /\ Len(pre) = prev_mac_count(macs2, h)
    /\ aggregate_mac(macs, h) = pre \o macs[h] \o suf
    /\ aggregate_mac(macs2, h) = pre \o macs2[h] \o suf

\* A change of the MACs of bucket h replaces them where they stand.
LEMMA Splice ==
  ASSUME NEW S, NEW macs, NEW macs2, NEW h \in Buckets,
         MacSeqs(macs, S), MacSeqs(macs2, S),
         \A b \in Buckets \ {h} : macs2[b] = macs[b]
  PROVE  Spliced(macs, macs2, h, S)
<1> DEFINE r == ratio_root_per_buckets
<1> DEFINE st == start_index(h)
<1> DEFINE d == h - st
<1> DEFINE p == mac_prefix(macs, st)
<1> DEFINE p2 == mac_prefix(macs2, st)
<1> DEFINE Split(n) == \E suf \in Seq(S) : p[n] = p[d] \o macs[h] \o suf /\ p2[n] = p[d] \o macs2[h] \o suf
<1> DEFINE T == {n \in (d + 1) .. r : ~ Split(n)}
<1>1. r \in Nat \ {0} /\ st \in Nat /\ d \in 0 .. (r - 1) /\ h = st + d
  BY Group DEF Buckets
<1>2. \A n \in 0 .. (r - 1) : st + n \in Buckets
  BY Group
<1>3. \A n \in 0 .. r : p[n] \in Seq(S) /\ p2[n] \in Seq(S)
  BY PrefixType
<1>4. p[d] = p2[d]
  <2>1. \A n \in 0 .. (d - 1) : macs[st + n] = macs2[st + n]
    <3>1. \A n \in 0 .. (d - 1) : st + n \in Buckets \ {h}
      BY <1>1, <1>2
    <3> QED BY <3>1
  <2>2. d \in 0 .. d /\ d \in 0 .. ratio_root_per_buckets /\ ratio_root_per_buckets \in Nat
    BY <1>1
  <2> HIDE DEF d, st
  <2> HIDE DEF r, p, p2
  <2>3. st \in Nat
    BY <1>1
  <2>4. \A n \in 0 .. d : mac_prefix(macs, st)[n] = mac_prefix(macs2, st)[n]
    BY <2>1, <2>2, <2>3, PrefixLocal
  <2> QED BY <2>2, <2>4 DEF p, p2
<1>5. \A n \in 1 .. r : p[n] = p[n - 1] \o macs[st + n - 1] /\ p2[n] = p2[n - 1] \o macs2[st + n - 1]
  <2>1. \A n \in 0 .. r : p[n] = IF n = 0 THEN << >> ELSE p[n - 1] \o macs[st + n - 1]
    BY <1>1, PrefixDef
  <2>2. \A n \in 0 .. r : p2[n] = IF n = 0 THEN << >> ELSE p2[n - 1] \o macs2[st + n - 1]
    BY <1>1, PrefixDef
  <2> HIDE DEF p, p2, r, st
  <2>3. ASSUME NEW n \in 1 .. r
        PROVE  p[n] = p[n - 1] \o macs[st + n - 1] /\ p2[n] = p2[n - 1] \o macs2[st + n - 1]
    <3>1. n \in 0 .. r /\ n # 0
      BY <1>1
    <3> QED BY <3>1, <2>1, <2>2, Zenon
  <2> QED BY <2>3, Zenon
<1> HIDE DEF p, p2, r, st, d
<1>6. Split(d + 1)
  <2>1. << >> \in Seq(S)
    OBVIOUS
  <2>2. p[d + 1] = p[d] \o macs[h] /\ p2[d + 1] = p[d] \o macs2[h]
    <3> DEFINE n == d + 1
    <3>1. n \in 1 .. r /\ n - 1 = d /\ st + n - 1 = h
      BY <1>1
    <3> HIDE DEF n
    <3>2. p[n] = p[n - 1] \o macs[st + n - 1] /\ p2[n] = p2[n - 1] \o macs2[st + n - 1]
      BY <3>1, <1>5, Zenon
    <3>3. p[n] = p[d] \o macs[h] /\ p2[n] = p[d] \o macs2[h]
      BY <3>1, <3>2, <1>4, Zenon
    <3> QED BY <3>3 DEF n
  <2>3. p[d] \in Seq(S) /\ p[d] \o macs[h] \in Seq(S) /\ p[d] \o macs2[h] \in Seq(S)
    <3>1. p[d] \in Seq(S) /\ macs[h] \in Seq(S) /\ macs2[h] \in Seq(S)
      BY <1>1, <1>3 DEF MacSeqs
    <3> QED BY <3>1
  <2>4. p[d] \o macs[h] \o << >> = p[d] \o macs[h] /\ p[d] \o macs2[h] \o << >> = p[d] \o macs2[h]
    BY <2>3
  <2> QED BY <2>1, <2>2, <2>4, Zenon DEF Split
<1> HIDE DEF Split
<1>7. T = {}
  <2>1. SUFFICES ASSUME T # {} PROVE FALSE
    OBVIOUS
  <2>2. PICK n \in T : \A m \in T : n <= m
    <3>1. T \subseteq Nat
      BY <1>1
    <3> QED BY <2>1, <3>1, NatMin, Zenon
  <2>3. n # d + 1
    BY <1>6
  <2>4. n - 1 \in (d + 1) .. r /\ n \in 1 .. r
    BY <1>1, <2>3
  <2>5. Split(n - 1)
    BY <1>1, <2>2, <2>4
  <2>6. PICK suf \in Seq(S) : p[n - 1] = p[d] \o macs[h] \o suf /\ p2[n - 1] = p[d] \o macs2[h] \o suf
    BY <2>5, Zenon DEF Split
  <2>7. st + n - 1 \in Buckets \ {h}
    <3>1. n - 1 \in 0 .. (r - 1) /\ st + (n - 1) # h /\ st + n - 1 = st + (n - 1)
      BY <1>1, <2>4
    <3> QED BY <3>1, <1>2
  <2> DEFINE x == macs[st + n - 1]
  <2>8. x \in Seq(S) /\ macs2[st + n - 1] = x /\ suf \o x \in Seq(S)
    BY <2>7 DEF MacSeqs
  <2>9. p[n] = (p[d] \o macs[h] \o suf) \o x /\ p2[n] = (p[d] \o macs2[h] \o suf) \o x
    BY <1>5, <2>4, <2>6, <2>8, Zenon
  <2>10. p[d] \in Seq(S) /\ p[d] \o macs[h] \in Seq(S) /\ p[d] \o macs2[h] \in Seq(S)
    <3>1. p[d] \in Seq(S) /\ macs[h] \in Seq(S) /\ macs2[h] \in Seq(S)
      BY <1>1, <1>3 DEF MacSeqs
    <3> QED BY <3>1
  <2> HIDE DEF x
  <2>11. \A u \in Seq(S) : (u \o suf) \o x = u \o (suf \o x)
    BY <2>8, ConcatGroups, SMTT(30)
  <2>12. Split(n)
    <3>1. /\ p[n] = p[d] \o macs[h] \o (suf \o x)
          /\ p2[n] = p[d] \o macs2[h] \o (suf \o x)
      BY <2>9, <2>10, <2>11, Zenon
    <3> QED BY <2>8, <3>1, Zenon DEF Split
  <2> QED BY <2>12
<1>8. Split(r)
  <2>1. r \in (d + 1) .. r
    BY <1>1
  <2> QED BY <2>1, <1>7
<1>9. PICK suf \in Seq(S) : p[r] = p[d] \o macs[h] \o suf /\ p2[r] = p[d] \o macs2[h] \o suf
  BY <1>8, Zenon DEF Split
<1>10. p[d] \in Seq(S)
  BY <1>1, <1>3
<1>11. /\ aggregate_mac(macs, h) = p[r] /\ aggregate_mac(macs2, h) = p2[r]
       /\ prev_mac_count(macs, h) = Len(p[d]) /\ prev_mac_count(macs2, h) = Len(p2[d])
  BY DEF aggregate_mac, prev_mac_count, p, p2, r, d, st
<1> QED BY <1>4, <1>9, <1>10, <1>11, Zenon DEF Spliced

-----------------------------------------------------------------------------
\* t is s with one more element, at place j; t is s with another element in place
\* of old at j.
InsertedAt(t, s, j) ==
  /\ j \in 1 .. Len(t)
  /\ Len(t) = Len(s) + 1
  /\ \A k \in 1 .. Len(s) : s[k] = IF k < j THEN t[k] ELSE t[k + 1]

ReplacedAt(t, s, j, old) ==
  /\ j \in 1 .. Len(t)
  /\ s[j] = old
  /\ Len(t) = Len(s)
  /\ \A k \in 1 .. Len(s) : k # j => s[k] = t[k]

\* The elements of a sequence in three parts.
LEMMA ThreeParts ==
  ASSUME NEW S, NEW u \in Seq(S), NEW s \in Seq(S), NEW v \in Seq(S)
  PROVE  /\ u \o s \o v \in Seq(S)
         /\ Len(u \o s \o v) = Len(u) + Len(s) + Len(v)
         /\ \A k \in 1 .. Len(u) + Len(s) + Len(v) :
              (u \o s \o v)[k] = IF k <= Len(u) THEN u[k]
                                 ELSE IF k <= Len(u) + Len(s) THEN s[k - Len(u)]
                                 ELSE v[k - Len(u) - Len(s)]
OBVIOUS

\* An insertion into one part is an insertion into the whole.
LEMMA InsertedWithin ==
  ASSUME NEW S, NEW u \in Seq(S), NEW v \in Seq(S), NEW s \in Seq(S), NEW t \in Seq(S),
         NEW j \in Nat, InsertedAt(t, s, j)
  PROVE  InsertedAt(u \o t \o v, u \o s \o v, Len(u) + j)
<1> DEFINE a == u \o s \o v
<1> DEFINE b == u \o t \o v
<1>1. Len(u) \in Nat /\ Len(v) \in Nat /\ Len(s) \in Nat /\ Len(t) = Len(s) + 1 /\ j \in 1 .. Len(t)
  BY DEF InsertedAt
<1>2. /\ Len(a) = Len(u) + Len(s) + Len(v)
      /\ \A k \in 1 .. Len(u) + Len(s) + Len(v) :
           a[k] = IF k <= Len(u) THEN u[k]
                  ELSE IF k <= Len(u) + Len(s) THEN s[k - Len(u)]
                  ELSE v[k - Len(u) - Len(s)]
  BY ThreeParts
<1>3. /\ Len(b) = Len(u) + Len(t) + Len(v)
      /\ \A k \in 1 .. Len(u) + Len(t) + Len(v) :
           b[k] = IF k <= Len(u) THEN u[k]
                  ELSE IF k <= Len(u) + Len(t) THEN t[k - Len(u)]
                  ELSE v[k - Len(u) - Len(t)]
  BY ThreeParts
<1> HIDE DEF a, b
<1>4. ASSUME NEW k \in 1 .. Len(a)
      PROVE  a[k] = IF k < Len(u) + j THEN b[k] ELSE b[k + 1]
  <2>1. CASE k <= Len(u)
    BY <1>1, <1>2, <1>3, <2>1
  <2>2. CASE Len(u) < k /\ k <= Len(u) + Len(s)
    <3>1. k - Len(u) \in 1 .. Len(s)
      BY <1>1, <1>2, <2>2
    <3>2. s[k - Len(u)] = IF k - Len(u) < j THEN t[k - Len(u)] ELSE t[k - Len(u) + 1]
      BY <3>1, SMTT(30) DEF InsertedAt
    <3>3. a[k] = s[k - Len(u)]
      BY <1>1, <1>2, <2>2
    <3>4. b[k] = t[k - Len(u)]
      BY <1>1, <1>2, <1>3, <2>2, SMTT(30)
    <3>5. b[k + 1] = t[k + 1 - Len(u)] /\ k + 1 - Len(u) = k - Len(u) + 1
      BY <1>1, <1>2, <1>3, <2>2, SMTT(30)
    <3> QED BY <1>1, <3>2, <3>3, <3>4, <3>5, SMTT(30)
  <2>3. CASE Len(u) + Len(s) < k
    <3>1. a[k] = v[k - Len(u) - Len(s)]
      BY <1>1, <1>2, <2>3
    <3>2. b[k + 1] = v[k + 1 - Len(u) - Len(t)] /\ k + 1 - Len(u) - Len(t) = k - Len(u) - Len(s)
      BY <1>1, <1>2, <1>3, <2>3, SMTT(30)
    <3> QED BY <1>1, <2>3, <3>1, <3>2
  <2> QED BY <1>1, <1>2, <2>1, <2>2, <2>3
<1>5. Len(u) + j \in 1 .. Len(b) /\ Len(b) = Len(a) + 1
  BY <1>1, <1>2, <1>3
<1>6. InsertedAt(b, a, Len(u) + j)
  BY <1>4, <1>5, SMTT(30) DEF InsertedAt
<1> QED BY <1>6 DEF a, b

\* Removing the inserted element gives back the sequence before the insertion.
LEMMA RemoveInserted ==
  ASSUME NEW S, NEW s \in Seq(S), NEW t \in Seq(S), NEW j \in Nat, InsertedAt(t, s, j)
  PROVE  without(t, j) = s
<1> DEFINE l == SubSeq(t, 1, j - 1)
<1> DEFINE q == SubSeq(t, j + 1, Len(t))
<1>1. Len(t) \in Nat /\ Len(s) \in Nat /\ j \in 1 .. Len(t) /\ Len(t) = Len(s) + 1
  BY DEF InsertedAt
<1>2. l \in Seq(S) /\ Len(l) = j - 1 /\ \A k \in 1 .. (j - 1) : l[k] = t[k]
  BY <1>1
<1>3. q \in Seq(S) /\ Len(q) = Len(t) - j /\ \A k \in 1 .. (Len(t) - j) : q[k] = t[j + k]
  BY <1>1
<1> HIDE DEF l, q
<1>4. l \o q \in Seq(S) /\ Len(l \o q) = Len(s)
  BY <1>1, <1>2, <1>3, SMTT(30)
<1>5. \A k \in 1 .. Len(s) : (l \o q)[k] = s[k]
  <2> SUFFICES ASSUME NEW k \in 1 .. Len(s) PROVE (l \o q)[k] = s[k]
    BY Zenon
  <2>1. s[k] = IF k < j THEN t[k] ELSE t[k + 1]
    BY DEF InsertedAt
  <2>2. CASE k < j
    BY <1>1, <1>2, <1>3, <2>1, <2>2
  <2>3. CASE ~(k < j)
    <3>1. (l \o q)[k] = q[k - Len(l)] /\ k - Len(l) \in 1 .. (Len(t) - j) /\ j + (k - Len(l)) = k + 1
      BY <1>1, <1>2, <1>3, <2>3, SMTT(30)
    <3> QED BY <1>3, <2>1, <2>3, <3>1, Zenon
  <2> QED BY <2>2, <2>3, Zenon
<1>6. l \o q = s
  BY <1>4, <1>5, SameSequence, Zenon
<1> QED BY <1>6, Zenon DEF without, l, q

\* A replacement in one part is a replacement in the whole.
LEMMA ReplacedWithin ==
  ASSUME NEW S, NEW u \in Seq(S), NEW v \in Seq(S), NEW s \in Seq(S), NEW t \in Seq(S),
         NEW j \in Nat, NEW old, ReplacedAt(t, s, j, old)
  PROVE  ReplacedAt(u \o t \o v, u \o s \o v, Len(u) + j, old)
<1>1. Len(u) \in Nat /\ Len(v) \in Nat /\ Len(s) \in Nat /\ Len(t) = Len(s) /\ j \in 1 .. Len(t) /\ s[j] = old
  BY DEF ReplacedAt
<1> DEFINE a == u \o s \o v
<1> DEFINE b == u \o t \o v
<1>2. /\ Len(a) = Len(u) + Len(s) + Len(v)
      /\ \A k \in 1 .. Len(u) + Len(s) + Len(v) :
           a[k] = IF k <= Len(u) THEN u[k]
                  ELSE IF k <= Len(u) + Len(s) THEN s[k - Len(u)]
                  ELSE v[k - Len(u) - Len(s)]
  BY ThreeParts
<1>3. /\ Len(b) = Len(u) + Len(t) + Len(v)
      /\ \A k \in 1 .. Len(u) + Len(t) + Len(v) :
           b[k] = IF k <= Len(u) THEN u[k]
                  ELSE IF k <= Len(u) + Len(t) THEN t[k - Len(u)]
                  ELSE v[k - Len(u) - Len(t)]
  BY ThreeParts
<1> HIDE DEF a, b
<1>4. ASSUME NEW k \in 1 .. Len(a), k # Len(u) + j
      PROVE  a[k] = b[k]
  <2>1. CASE Len(u) < k /\ k <= Len(u) + Len(s)
    <3>1. k - Len(u) \in 1 .. Len(s) /\ k - Len(u) # j
      BY <1>1, <1>2, <1>4, <2>1, SMTT(30)
    <3>2. s[k - Len(u)] = t[k - Len(u)]
      BY <3>1, Zenon DEF ReplacedAt
    <3> QED BY <1>1, <1>2, <1>3, <2>1, <3>2
  <2>2. CASE ~(Len(u) < k /\ k <= Len(u) + Len(s))
    BY <1>1, <1>2, <1>3, <2>2
  <2> QED BY <2>1, <2>2
<1>5. Len(u) + j \in 1 .. Len(b) /\ Len(b) = Len(a) /\ a[Len(u) + j] = old
  <2>1. Len(u) + j \in 1 .. Len(b) /\ Len(b) = Len(a) /\ Len(u) + j - Len(u) = j
    BY <1>1, <1>2, <1>3
  <2> QED BY <1>1, <1>2, <2>1
<1>6. ReplacedAt(b, a, Len(u) + j, old)
  BY <1>4, <1>5 DEF ReplacedAt
<1> QED BY <1>6 DEF a, b

\* Putting the old element back gives the sequence before the replacement.
LEMMA RestoreReplaced ==
  ASSUME NEW S, NEW s \in Seq(S), NEW t \in Seq(S), NEW j \in Nat,
         NEW old, ReplacedAt(t, s, j, old)
  PROVE  [t EXCEPT ![j] = old] = s
<1> DEFINE x == [t EXCEPT ![j] = old]
<1>1. Len(t) \in Nat /\ j \in 1 .. Len(t) /\ Len(t) = Len(s) /\ s[j] = old /\ old \in S
  BY DEF ReplacedAt
<1>2. x \in Seq(S) /\ Len(x) = Len(t) /\ \A k \in 1 .. Len(t) : x[k] = IF k = j THEN old ELSE t[k]
  BY <1>1
<1> HIDE DEF x
<1>3. \A k \in 1 .. Len(s) : x[k] = s[k]
  BY <1>1, <1>2 DEF ReplacedAt
<1>4. x = s
  BY <1>1, <1>2, <1>3, SameSequence
<1> QED BY <1>4 DEF x

-----------------------------------------------------------------------------

\* Facts about one sequence, to be cited where many are around.
LEMMA LengthIsNat ==
  ASSUME NEW S, NEW q \in Seq(S)
  PROVE  Len(q) \in Nat
OBVIOUS

\* A place of ht_get_o that is in the chain.
LEMMA PlaceInChain ==
  ASSUME NEW S, NEW q \in Seq(S), NEW n \in Nat, n + 1 \in DOMAIN q
  PROVE  n + 1 \in 1 .. Len(q) /\ n < Len(q)
OBVIOUS

\* The entry a search found.
LEMMA FirstOfOne ==
  ASSUME NEW e
  PROVE  << e >>[1] = e
OBVIOUS

(***************************************************************************)
(* The check of the old root in enclave_rebuild_tree_root, for any MACs.    *)
(***************************************************************************)

\* The array of a root that covers a bucket with a MAC is not empty.
LEMMA AggregateNonEmpty ==
  ASSUME NEW S, NEW macs, MacSeqs(macs, S), NEW h \in Buckets, macs[h] # << >>
  PROVE  aggregate_mac(macs, h) # << >>
<1>1. Spliced(macs, macs, h, S)
  BY Splice
<1>2. PICK pre \in Seq(S), suf \in Seq(S) : aggregate_mac(macs, h) = pre \o macs[h] \o suf
  BY <1>1, Zenon DEF Spliced
<1>3. macs[h] \in Seq(S)
  BY DEF MacSeqs
<1>4. Len(pre \o macs[h] \o suf) = Len(pre) + Len(macs[h]) + Len(suf)
  BY <1>3, ThreeParts
<1>5. Len(pre) \in Nat /\ Len(suf) \in Nat /\ Len(macs[h]) \in Nat /\ Len(macs[h]) # 0
  BY <1>3
<1>6. Len(aggregate_mac(macs, h)) # 0
  BY <1>2, <1>4, <1>5
<1> QED BY <1>6

\* After an insertion where the code looks for it, the check passes.
LEMMA InsertMatches ==
  ASSUME NEW S, NEW macs, NEW macs2, NEW h \in Buckets, NEW kv_pos,
         MacSeqs(macs, S), MacSeqs(macs2, S),
         \A b \in Buckets \ {h} : macs2[b] = macs[b],
         insert_slot(kv_pos, Len(macs2[h])) \in Nat,
         InsertedAt(macs2[h], macs[h], insert_slot(kv_pos, Len(macs2[h])) + 1)
  PROVE  InsertVerifies(macs2, RootOf(aggregate_mac(macs, h)), h, kv_pos)
<1> DEFINE j == insert_slot(kv_pos, Len(macs2[h])) + 1
<1> DEFINE agg == aggregate_mac(macs, h)
<1> DEFINE agg2 == aggregate_mac(macs2, h)
<1>0. Spliced(macs, macs2, h, S)
  BY Splice
<1>1. PICK pre \in Seq(S), suf \in Seq(S) :
        /\ Len(pre) = prev_mac_count(macs2, h)
        /\ agg = pre \o macs[h] \o suf
        /\ agg2 = pre \o macs2[h] \o suf
  BY <1>0, Zenon DEF Spliced
<1>2. macs[h] \in Seq(S) /\ macs2[h] \in Seq(S) /\ j \in Nat
  BY DEF MacSeqs
<1>3. agg \in Seq(S) /\ agg2 \in Seq(S)
  BY <1>1, <1>2, ThreeParts
<1>4. InsertedAt(agg2, agg, Len(pre) + j)
  BY <1>1, <1>2, InsertedWithin, Zenon
<1>5. Len(pre) + j \in Nat /\ prev_mac_count(macs2, h) + insert_slot(kv_pos, Len(macs2[h])) + 1 = Len(pre) + j
  <2> DEFINE i == insert_slot(kv_pos, Len(macs2[h]))
  <2>1. i \in Nat /\ j = i + 1 /\ Len(pre) \in Nat /\ Len(pre) = prev_mac_count(macs2, h)
    BY <1>1
  <2> HIDE DEF i, j
  <2>2. Len(pre) + j \in Nat /\ prev_mac_count(macs2, h) + i + 1 = Len(pre) + j
    BY <2>1
  <2> QED BY <2>2 DEF i
<1> HIDE DEF j, agg, agg2
<1>6. without(agg2, Len(pre) + j) = agg
  BY <1>3, <1>4, <1>5, RemoveInserted
<1>7. Len(agg2) > 1 => agg # << >>
  BY <1>3, <1>4 DEF InsertedAt
<1>8. Len(agg2) > 1 => RootOf(agg) = CMac(without(agg2, Len(pre) + j))
  BY <1>6, <1>7 DEF RootOf
<1> QED BY <1>5, <1>8 DEF InsertVerifies, agg, agg2

\* After an update where the code looks for it, the check passes.
LEMMA UpdateMatches ==
  ASSUME NEW S, NEW macs, NEW macs2, NEW h \in Buckets, NEW kv_pos, NEW old,
         MacSeqs(macs, S), MacSeqs(macs2, S),
         \A b \in Buckets \ {h} : macs2[b] = macs[b],
         update_slot(kv_pos, Len(macs2[h])) \in Nat,
         ReplacedAt(macs2[h], macs[h], update_slot(kv_pos, Len(macs2[h])) + 1, old)
  PROVE  UpdateVerifies(macs2, RootOf(aggregate_mac(macs, h)), h, kv_pos, old)
<1> DEFINE j == update_slot(kv_pos, Len(macs2[h])) + 1
<1> DEFINE agg == aggregate_mac(macs, h)
<1> DEFINE agg2 == aggregate_mac(macs2, h)
<1>0. Spliced(macs, macs2, h, S)
  BY Splice
<1>1. PICK pre \in Seq(S), suf \in Seq(S) :
        /\ Len(pre) = prev_mac_count(macs2, h)
        /\ agg = pre \o macs[h] \o suf
        /\ agg2 = pre \o macs2[h] \o suf
  BY <1>0, Zenon DEF Spliced
<1>2. macs[h] \in Seq(S) /\ macs2[h] \in Seq(S) /\ j \in Nat
  BY DEF MacSeqs
<1>3. agg \in Seq(S) /\ agg2 \in Seq(S)
  BY <1>1, <1>2, ThreeParts
<1>4. ReplacedAt(agg2, agg, Len(pre) + j, old)
  BY <1>1, <1>2, ReplacedWithin, Zenon
<1>5. Len(pre) + j \in Nat /\ prev_mac_count(macs2, h) + update_slot(kv_pos, Len(macs2[h])) + 1 = Len(pre) + j
  <2> DEFINE i == update_slot(kv_pos, Len(macs2[h]))
  <2>1. i \in Nat /\ j = i + 1 /\ Len(pre) \in Nat /\ Len(pre) = prev_mac_count(macs2, h)
    BY <1>1
  <2> HIDE DEF i, j
  <2>2. Len(pre) + j \in Nat /\ prev_mac_count(macs2, h) + i + 1 = Len(pre) + j
    BY <2>1
  <2> QED BY <2>2 DEF i
<1>6. agg # << >>
  <2>1. macs[h] # << >>
    BY <1>2 DEF ReplacedAt
  <2> QED BY <2>1, AggregateNonEmpty
<1> HIDE DEF j, agg, agg2
<1>7. [agg2 EXCEPT ![Len(pre) + j] = old] = agg
  BY <1>3, <1>4, <1>5, RestoreReplaced
<1>8. RootOf(agg) = CMac([agg2 EXCEPT ![Len(pre) + j] = old])
  BY <1>6, <1>7, Zenon DEF RootOf
<1> QED BY <1>5, <1>8, Zenon DEF UpdateVerifies, agg, agg2

\* The checks for a bucket do not depend on the buckets of other roots.
LEMMA VerifiesLocal ==
  ASSUME NEW macs, NEW macs2, NEW h \in Buckets,
         \A b \in Buckets : root_index(b) = root_index(h) => macs[b] = macs2[b],
         NEW root, NEW kv_pos, NEW old
  PROVE  /\ InsertVerifies(macs, root, h, kv_pos) => InsertVerifies(macs2, root, h, kv_pos)
         /\ UpdateVerifies(macs, root, h, kv_pos, old) => UpdateVerifies(macs2, root, h, kv_pos, old)
<1>1. aggregate_mac(macs, h) = aggregate_mac(macs2, h)
  BY AggregateLocal
<1>2. prev_mac_count(macs, h) = prev_mac_count(macs2, h)
  BY CountLocal
<1>3. macs[h] = macs2[h]
  OBVIOUS
<1> QED BY <1>1, <1>2, <1>3 DEF InsertVerifies, UpdateVerifies

-----------------------------------------------------------------------------
\* ht_get_o finds the first match, if there is one.
LEMMA GetO ==
  ASSUME NEW chain, Len(chain) \in Nat, NEW k
  PROVE  /\ ht_get_o(chain, k) \in 0 .. Len(chain)
         /\ ht_get_o(chain, k) < Len(chain) => Matches(chain[ht_get_o(chain, k) + 1], k)
         /\ \A i \in 1 .. ht_get_o(chain, k) : ~Matches(chain[i], k)
<1> DEFINE T == {p \in 0 .. Len(chain) : p < Len(chain) => Matches(chain[p + 1], k)}
<1> DEFINE First(p) == /\ p < Len(chain) => Matches(chain[p + 1], k)
                       /\ \A i \in 1 .. p : ~Matches(chain[i], k)
<1>1. Len(chain) \in T /\ T \subseteq Nat
  OBVIOUS
<1>2. PICK p \in T : \A m \in T : p <= m
  BY <1>1, NatMin, Zenon
<1>3. ASSUME NEW i \in 1 .. p PROVE ~Matches(chain[i], k)
  <2> DEFINE m == i - 1
  <2>1. m \in 0 .. Len(chain) /\ ~(p <= m) /\ m < Len(chain) /\ m + 1 = i
    OBVIOUS
  <2> HIDE DEF m
  <2>2. m \notin T
    BY <1>2, <2>1
  <2>3. ~Matches(chain[m + 1], k)
    BY <2>1, <2>2
  <2> QED BY <2>1, <2>3
<1>4. p \in 0 .. Len(chain) /\ First(p)
  BY <1>2, <1>3
<1>5. ht_get_o(chain, k) = CHOOSE q \in 0 .. Len(chain) : First(q)
  BY DEF ht_get_o
<1> HIDE DEF First
<1>6. ht_get_o(chain, k) \in 0 .. Len(chain) /\ First(ht_get_o(chain, k))
  BY <1>4, <1>5
<1> QED BY <1>6 DEF First

-----------------------------------------------------------------------------
\* The invariant holds initially: no MAC anywhere, all roots zero.
LEMMA InvInit == Init => IInv
<1> SUFFICES ASSUME Init PROVE IInv
  OBVIOUS
<1> USE DEF Init
<1>1. TypeOK
  <2>1. 0 \in Nac
    BY StoreAssumption DEF Nac
  <2>2. NoLoc \in [kv_pos : Nat, found : Seq(Entry), nac : Nac]
    BY <2>1 DEF NoLoc
  <2>3. /\ table \in [Buckets -> Seq(Entry)] /\ macbuf \in [Buckets -> Seq(Mac)]
        /\ MACTable \in [Roots -> Seq(Seq(Mac))]
    BY DEF ZeroMac
  <2> HIDE DEF NoLoc
  <2> QED BY <2>2, <2>3, Zenon DEF TypeOK
<1>2. JobOK /\ StageOK /\ LookupStillValid /\ RebuildOK /\ NoFalseAlarm
  BY DEF JobOK, JobAt, StageOK, StageAt, LookupStillValid, RebuildOK, NoFalseAlarm
<1>3. EntriesOK /\ OneEntryPerKey
  BY DEF EntriesOK, OneEntryPerKey
<1>4. MacBucketReversed
  BY DEF MacBucketReversed, ReversedMacs
<1>5. RootsCoverMemory
  <2> SUFFICES ASSUME NEW h \in Buckets
               PROVE  MACTable[root_index(h)] = RootOf(aggregate_mac(Macs, h))
    BY DEF RootsCoverMemory
  <2>1. MacSeqs(Macs, {})
    BY DEF MacSeqs, Macs, ChainMacs
  <2>2. ratio_root_per_buckets \in 0 .. ratio_root_per_buckets
    BY Group
  <2>3. aggregate_mac(Macs, h) \in Seq({})
    BY <2>1, <2>2, PrefixType DEF aggregate_mac
  <2>4. \A s \in Seq({}) : s = << >>
    OBVIOUS
  <2>5. root_index(h) \in Roots
    BY LayoutFacts
  <2> QED BY <2>3, <2>4, <2>5 DEF RootOf
<1> QED BY <1>1, <1>2, <1>3, <1>4, <1>5 DEF IInv

\* A step of worker w that leaves memory and roots alone, outside the rebuild.
LEMMA LocalStep ==
  ASSUME IInv, NEW w \in Workers, TypeOK',
         UNCHANGED << table, macbuf, MACTable >>, ~alarm',
         \A x \in Workers \ {w} : pc'[x] = pc[x] /\ job'[x] = job[x] /\ loc'[x] = loc[x],
         pc[w] # "rebuild", pc'[w] # "rebuild",
         JobAt(w)', StageAt(w)',
         pc'[w] \in {"write", "verify"} => LookupHolds(w)'
  PROVE  IInv'
<1>1. Macs' = Macs
  BY DEF Macs
<1>2. JobOK' /\ StageOK'
  BY DEF IInv, JobOK, JobAt, StageOK, StageAt, bucket
<1>3. EntriesOK' /\ OneEntryPerKey' /\ MacBucketReversed' /\ NoFalseAlarm'
  BY DEF IInv, EntriesOK, OneEntryPerKey, MacBucketReversed, NoFalseAlarm
<1>4. \A x \in Workers \ {w} : bucket(x)' = bucket(x)
  BY DEF bucket
<1>5. LookupStillValid'
  BY <1>4 DEF IInv, LookupStillValid, LookupHolds
<1>6. RebuildOK'
  BY <1>1, <1>4 DEF IInv, RebuildOK, RebuildAt, PrevVerifies
<1>7. RootsCoverMemory'
  <2>1. \A g \in Roots : RootBusy(g) => RootBusy(g)'
    BY <1>4 DEF RootBusy
  <2>2. \A h \in Buckets : root_index(h) \in Roots
    BY LayoutFacts
  <2> QED BY <1>1, <2>1, <2>2 DEF IInv, RootsCoverMemory
<1> QED BY <1>2, <1>3, <1>5, <1>6, <1>7 DEF IInv

-----------------------------------------------------------------------------
(***************************************************************************)
(* Facts the actions share.                                                 *)
(***************************************************************************)

\* Entries the server makes are well typed and verify.
LEMMA NewEntryOK ==
  ASSUME NEW k \in Keys, NEW v \in Seq(Chunks), NEW n \in Nac
  PROVE  /\ NewEntry(k, v, n) \in Entry
         /\ EntryOK(NewEntry(k, v, n))
         /\ NewEntry(k, v, n).cipher.key = k
<1>1. KeyHash[k] \in Hints
  BY DEF Hints
<1>2. Encrypt(k, v, n) \in Cipher
  BY DEF Encrypt, Cipher
<1>3. MacOf(Encrypt(k, v, n), n, KeyHash[k]) \in Mac
  BY <1>1, <1>2 DEF MacOf, Mac
<1> QED BY <1>1, <1>2, <1>3 DEF NewEntry, Entry, EntryOK, Verifies, Encrypt

\* The counter stays in range.
LEMMA UpdatedNac ==
  ASSUME NEW e \in Entry
  PROVE  updated_nac(e) \in Nac
<1>1. e.nac \in Nac /\ e.cipher.val \in Seq(Chunks)
  BY DEF Entry, Cipher
<1>2. e.nac \in Nat /\ Len(e.cipher.val) \in Nat
  BY <1>1, StoreAssumption DEF Nac
<1> DEFINE x == e.nac + Blocks(e.cipher.val)
<1>3. x \in Nat
  BY <1>2 DEF Blocks
<1> HIDE DEF x
<1>4. CtrSpan \in Nat \ {0}
  BY StoreAssumption
<1>5. x % CtrSpan \in 0 .. (CtrSpan - 1)
  BY <1>3, <1>4
<1> QED BY <1>5 DEF updated_nac, Nac, x

\* A busy worker's bucket.
LEMMA BucketOK ==
  ASSUME IInv, NEW w \in Workers, pc[w] # "idle"
  PROVE  /\ job[w] \in Requests /\ job[w].key \in Keys /\ job[w].chunk \in Chunks
         /\ job[w].op \in {"GET", "SET", "APP"}
         /\ bucket(w) \in Buckets /\ thread_id(bucket(w)) = w
         /\ root_index(bucket(w)) \in Roots
<1>1. job[w] \in Requests /\ thread_id(bucket(w)) = w
  BY DEF IInv, JobOK, JobAt
<1>2. job[w].key \in Keys /\ job[w].chunk \in Chunks /\ job[w].op \in Ops
  BY <1>1 DEF Requests
<1>3. bucket(w) \in Buckets
  BY <1>2, StoreAssumption DEF bucket
<1> QED BY <1>1, <1>2, <1>3, StoreAssumption, LayoutFacts, Zenon

\* Two busy workers never work under the same root.
LEMMA RootOwner ==
  ASSUME IInv, NEW w \in Workers, NEW x \in Workers, pc[w] # "idle", pc[x] # "idle",
         root_index(bucket(w)) = root_index(bucket(x))
  PROVE  w = x
BY BucketOK, LayoutFacts

\* What ht_get_o found, in a chain of the table.
LEMMA LookupOK ==
  ASSUME IInv, NEW w \in Workers, pc[w] # "idle"
  PROVE  LET chain == table[bucket(w)]
             p     == ht_get_o(chain, job[w].key)
         IN  /\ chain \in Seq(Entry)
             /\ p \in Nat /\ p <= Len(chain)
             /\ ~Found(chain, job[w].key) => p = Len(chain)
             /\ Found(chain, job[w].key) =>
                  /\ p < Len(chain)
                  /\ p + 1 \in DOMAIN chain
                  /\ chain[p + 1] \in Entry
                  /\ EntryOK(chain[p + 1])
<1> DEFINE chain == table[bucket(w)]
<1> DEFINE p == ht_get_o(chain, job[w].key)
<1>1. bucket(w) \in Buckets
  BY BucketOK
<1>2. chain \in Seq(Entry)
  BY <1>1 DEF IInv, TypeOK
<1>3. Len(chain) \in Nat /\ DOMAIN chain = 1 .. Len(chain)
  BY <1>2
<1>4. \A i \in DOMAIN chain : EntryOK(chain[i])
  BY <1>1 DEF IInv, EntriesOK
<1> HIDE DEF chain
<1>5. p \in 0 .. Len(chain)
  BY <1>3, GetO
<1>6. Found(chain, job[w].key) <=> p < Len(chain)
  BY DEF Found
<1> HIDE DEF p
<1>7. p < Len(chain) => p + 1 \in DOMAIN chain /\ chain[p + 1] \in Entry
  BY <1>2, <1>3, <1>5
<1>8. p \in Nat /\ p <= Len(chain) /\ (~(p < Len(chain)) => p = Len(chain))
  <2> DEFINE n == Len(chain)
  <2>1. n \in Nat /\ p \in 0 .. n
    BY <1>3, <1>5
  <2> HIDE DEF n
  <2>2. p \in Nat /\ p <= n /\ (~(p < n) => p = n)
    BY <2>1
  <2> QED BY <2>2 DEF n
<1>9. /\ chain \in Seq(Entry)
      /\ p \in Nat /\ p <= Len(chain)
      /\ ~Found(chain, job[w].key) => p = Len(chain)
      /\ Found(chain, job[w].key) =>
           p < Len(chain) /\ p + 1 \in DOMAIN chain /\ chain[p + 1] \in Entry /\ EntryOK(chain[p + 1])
  BY <1>2, <1>4, <1>6, <1>7, <1>8, Zenon
<1> QED BY <1>9 DEF chain, p

-----------------------------------------------------------------------------
(***************************************************************************)
(* The steps that leave memory and roots alone.                             *)
(***************************************************************************)

\* Taking a request from the queue keeps the invariant.
LEMMA AcceptStep ==
  ASSUME IInv, NEW w \in Workers, NEW r \in Requests, Accept(w, r)
  PROVE  IInv'
<1> USE DEF Accept
<1>1. TypeOK'
  BY DEF IInv, TypeOK
<1>2. pc[w] = "idle" /\ pc'[w] = "lookup" /\ job'[w] = r /\ ~alarm'
  BY DEF IInv, TypeOK, NoFalseAlarm
<1>3. JobAt(w)' /\ StageAt(w)'
  BY <1>2 DEF JobAt, StageAt, bucket
<1>4. \A x \in Workers \ {w} : pc'[x] = pc[x] /\ job'[x] = job[x] /\ loc'[x] = loc[x]
  BY DEF IInv, TypeOK
<1> QED BY <1>1, <1>2, <1>3, <1>4, LocalStep, Zenon

\* A search that finds the key keeps the invariant: what it notes is in the chain.
LEMMA LookupHitStep ==
  ASSUME IInv, NEW w \in Workers, LookupHit(w)
  PROVE  IInv'
<1> DEFINE chain == table[bucket(w)]
<1> DEFINE p == ht_get_o(chain, job[w].key)
<1> DEFINE e == chain[p + 1]
<1> DEFINE l == [kv_pos |-> p, found |-> << e >>, nac |-> updated_nac(e)]
<1>1. /\ pc[w] = "lookup"
      /\ Found(chain, job[w].key)
      /\ loc' = [loc EXCEPT ![w] = l]
      /\ alarm' = (alarm \/ ~Verifies(e))
      /\ pc' = [pc EXCEPT ![w] = IF job[w].op = "GET" THEN "verify" ELSE "write"]
      /\ UNCHANGED << table, macbuf, MACTable, job, buf >>
  BY Zenon DEF LookupHit
<1>2. p \in Nat /\ p < Len(chain) /\ e \in Entry /\ EntryOK(e)
  BY <1>1, LookupOK
<1>3. updated_nac(e) \in Nac
  BY <1>2, UpdatedNac
<1> HIDE DEF e, p
<1>4. l \in [kv_pos : Nat, found : Seq(Entry), nac : Nac] /\ l.found # << >>
  BY <1>2, <1>3
<1>5. ~alarm' /\ alarm' \in BOOLEAN
  BY <1>1, <1>2, Zenon DEF EntryOK, IInv, NoFalseAlarm
<1>6. l.kv_pos = p /\ l.found = << e >>
  OBVIOUS
<1> HIDE DEF l
<1>7. TypeOK'
  BY <1>1, <1>4, <1>5 DEF IInv, TypeOK
<1>8. /\ pc'[w] \in {"verify", "write"} /\ loc'[w] = l /\ job'[w] = job[w] /\ bucket(w)' = bucket(w)
      /\ pc'[w] = "write" => job[w].op # "GET"
      /\ table' = table
  BY <1>1 DEF IInv, TypeOK, bucket
<1>9. JobAt(w)' /\ StageAt(w)'
  BY <1>1, <1>4, <1>8, BucketOK DEF JobAt, StageAt
<1>10. LookupHolds(w)'
  BY <1>2, <1>4, <1>6, <1>8, Zenon DEF LookupHolds, e, p
<1>11. \A x \in Workers \ {w} : pc'[x] = pc[x] /\ job'[x] = job[x] /\ loc'[x] = loc[x]
  BY <1>1, Zenon DEF IInv, TypeOK
<1> QED BY <1>1, <1>5, <1>7, <1>8, <1>9, <1>10, <1>11, LocalStep, Zenon

\* A vain search of enclave_set keeps the invariant.
LEMMA LookupMissSetStep ==
  ASSUME IInv, NEW w \in Workers, LookupMissSet(w)
  PROVE  IInv'
<1> DEFINE chain == table[bucket(w)]
<1> DEFINE p == ht_get_o(chain, job[w].key)
<1>1. PICK n \in RandNac :
      /\ pc[w] = "lookup"
      /\ ~Found(chain, job[w].key)
      /\ job[w].op = "SET"
      /\ loc' = [loc EXCEPT ![w] = [kv_pos |-> p, found |-> << >>, nac |-> n]]
      /\ pc' = [pc EXCEPT ![w] = "write"]
      /\ UNCHANGED << table, macbuf, MACTable, job, buf, alarm >>
  BY Zenon DEF LookupMissSet
<1> DEFINE l == [kv_pos |-> p, found |-> << >>, nac |-> n]
<1>2. p \in Nat /\ p = Len(chain)
  BY <1>1, LookupOK, Zenon
<1>3. n \in Nac
  BY StoreAssumption
<1> HIDE DEF p
<1>4. l \in [kv_pos : Nat, found : Seq(Entry), nac : Nac] /\ l.found = << >> /\ l.kv_pos = p
  BY <1>2, <1>3
<1>5. loc' = [loc EXCEPT ![w] = l]
  BY <1>1, Zenon
<1> HIDE DEF l
<1>7. TypeOK'
  BY <1>1, <1>4, <1>5, ZenonT(30) DEF IInv, TypeOK
<1>8. /\ pc'[w] = "write" /\ loc'[w] = l /\ job'[w] = job[w] /\ bucket(w)' = bucket(w)
      /\ table' = table /\ ~alarm'
  BY <1>1, <1>5, Zenon DEF IInv, TypeOK, NoFalseAlarm, bucket
<1>9. JobAt(w)' /\ StageAt(w)'
  BY <1>1, <1>8, BucketOK, Zenon DEF JobAt, StageAt
<1>10. LookupHolds(w)'
  BY <1>2, <1>4, <1>8, Zenon DEF LookupHolds, p
<1>11. \A x \in Workers \ {w} : pc'[x] = pc[x] /\ job'[x] = job[x] /\ loc'[x] = loc[x]
  BY <1>1, <1>5 DEF IInv, TypeOK
<1> QED BY <1>1, <1>7, <1>8, <1>9, <1>10, <1>11, LocalStep, Zenon

\* A vain search of enclave_get or enclave_append keeps the invariant.
LEMMA LookupMissStep ==
  ASSUME IInv, NEW w \in Workers, LookupMiss(w)
  PROVE  IInv'
<1> USE DEF LookupMiss
<1> DEFINE b == [kind |-> "echo", body |-> job[w].key]
<1>1. b \in [kind : {"key", "echo"}, body : Keys]
  BY BucketOK
<1>2. buf' = [buf EXCEPT ![w] = b]
  BY Zenon
<1> HIDE DEF b
<1>3. TypeOK'
  BY <1>1, <1>2, SMTT(30) DEF IInv, TypeOK
<1>4. pc[w] = "lookup" /\ pc'[w] = "reply" /\ job'[w] = job[w] /\ bucket(w)' = bucket(w) /\ ~alarm'
  BY DEF IInv, TypeOK, NoFalseAlarm, bucket
<1>5. JobAt(w)' /\ StageAt(w)'
  BY <1>4, BucketOK DEF JobAt, StageAt
<1>6. \A x \in Workers \ {w} : pc'[x] = pc[x] /\ job'[x] = job[x] /\ loc'[x] = loc[x]
  BY DEF IInv, TypeOK
<1> QED BY <1>3, <1>4, <1>5, <1>6, LocalStep

\* Answering the client keeps the invariant.
LEMMA ReplyStep ==
  ASSUME IInv, NEW w \in Workers, Reply(w)
  PROVE  IInv'
<1> USE DEF Reply
<1>1. NoLoc \in [kv_pos : Nat, found : Seq(Entry), nac : Nac]
  BY StoreAssumption DEF NoLoc, Nac
<1>2. TypeOK'
  BY <1>1 DEF IInv, TypeOK
<1>3. pc[w] = "reply" /\ pc'[w] = "idle" /\ ~alarm'
  BY DEF IInv, TypeOK, NoFalseAlarm
<1>4. JobAt(w)' /\ StageAt(w)'
  BY <1>3 DEF JobAt, StageAt
<1>5. \A x \in Workers \ {w} : pc'[x] = pc[x] /\ job'[x] = job[x] /\ loc'[x] = loc[x]
  BY DEF IInv, TypeOK
<1> QED BY <1>2, <1>3, <1>4, <1>5, LocalStep

-----------------------------------------------------------------------------
(***************************************************************************)
(* What ht_set_o and ht_append_o do to a chain and to its MAC bucket.       *)
(***************************************************************************)

\* The MACs gathered from a chain, one per entry in its order.
LEMMA ChainMacsOK ==
  ASSUME NEW chain \in Seq(Entry)
  PROVE  /\ ChainMacs(chain) \in Seq(Mac)
         /\ Len(ChainMacs(chain)) = Len(chain)
         /\ \A i \in 1 .. Len(chain) : ChainMacs(chain)[i] = chain[i].mac
<1>0. \A e \in Entry : e.mac \in Mac
  BY DEF Entry
<1>1. \A i \in 1 .. Len(chain) : chain[i].mac \in Mac
  BY <1>0
<1> QED BY <1>1 DEF ChainMacs

\* The MACs of a chain in the order of its MAC bucket.
LEMMA ReversedOK ==
  ASSUME NEW chain \in Seq(Entry)
  PROVE  /\ ReversedMacs(chain) \in Seq(Mac)
         /\ Len(ReversedMacs(chain)) = Len(chain)
         /\ \A i \in 1 .. Len(chain) : ReversedMacs(chain)[i] = chain[(Len(chain) - i) + 1].mac
<1>1. \A e \in Entry : e.mac \in Mac
  BY DEF Entry
<1>2. \A i \in 1 .. Len(chain) : (Len(chain) - i) + 1 \in 1 .. Len(chain)
  OBVIOUS
<1>3. \A i \in 1 .. Len(chain) : chain[(Len(chain) - i) + 1].mac \in Mac
  BY <1>1, <1>2
<1> QED BY <1>3 DEF ReversedMacs

\* What storing a MAC at a slot of a MAC bucket gives.
LEMMA StoreMacOK ==
  ASSUME NEW S, NEW s \in Seq(S), NEW m \in S, NEW n \in Nat, NEW pos \in 0 .. (n - 1),
         \A i \in 1 .. n : i # pos + 1 => i <= Len(s)
  PROVE  /\ StoreMac(s, n, pos, m) \in Seq(S)
         /\ Len(StoreMac(s, n, pos, m)) = n
         /\ \A i \in 1 .. n : StoreMac(s, n, pos, m)[i] = IF i = pos + 1 THEN m ELSE s[i]
<1>1. \A i \in 1 .. n : (IF i = pos + 1 THEN m ELSE s[i]) \in S
  OBVIOUS
<1> QED BY <1>1 DEF StoreMac

\* Insertion at the head of a chain.
LEMMA InsertMacs ==
  ASSUME NEW chain \in Seq(Entry), NEW e \in Entry
  PROVE  /\ << e >> \o chain \in Seq(Entry)
         /\ ChainMacs(<< e >> \o chain) \in Seq(Mac)
         /\ InsertedAt(ChainMacs(<< e >> \o chain), ChainMacs(chain), 1)
<1> DEFINE chain2 == << e >> \o chain
<1>1. /\ chain2 \in Seq(Entry) /\ Len(chain2) = Len(chain) + 1 /\ Len(chain) \in Nat
      /\ \A i \in 1 .. Len(chain) : chain2[i + 1] = chain[i]
  OBVIOUS
<1> HIDE DEF chain2
<1>2. /\ ChainMacs(chain2) \in Seq(Mac) /\ Len(ChainMacs(chain2)) = Len(chain2)
      /\ \A i \in 1 .. Len(chain2) : ChainMacs(chain2)[i] = chain2[i].mac
  BY <1>1, ChainMacsOK
<1>3. /\ Len(ChainMacs(chain)) = Len(chain)
      /\ \A i \in 1 .. Len(chain) : ChainMacs(chain)[i] = chain[i].mac
  BY ChainMacsOK
<1>4. InsertedAt(ChainMacs(chain2), ChainMacs(chain), 1)
  BY <1>1, <1>2, <1>3 DEF InsertedAt
<1> QED BY <1>1, <1>2, <1>4 DEF chain2

\* The MAC of the inserted entry goes behind the others in the MAC bucket.
LEMMA InsertBucket ==
  ASSUME NEW chain \in Seq(Entry), NEW e \in Entry, NEW macs, macs = ReversedMacs(chain)
  PROVE  /\ macs \in Seq(Mac) /\ Len(macs) = Len(chain)
         /\ StoreMac(macs, Len(macs) + 1, Len(chain), e.mac) = ReversedMacs(<< e >> \o chain)
         /\ StoreMac(macs, Len(macs) + 1, Len(chain), e.mac) \in Seq(Mac)
         /\ InsertedAt(StoreMac(macs, Len(macs) + 1, Len(chain), e.mac), macs, Len(chain) + 1)
<1> DEFINE chain2 == << e >> \o chain
<1> DEFINE n == Len(chain)
<1> DEFINE m2 == StoreMac(macs, n + 1, n, e.mac)
<1> DEFINE r2 == ReversedMacs(chain2)
<1>1. /\ chain2 \in Seq(Entry) /\ Len(chain2) = n + 1 /\ n \in Nat /\ chain2[1] = e
      /\ \A i \in 1 .. n : chain2[i + 1] = chain[i]
  OBVIOUS
<1> HIDE DEF chain2
<1>2. chain \in Seq(Entry) /\ Len(chain) = n
  OBVIOUS
<1> HIDE DEF n
<1>4. /\ macs \in Seq(Mac) /\ Len(macs) = n
      /\ \A i \in 1 .. n : macs[i] = chain[(n - i) + 1].mac
  BY <1>2, ReversedOK
<1>5. /\ r2 \in Seq(Mac) /\ Len(r2) = n + 1
      /\ \A i \in 1 .. (n + 1) : r2[i] = chain2[((n + 1) - i) + 1].mac
  BY <1>1, ReversedOK, Zenon
<1>6. /\ e.mac \in Mac /\ n \in 0 .. ((n + 1) - 1) /\ n + 1 \in Nat
      /\ \A i \in 1 .. (n + 1) : i # n + 1 => i <= Len(macs)
  BY <1>1, <1>4 DEF Entry
<1>7. /\ m2 \in Seq(Mac) /\ Len(m2) = n + 1
      /\ \A i \in 1 .. (n + 1) : m2[i] = IF i = n + 1 THEN e.mac ELSE macs[i]
  <2> DEFINE size == n + 1
  <2>1. /\ macs \in Seq(Mac) /\ e.mac \in Mac /\ size \in Nat /\ n \in 0 .. (size - 1)
        /\ \A i \in 1 .. size : i # n + 1 => i <= Len(macs)
    BY <1>4, <1>6, Zenon
  <2> HIDE DEF size
  <2>2. LET s == StoreMac(macs, size, n, e.mac)
        IN  /\ s \in Seq(Mac) /\ Len(s) = size
            /\ \A i \in 1 .. size : s[i] = IF i = n + 1 THEN e.mac ELSE macs[i]
    BY <2>1, StoreMacOK
  <2> QED BY <2>2, Zenon DEF size
<1> HIDE DEF r2, m2
<1>8. ASSUME NEW i \in 1 .. (n + 1) PROVE m2[i] = r2[i]
  <2>1. r2[i] = chain2[((n + 1) - i) + 1].mac
    BY <1>5
  <2>2. CASE i = n + 1
    <3>1. ((n + 1) - i) + 1 = 1
      BY <1>1, <2>2
    <3>2. m2[i] = e.mac
      BY <1>7, <2>2, Zenon
    <3> QED BY <1>1, <2>1, <3>1, <3>2, Zenon
  <2>3. CASE i # n + 1
    <3>1. (n - i) + 1 \in 1 .. n /\ ((n - i) + 1) + 1 = ((n + 1) - i) + 1 /\ i \in 1 .. n
      BY <1>1, <2>3
    <3>2. m2[i] = chain[(n - i) + 1].mac
      BY <1>4, <1>7, <2>3, <3>1, Zenon
    <3> QED BY <1>1, <2>1, <3>1, <3>2
  <2> QED BY <2>2, <2>3
<1>9. m2 = r2
  <2>1. Len(m2) = Len(r2) /\ \A i \in 1 .. Len(m2) : m2[i] = r2[i]
    BY <1>5, <1>7, <1>8
  <2> QED BY <1>5, <1>7, <2>1, SameSequence
<1>10. InsertedAt(m2, macs, n + 1)
  BY <1>1, <1>4, <1>7 DEF InsertedAt
<1> QED BY <1>4, <1>7, <1>9, <1>10 DEF chain2, n, m2, r2

\* An entry of a chain rewritten in place.
LEMMA UpdateMacs ==
  ASSUME NEW chain \in Seq(Entry), NEW e \in Entry, NEW p \in 1 .. Len(chain)
  PROVE  /\ [chain EXCEPT ![p] = e] \in Seq(Entry)
         /\ ChainMacs([chain EXCEPT ![p] = e]) \in Seq(Mac)
         /\ ReplacedAt(ChainMacs([chain EXCEPT ![p] = e]), ChainMacs(chain), p, chain[p].mac)
<1> DEFINE chain2 == [chain EXCEPT ![p] = e]
<1>1. /\ chain2 \in Seq(Entry) /\ Len(chain2) = Len(chain) /\ Len(chain) \in Nat
      /\ \A i \in 1 .. Len(chain) : i # p => chain2[i] = chain[i]
  OBVIOUS
<1> HIDE DEF chain2
<1>2. /\ ChainMacs(chain2) \in Seq(Mac) /\ Len(ChainMacs(chain2)) = Len(chain2)
      /\ \A i \in 1 .. Len(chain2) : ChainMacs(chain2)[i] = chain2[i].mac
  BY <1>1, ChainMacsOK
<1>3. /\ Len(ChainMacs(chain)) = Len(chain)
      /\ \A i \in 1 .. Len(chain) : ChainMacs(chain)[i] = chain[i].mac
  BY ChainMacsOK
<1>4. ReplacedAt(ChainMacs(chain2), ChainMacs(chain), p, chain[p].mac)
  BY <1>1, <1>2, <1>3 DEF ReplacedAt
<1> QED BY <1>1, <1>2, <1>4 DEF chain2

\* ht_set_o stores the MAC of the updated entry where its old MAC is.
LEMMA UpdateBucket ==
  ASSUME NEW chain \in Seq(Entry), NEW e \in Entry, NEW macs, macs = ReversedMacs(chain),
         NEW kv_pos \in Nat, kv_pos < Len(chain)
  PROVE  LET m2 == StoreMac(macs, Len(macs), update_pos(Len(macs), kv_pos), e.mac)
         IN  /\ macs \in Seq(Mac) /\ Len(macs) = Len(chain)
             /\ m2 = ReversedMacs([chain EXCEPT ![kv_pos + 1] = e])
             /\ m2 \in Seq(Mac) /\ Len(m2) = Len(chain)
             /\ ReplacedAt(m2, macs, Len(chain) - kv_pos, chain[kv_pos + 1].mac)
<1> DEFINE chain2 == [chain EXCEPT ![kv_pos + 1] = e]
<1> DEFINE n == Len(chain)
<1> DEFINE pos == n - kv_pos - 1
<1> DEFINE m2 == StoreMac(macs, n, pos, e.mac)
<1> DEFINE r2 == ReversedMacs(chain2)
<1>1. /\ chain2 \in Seq(Entry) /\ Len(chain2) = n /\ n \in Nat /\ chain2[kv_pos + 1] = e
      /\ \A i \in 1 .. n : i # kv_pos + 1 => chain2[i] = chain[i]
  OBVIOUS
<1> HIDE DEF chain2
<1>0. kv_pos < n /\ chain \in Seq(Entry) /\ Len(chain) = n
  OBVIOUS
<1> HIDE DEF n
<1>4. /\ macs \in Seq(Mac) /\ Len(macs) = n
      /\ \A i \in 1 .. n : macs[i] = chain[(n - i) + 1].mac
  BY <1>0, ReversedOK, Zenon
<1>5. /\ r2 \in Seq(Mac) /\ Len(r2) = n
      /\ \A i \in 1 .. n : r2[i] = chain2[(n - i) + 1].mac
  BY <1>1, ReversedOK
<1>6. /\ e.mac \in Mac /\ pos \in 0 .. (n - 1) /\ pos + 1 = n - kv_pos
      /\ \A i \in 1 .. n : i # pos + 1 => i <= Len(macs)
  BY <1>0, <1>1, <1>4 DEF Entry
<1> HIDE DEF pos
<1>7. /\ m2 \in Seq(Mac) /\ Len(m2) = n
      /\ \A i \in 1 .. n : m2[i] = IF i = pos + 1 THEN e.mac ELSE macs[i]
  <2>1. macs \in Seq(Mac) /\ n \in Nat
    BY <1>1, <1>4
  <2> QED BY <1>6, <2>1, StoreMacOK, SMTT(30)
<1> HIDE DEF r2, m2
<1>8. ASSUME NEW i \in 1 .. n PROVE m2[i] = r2[i]
  <2>0. (n - i) + 1 \in 1 .. n
    BY <1>1
  <2>1. r2[i] = chain2[(n - i) + 1].mac
    BY <1>5, <2>0
  <2>2. CASE i = pos + 1
    <3>1. (n - i) + 1 = kv_pos + 1
      BY <1>1, <1>6, <2>2
    <3> QED BY <1>1, <1>7, <2>1, <2>2, <3>1
  <2>3. CASE i # pos + 1
    <3>1. (n - i) + 1 # kv_pos + 1
      BY <1>1, <1>6, <2>3
    <3>2. m2[i] = chain[(n - i) + 1].mac
      BY <1>4, <1>7, <2>3, <2>0
    <3> QED BY <1>1, <2>0, <2>1, <3>1, <3>2
  <2> QED BY <2>2, <2>3
<1>9. m2 = r2
  <2>1. Len(m2) = Len(r2) /\ \A i \in 1 .. Len(m2) : m2[i] = r2[i]
    BY <1>5, <1>7, <1>8
  <2> QED BY <1>5, <1>7, <2>1, SameSequence
<1>10. ReplacedAt(m2, macs, pos + 1, chain[kv_pos + 1].mac)
  <2>1. pos + 1 \in 1 .. n /\ (n - (pos + 1)) + 1 = kv_pos + 1 /\ kv_pos + 1 \in 1 .. n
    BY <1>0, <1>1, <1>6
  <2>2. macs[pos + 1] = chain[kv_pos + 1].mac
    BY <1>4, <2>1
  <2> QED BY <1>4, <1>7, <2>1, <2>2 DEF ReplacedAt
<1>11. update_pos(n, kv_pos) = pos
  BY DEF update_pos, pos
<1> QED BY <1>4, <1>6, <1>7, <1>9, <1>10, <1>11 DEF chain2, n, m2, r2

-----------------------------------------------------------------------------
(***************************************************************************)
(* The steps that check a root, or write memory and roots.                  *)
(***************************************************************************)

\* Before its write, a worker's root covers the memory: nobody else uses it.
LEMMA RootClean ==
  ASSUME IInv, NEW w \in Workers, pc[w] \in {"write", "verify"}
  PROVE  MACTable[root_index(bucket(w))] = RootOf(aggregate_mac(Macs, bucket(w)))
<1>1. bucket(w) \in Buckets
  BY BucketOK
<1>2. ~RootBusy(root_index(bucket(w)))
  <2> SUFFICES ASSUME NEW x \in Workers, pc[x] = "rebuild",
                      root_index(bucket(x)) = root_index(bucket(w))
               PROVE  FALSE
    BY DEF RootBusy
  <2> QED BY RootOwner
<1> QED BY <1>1, <1>2 DEF IInv, RootsCoverMemory

\* The MACs the code gathers are those of the chains.
LEMMA MacsOK ==
  ASSUME IInv
  PROVE  /\ MacSeqs(Macs, Mac)
         /\ \A b \in Buckets : Len(Macs[b]) = Len(table[b])
<1>1. ASSUME NEW b \in Buckets PROVE Macs[b] \in Seq(Mac) /\ Len(Macs[b]) = Len(table[b])
  <2>1. table[b] \in Seq(Entry) /\ macbuf[b] \in Seq(Mac)
    BY DEF IInv, TypeOK
  <2>2. ChainMacs(table[b]) \in Seq(Mac) /\ Len(ChainMacs(table[b])) = Len(table[b])
    BY <2>1, ChainMacsOK
  <2>3. Len(ReversedMacs(table[b])) = Len(table[b])
    BY <2>1, ReversedOK
  <2>4. MacOpt => macbuf[b] = ReversedMacs(table[b])
    BY DEF IInv, MacBucketReversed
  <2>5. Macs[b] = IF MacOpt THEN macbuf[b] ELSE ChainMacs(table[b])
    BY DEF Macs
  <2> QED BY <2>1, <2>2, <2>3, <2>4, <2>5
<1> QED BY <1>1 DEF MacSeqs

\* The check of enclave_get keeps the invariant, and raises no alarm.
LEMMA VerifyStep ==
  ASSUME IInv, NEW w \in Workers, VerifyTreeRoot(w)
  PROVE  IInv'
<1> DEFINE b == bucket(w)
<1> DEFINE reply == [kind |-> "value", body |-> loc[w].found[1].cipher.val]
<1>1. /\ pc[w] = "verify"
      /\ alarm' = (alarm \/ CMac(aggregate_mac(Macs, b)) # MACTable[root_index(b)])
      /\ buf' = [buf EXCEPT ![w] = reply]
      /\ pc' = [pc EXCEPT ![w] = "reply"]
      /\ UNCHANGED << table, macbuf, MACTable, job, loc >>
  BY DEF VerifyTreeRoot
<1>2. b \in Buckets
  BY <1>1, BucketOK, Zenon
<1>3. loc[w].found # << >> /\ loc[w].kv_pos < Len(table[b]) /\ loc[w].kv_pos \in Nat
  BY <1>1, Zenon DEF IInv, StageOK, StageAt, LookupStillValid, LookupHolds, TypeOK
<1>4. MACTable[root_index(b)] = RootOf(aggregate_mac(Macs, b))
  BY <1>1, RootClean
<1>5. Macs[b] # << >> /\ MacSeqs(Macs, Mac)
  <2>1. Len(Macs[b]) = Len(table[b]) /\ table[b] \in Seq(Entry)
    BY <1>2, MacsOK DEF IInv, TypeOK
  <2>2. Len(table[b]) # 0
    BY <1>3, <2>1
  <2> QED BY <2>1, <2>2, MacsOK, Zenon
<1>6. aggregate_mac(Macs, b) # << >>
  BY <1>2, <1>5, AggregateNonEmpty
<1>7. ~alarm' /\ alarm' \in BOOLEAN
  <2>1. MACTable[root_index(b)] = CMac(aggregate_mac(Macs, b))
    BY <1>4, <1>6 DEF RootOf
  <2>2. alarm = FALSE
    BY DEF IInv, NoFalseAlarm, TypeOK
  <2>3. alarm' = FALSE
    BY <1>1, <2>1, <2>2, Zenon
  <2> QED BY <2>3, Zenon
<1>8. reply \in [kind : {"value"}, body : Seq(Chunks)]
  <2>1. loc[w].found \in Seq(Entry)
    BY DEF IInv, TypeOK
  <2>2. loc[w].found[1] \in Entry
    BY <1>3, <2>1
  <2>3. loc[w].found[1].cipher.val \in Seq(Chunks)
    BY <2>2, Zenon DEF Entry, Cipher
  <2> QED BY <2>3
<1> HIDE DEF reply
<1>9. TypeOK'
  BY <1>1, <1>7, <1>8, Zenon DEF IInv, TypeOK
<1>10. pc'[w] = "reply" /\ job'[w] = job[w] /\ bucket(w)' = bucket(w)
  BY <1>1 DEF IInv, TypeOK, bucket
<1>11. JobAt(w)' /\ StageAt(w)'
  BY <1>1, <1>10, BucketOK, Zenon DEF JobAt, StageAt
<1>12. \A x \in Workers \ {w} : pc'[x] = pc[x] /\ job'[x] = job[x] /\ loc'[x] = loc[x]
  BY <1>1 DEF IInv, TypeOK
<1> QED BY <1>1, <1>7, <1>9, <1>10, <1>11, <1>12, LocalStep, Zenon

\* enclave_rebuild_tree_root leaves a root that covers the memory again.
LEMMA RebuildStep ==
  ASSUME IInv, NEW w \in Workers, RebuildTreeRoot(w)
  PROVE  IInv'
<1> DEFINE b == bucket(w)
<1> DEFINE g == root_index(b)
<1> DEFINE reply == [kind |-> "key", body |-> job[w].key]
<1>0. pc[w] = "rebuild" /\ RebuildAt(w)
  BY DEF RebuildTreeRoot, IInv, RebuildOK
<1>1. /\ MACTable' = [MACTable EXCEPT ![g] = CMac(aggregate_mac(Macs, b))]
      /\ alarm' = alarm
      /\ buf' = [buf EXCEPT ![w] = reply]
      /\ pc' = [pc EXCEPT ![w] = "reply"]
      /\ UNCHANGED << table, macbuf, job, loc >>
  <2>1. PrevVerifies(w)
    BY <1>0 DEF RebuildAt
  <2>2. alarm \in BOOLEAN
    BY DEF IInv, TypeOK
  <2> QED BY <2>1, <2>2 DEF RebuildTreeRoot
<1>2. b \in Buckets /\ g \in Roots /\ job[w] \in Requests /\ job[w].key \in Keys /\ thread_id(b) = w
  BY <1>0, BucketOK, Zenon
<1>3. MacSeqs(Macs, Mac) /\ Macs' = Macs
  BY <1>1, MacsOK DEF Macs
<1> DEFINE agg == aggregate_mac(Macs, b)
<1>4. agg # << >> /\ agg \in Seq(Mac)
  <2>1. agg # << >>
    BY <1>0, <1>2, <1>3, AggregateNonEmpty DEF RebuildAt
  <2>2. ratio_root_per_buckets \in 0 .. ratio_root_per_buckets
    BY <1>2, Group
  <2>3. agg \in Seq(Mac)
    BY <1>2, <1>3, <2>2, PrefixType DEF aggregate_mac
  <2> QED BY <2>1, <2>3
<1>5. reply \in [kind : {"key", "echo"}, body : Keys]
  BY <1>2, Zenon
<1> HIDE DEF reply
<1>6. TypeOK'
  <2> DEFINE S == Seq(Seq(Mac))
  <2>1. CMac(agg) \in S
    BY <1>4 DEF CMac
  <2>2. MACTable \in [Roots -> S]
    BY DEF IInv, TypeOK
  <2> HIDE DEF agg, S
  <2>3. MACTable' = [MACTable EXCEPT ![g] = CMac(agg)]
    BY <1>1 DEF agg
  <2> DEFINE c == CMac(agg)
  <2>4. MACTable' = [MACTable EXCEPT ![g] = c] /\ c \in S
    BY <2>1, <2>3
  <2> HIDE DEF c, g
  <2>5. MACTable' \in [Roots -> S]
    BY <2>2, <2>4, ZenonT(30)
  <2> QED BY <1>1, <1>5, <2>5, Zenon DEF IInv, TypeOK, S
<1>7. /\ pc'[w] = "reply" /\ \A x \in Workers \ {w} : pc'[x] = pc[x]
      /\ job' = job /\ loc' = loc /\ table' = table /\ macbuf' = macbuf
      /\ \A x \in Workers : bucket(x)' = bucket(x)
  BY <1>1, ZenonT(30) DEF IInv, TypeOK, bucket
<1>8. JobOK' /\ StageOK' /\ LookupStillValid'
  BY <1>2, <1>7 DEF IInv, JobOK, JobAt, StageOK, StageAt, LookupStillValid, LookupHolds
<1>9. EntriesOK' /\ OneEntryPerKey' /\ MacBucketReversed' /\ NoFalseAlarm'
  <2>1. EntriesOK'
    BY <1>7, Zenon DEF IInv, EntriesOK
  <2>2. OneEntryPerKey'
    <3>1. OneEntryPerKey /\ table' = table
      BY <1>7, Zenon DEF IInv
    <3> QED BY <3>1, SMT DEF OneEntryPerKey
  <2>3. MacBucketReversed'
    BY <1>7, Zenon DEF IInv, MacBucketReversed
  <2>4. NoFalseAlarm'
    BY <1>1, Zenon DEF IInv, NoFalseAlarm
  <2> QED BY <2>1, <2>2, <2>3, <2>4
<1>10. /\ MACTable'[g] = CMac(agg)
       /\ \A h \in Buckets : root_index(h) # g => MACTable'[root_index(h)] = MACTable[root_index(h)]
  <2>1. \A h \in Buckets : root_index(h) \in Roots
    BY LayoutFacts, Zenon
  <2> HIDE DEF agg
  <2>2. MACTable' = [MACTable EXCEPT ![g] = CMac(agg)] /\ MACTable \in [Roots -> Seq(Seq(Mac))]
    BY <1>1, ZenonT(30) DEF agg, IInv, TypeOK
  <2> QED BY <1>2, <2>1, <2>2
<1>11. RebuildOK'
  <2> SUFFICES ASSUME NEW x \in Workers, pc'[x] = "rebuild" PROVE RebuildAt(x)'
    BY DEF RebuildOK
  <2>1. x # w /\ pc[x] = "rebuild"
    BY <1>7, Zenon
  <2>2. root_index(bucket(x)) # g /\ bucket(x) \in Buckets
    BY <1>0, <2>1, RootOwner, BucketOK, Zenon
  <2>3. MACTable'[root_index(bucket(x))] = MACTable[root_index(bucket(x))]
    BY <1>10, <2>2
  <2>4. RebuildAt(x)
    BY <2>1 DEF IInv, RebuildOK
  <2> QED BY <1>3, <1>7, <2>3, <2>4, Zenon DEF RebuildAt, PrevVerifies
<1>12. RootsCoverMemory'
  <2> SUFFICES ASSUME NEW h \in Buckets, ~RootBusy(root_index(h))'
               PROVE  MACTable'[root_index(h)] = RootOf(aggregate_mac(Macs', h))
    BY DEF RootsCoverMemory
  <2>1. CASE root_index(h) = g
    <3>1. start_index(h) = start_index(b)
      BY <2>1 DEF start_index
    <3>2. aggregate_mac(Macs', h) = agg
      BY <1>3, <3>1, Zenon DEF aggregate_mac
    <3> QED BY <1>4, <1>10, <2>1, <3>2 DEF RootOf
  <2>2. CASE root_index(h) # g
    <3>1. ~RootBusy(root_index(h))
      BY <1>7, <2>2 DEF RootBusy
    <3>2. MACTable[root_index(h)] = RootOf(aggregate_mac(Macs, h))
      BY <3>1 DEF IInv, RootsCoverMemory
    <3> QED BY <1>3, <1>10, <2>2, <3>2, Zenon
  <2> QED BY <2>1, <2>2
<1> QED BY <1>6, <1>8, <1>9, <1>11, <1>12 DEF IInv
(***************************************************************************)
(* ht_set_o and ht_append_o: one chain and its MAC bucket change.           *)
(***************************************************************************)

\* What SetUpdate, SetInsert and AppendEntry do, given the new chain and MACs.
Written(w, chain, macs) ==
  /\ pc[w] = "write"
  /\ table' = [table EXCEPT ![bucket(w)] = chain]
  /\ macbuf' = [macbuf EXCEPT ![bucket(w)] = macs]
  /\ pc' = [pc EXCEPT ![w] = "rebuild"]
  /\ UNCHANGED << MACTable, job, loc, buf, alarm >>

\* A chain and a MAC bucket that may stand in bucket b.
Wellformed(b, chain, macs) ==
  /\ chain \in Seq(Entry)
  /\ macs \in Seq(Mac)
  /\ \A i \in DOMAIN chain : EntryOK(chain[i]) /\ HtHash[chain[i].cipher.key] = b
  /\ \A i, j \in DOMAIN chain : chain[i].cipher.key = chain[j].cipher.key => i = j
  /\ MacOpt => macs = ReversedMacs(chain)

\* The MACs enclave_rebuild_tree_root gathers from such a bucket.
BucketMacs(chain, macs) == IF MacOpt THEN macs ELSE ChainMacs(chain)

\* Under the invariant every bucket is well formed.
LEMMA WellformedBefore ==
  ASSUME IInv, NEW b \in Buckets
  PROVE  /\ Wellformed(b, table[b], macbuf[b])
         /\ Macs[b] = BucketMacs(table[b], macbuf[b])
<1>1. table[b] \in Seq(Entry) /\ macbuf[b] \in Seq(Mac)
  BY DEF IInv, TypeOK
<1>2. \A i \in DOMAIN table[b] : EntryOK(table[b][i])
  BY Zenon DEF IInv, EntriesOK
<1>3. /\ \A i \in DOMAIN table[b] : HtHash[table[b][i].cipher.key] = b
      /\ \A i, j \in DOMAIN table[b] : table[b][i].cipher.key = table[b][j].cipher.key => i = j
  BY DEF IInv, OneEntryPerKey
<1>4. MacOpt => macbuf[b] = ReversedMacs(table[b])
  BY Zenon DEF IInv, MacBucketReversed
<1>5. Macs[b] = BucketMacs(table[b], macbuf[b])
  BY DEF Macs, BucketMacs
<1> QED BY <1>1, <1>2, <1>3, <1>4, <1>5, Zenon DEF Wellformed

\* A write replaces one bucket by a well-formed one and keeps the types.
LEMMA WriteMemory ==
  ASSUME IInv, NEW w \in Workers, NEW chain, NEW macs,
         Written(w, chain, macs), Wellformed(bucket(w), chain, macs)
  PROVE  /\ TypeOK'
         /\ table'[bucket(w)] = chain /\ macbuf'[bucket(w)] = macs
         /\ \A c \in Buckets : c # bucket(w) => table'[c] = table[c] /\ macbuf'[c] = macbuf[c]
<1> DEFINE b == bucket(w)
<1>1. b \in Buckets
  BY BucketOK DEF Written
<1>2. chain \in Seq(Entry) /\ macs \in Seq(Mac)
  BY DEF Wellformed
<1>3. table' = [table EXCEPT ![b] = chain] /\ macbuf' = [macbuf EXCEPT ![b] = macs]
  BY Zenon DEF Written
<1> HIDE DEF b
<1>4. table \in [Buckets -> Seq(Entry)] /\ macbuf \in [Buckets -> Seq(Mac)]
  BY Zenon DEF IInv, TypeOK
<1>5. table' \in [Buckets -> Seq(Entry)] /\ macbuf' \in [Buckets -> Seq(Mac)]
  BY <1>1, <1>2, <1>3, <1>4
<1>6. /\ table'[b] = chain /\ macbuf'[b] = macs
      /\ \A c \in Buckets : c # b => table'[c] = table[c] /\ macbuf'[c] = macbuf[c]
  BY <1>1, <1>3, <1>4
<1>7. TypeOK'
  <2>1. pc' \in [Workers -> {"idle", "lookup", "verify", "write", "rebuild", "reply"}]
    BY DEF IInv, TypeOK, Written
  <2>2. MACTable' = MACTable /\ job' = job /\ loc' = loc /\ buf' = buf /\ alarm' = alarm
    BY Zenon DEF Written
  <2> QED BY <1>5, <2>1, <2>2, ZenonT(30) DEF IInv, TypeOK
<1> QED BY <1>6, <1>7, Zenon DEF b

\* A write changes the MACs of its bucket only.
LEMMA WriteMacs ==
  ASSUME IInv, NEW w \in Workers, NEW chain, NEW macs,
         Written(w, chain, macs), Wellformed(bucket(w), chain, macs)
  PROVE  /\ Macs'[bucket(w)] = BucketMacs(chain, macs)
         /\ \A c \in Buckets : c # bucket(w) => Macs'[c] = Macs[c]
         /\ MacSeqs(Macs', Mac)
<1> DEFINE b == bucket(w)
<1>1. b \in Buckets
  BY BucketOK DEF Written
<1>2. /\ table'[b] = chain /\ macbuf'[b] = macs
      /\ \A c \in Buckets : c # b => table'[c] = table[c] /\ macbuf'[c] = macbuf[c]
  BY WriteMemory, Zenon
<1> HIDE DEF b
<1>3. Macs'[b] = BucketMacs(chain, macs) /\ \A c \in Buckets : c # b => Macs'[c] = Macs[c]
  BY <1>1, <1>2, Zenon DEF Macs, BucketMacs
<1>4. BucketMacs(chain, macs) \in Seq(Mac)
  <2>1. chain \in Seq(Entry) /\ macs \in Seq(Mac)
    BY DEF Wellformed
  <2> QED BY <2>1, ChainMacsOK DEF BucketMacs
<1>5. \A c \in Buckets : Macs[c] \in Seq(Mac)
  BY MacsOK DEF MacSeqs
<1>6. MacSeqs(Macs', Mac)
  BY <1>3, <1>4, <1>5 DEF MacSeqs
<1> QED BY <1>3, <1>6 DEF b

\* A write moves its worker on to the rebuild and no other worker.
LEMMA WriteControl ==
  ASSUME IInv, NEW w \in Workers, NEW chain, NEW macs, Written(w, chain, macs)
  PROVE  /\ pc[w] = "write" /\ pc'[w] = "rebuild"
         /\ \A x \in Workers : x # w => pc'[x] = pc[x]
         /\ \A x \in Workers : bucket(x)' = bucket(x)
         /\ MACTable' = MACTable /\ job' = job /\ loc' = loc /\ alarm' = alarm
<1>1. /\ pc[w] = "write" /\ pc' = [pc EXCEPT ![w] = "rebuild"]
      /\ MACTable' = MACTable /\ job' = job /\ loc' = loc /\ alarm' = alarm
  BY DEF Written
<1>2. pc \in [Workers -> {"idle", "lookup", "verify", "write", "rebuild", "reply"}]
  BY DEF IInv, TypeOK
<1>3. pc'[w] = "rebuild" /\ \A x \in Workers : x # w => pc'[x] = pc[x]
  BY <1>1, <1>2
<1>4. \A x \in Workers : bucket(x)' = bucket(x)
  BY <1>1, Zenon DEF bucket
<1> QED BY <1>1, <1>3, <1>4

\* A write that leaves its bucket well formed and its rebuild prepared keeps the invariant.
LEMMA WriteStep ==
  ASSUME IInv, NEW w \in Workers, NEW chain, NEW macs,
         Written(w, chain, macs), Wellformed(bucket(w), chain, macs), RebuildAt(w)'
  PROVE  IInv'
<1> DEFINE b == bucket(w)
<1>1. b \in Buckets
  BY BucketOK DEF Written
<1>2. /\ pc[w] = "write" /\ pc'[w] = "rebuild"
      /\ \A x \in Workers : x # w => pc'[x] = pc[x]
      /\ \A x \in Workers : bucket(x)' = bucket(x)
      /\ MACTable' = MACTable /\ job' = job /\ loc' = loc /\ alarm' = alarm
  BY WriteControl, Zenon
<1>3. /\ TypeOK'
      /\ table'[b] = chain /\ macbuf'[b] = macs
      /\ \A c \in Buckets : c # b => table'[c] = table[c] /\ macbuf'[c] = macbuf[c]
  BY WriteMemory, Zenon
<1>4. \A c \in Buckets : c # b => Macs'[c] = Macs[c]
  BY WriteMacs, ZenonT(30)
<1>5. ASSUME NEW x \in Workers, x # w, pc[x] # "idle"
      PROVE  /\ bucket(x) \in Buckets /\ bucket(x) # b /\ root_index(bucket(x)) # root_index(b)
  BY <1>2, <1>5, RootOwner, BucketOK, Zenon
<1> HIDE DEF b
<1>6. JobOK' /\ StageOK'
  <2> SUFFICES ASSUME NEW x \in Workers PROVE JobAt(x)' /\ StageAt(x)'
    BY Zenon DEF JobOK, StageOK
  <2>1. JobAt(x) /\ StageAt(x) /\ StageAt(w)
    BY Zenon DEF IInv, JobOK, StageOK
  <2>2. JobAt(x)'
    BY <1>2, <2>1, Zenon DEF JobAt
  <2>3. StageAt(x)'
    BY <1>2, <2>1 DEF StageAt
  <2> QED BY <2>2, <2>3
<1>7. NoFalseAlarm'
  BY <1>2, Zenon DEF IInv, NoFalseAlarm
<1>8. ASSUME NEW c \in Buckets PROVE Wellformed(c, table'[c], macbuf'[c])
  <2>1. CASE c = b
    BY <1>3, <2>1, Zenon DEF b
  <2>2. CASE c # b
    BY <1>3, <2>2, WellformedBefore, Zenon
  <2> QED BY <2>1, <2>2
<1>9. EntriesOK'
  BY <1>8, Zenon DEF EntriesOK, Wellformed
<1>10. OneEntryPerKey'
  BY <1>8, Zenon DEF OneEntryPerKey, Wellformed
<1>11. MacBucketReversed'
  BY <1>8, ZenonT(30) DEF MacBucketReversed, Wellformed
<1>12. LookupStillValid'
  <2> SUFFICES ASSUME NEW x \in Workers, pc'[x] \in {"write", "verify"} PROVE LookupHolds(x)'
    BY Zenon DEF LookupStillValid
  <2>1. x # w /\ pc[x] \in {"write", "verify"}
    BY <1>2, Zenon
  <2>2. table'[bucket(x)] = table[bucket(x)]
    BY <1>3, <1>5, <2>1, Zenon
  <2>3. LookupHolds(x)
    BY <2>1, Zenon DEF IInv, LookupStillValid
  <2> QED BY <1>2, <2>2, <2>3, Zenon DEF LookupHolds
<1>13. RebuildOK'
  <2> SUFFICES ASSUME NEW x \in Workers, pc'[x] = "rebuild", x # w PROVE RebuildAt(x)'
    BY Zenon DEF RebuildOK
  <2>1. pc[x] = "rebuild"
    BY <1>2, Zenon
  <2>2. bucket(x) \in Buckets /\ bucket(x) # b /\ root_index(bucket(x)) # root_index(b)
    BY <1>5, <2>1
  <2>3. \A c \in Buckets : root_index(c) = root_index(bucket(x)) => Macs[c] = Macs'[c]
    BY <1>4, <2>2, Zenon
  <2>4. RebuildAt(x)
    BY <2>1, Zenon DEF IInv, RebuildOK
  <2>5. Macs'[bucket(x)] # << >>
    BY <1>4, <2>2, <2>4, Zenon DEF RebuildAt
  <2> DEFINE root == MACTable[root_index(bucket(x))]
  <2>6. /\ InsertVerifies(Macs, root, bucket(x), loc[x].kv_pos)
             => InsertVerifies(Macs', root, bucket(x), loc[x].kv_pos)
        /\ UpdateVerifies(Macs, root, bucket(x), loc[x].kv_pos, loc[x].found[1].mac)
             => UpdateVerifies(Macs', root, bucket(x), loc[x].kv_pos, loc[x].found[1].mac)
    BY <2>2, <2>3, VerifiesLocal, Zenon
  <2>7. PrevVerifies(x)'
    BY <1>2, <2>4, <2>6, Zenon DEF RebuildAt, PrevVerifies
  <2> QED BY <1>2, <2>5, <2>7, Zenon DEF RebuildAt
<1>14. RootsCoverMemory'
  <2> SUFFICES ASSUME NEW h \in Buckets, ~RootBusy(root_index(h))'
               PROVE  MACTable[root_index(h)] = RootOf(aggregate_mac(Macs', h))
    BY <1>2, Zenon DEF RootsCoverMemory
  <2>1. root_index(h) # root_index(b)
    BY <1>2, Zenon DEF RootBusy, b
  <2>2. ~RootBusy(root_index(h))
    <3> SUFFICES ASSUME NEW x \in Workers, pc[x] = "rebuild", root_index(bucket(x)) = root_index(h)
                 PROVE  FALSE
      BY Zenon DEF RootBusy
    <3>1. x # w /\ pc'[x] = "rebuild"
      BY <1>2
    <3> QED BY <1>2, <3>1, Zenon DEF RootBusy
  <2>3. \A c \in Buckets : root_index(c) = root_index(h) => Macs[c] = Macs'[c]
    BY <1>4, <2>1, Zenon
  <2>4. aggregate_mac(Macs, h) = aggregate_mac(Macs', h)
    BY <2>3, AggregateLocal
  <2>5. MACTable[root_index(h)] = RootOf(aggregate_mac(Macs, h))
    BY <2>2, Zenon DEF IInv, RootsCoverMemory
  <2> QED BY <2>4, <2>5, Zenon
<1> QED BY <1>3, <1>6, <1>7, <1>9, <1>10, <1>11, <1>12, <1>13, <1>14, ZenonT(30) DEF IInv

\* In the table, an entry matches exactly the key it was stored under.
LEMMA MatchesKey ==
  ASSUME NEW e, EntryOK(e), NEW k
  PROVE  Matches(e, k) <=> e.cipher.key = k
BY DEF EntryOK, Matches, DecryptsTo

\* What the worker about to write knows of its chain.
LEMMA BeforeWrite ==
  ASSUME IInv, NEW w \in Workers, pc[w] = "write"
  PROVE  /\ loc[w].kv_pos \in Nat /\ loc[w].nac \in Nac
         /\ loc[w].found = << >> =>
              /\ loc[w].kv_pos = Len(table[bucket(w)])
              /\ \A i \in DOMAIN table[bucket(w)] : table[bucket(w)][i].cipher.key # job[w].key
         /\ loc[w].found # << >> =>
              /\ loc[w].kv_pos + 1 \in DOMAIN table[bucket(w)]
              /\ loc[w].found = << table[bucket(w)][loc[w].kv_pos + 1] >>
              /\ table[bucket(w)][loc[w].kv_pos + 1].cipher.key = job[w].key
<1> DEFINE chain == table[bucket(w)]
<1> DEFINE kv_pos == loc[w].kv_pos
<1> DEFINE k == job[w].key
<1>1. bucket(w) \in Buckets
  BY BucketOK, Zenon
<1>2. chain \in Seq(Entry) /\ kv_pos \in Nat /\ loc[w].nac \in Nac
  BY <1>1 DEF IInv, TypeOK
<1>3. Len(chain) \in Nat /\ DOMAIN chain = 1 .. Len(chain)
  BY <1>2
<1>4. \A i \in 1 .. Len(chain) : EntryOK(chain[i])
  BY <1>1, <1>3, Zenon DEF IInv, EntriesOK
<1>6. /\ kv_pos = ht_get_o(chain, k)
      /\ loc[w].found = << >> => kv_pos = Len(chain)
      /\ loc[w].found # << >> => kv_pos < Len(chain) /\ loc[w].found = << chain[kv_pos + 1] >>
  BY Zenon DEF IInv, LookupStillValid, LookupHolds
<1> HIDE DEF chain, kv_pos, k
<1>7. /\ kv_pos < Len(chain) => Matches(chain[kv_pos + 1], k)
      /\ \A i \in 1 .. kv_pos : ~Matches(chain[i], k)
  BY <1>3, <1>6, GetO
<1>8. ASSUME loc[w].found = << >>, NEW i \in DOMAIN chain PROVE chain[i].cipher.key # k
  <2>1. ~Matches(chain[i], k)
    BY <1>3, <1>6, <1>7, <1>8
  <2>2. EntryOK(chain[i])
    BY <1>3, <1>4
  <2> QED BY <2>1, <2>2, MatchesKey
<1>9. ASSUME loc[w].found # << >>
      PROVE  kv_pos + 1 \in DOMAIN chain /\ chain[kv_pos + 1].cipher.key = k
  <2>1. Matches(chain[kv_pos + 1], k)
    BY <1>6, <1>7, <1>9
  <2>2. kv_pos + 1 \in 1 .. Len(chain)
    BY <1>2, <1>3, <1>6, <1>9
  <2>3. EntryOK(chain[kv_pos + 1])
    BY <1>4, <2>2
  <2> QED BY <1>3, <2>1, <2>2, <2>3, MatchesKey
<1> QED BY <1>2, <1>6, <1>8, <1>9, Zenon DEF chain, kv_pos, k

\* ht_set_o, new key: a well-formed bucket stays so.
LEMMA InsertWellformed ==
  ASSUME NEW b \in Buckets, NEW chain, NEW macs, Wellformed(b, chain, macs),
         NEW e \in Entry, EntryOK(e), HtHash[e.cipher.key] = b,
         \A i \in DOMAIN chain : chain[i].cipher.key # e.cipher.key
  PROVE  Wellformed(b, << e >> \o chain,
                    IF MacOpt THEN StoreMac(macs, Len(macs) + 1, Len(chain), e.mac) ELSE macs)
<1> DEFINE c2 == << e >> \o chain
<1> DEFINE m2 == StoreMac(macs, Len(macs) + 1, Len(chain), e.mac)
<1> DEFINE n == Len(chain)
<1>1. chain \in Seq(Entry) /\ macs \in Seq(Mac) /\ (MacOpt => macs = ReversedMacs(chain))
  BY Zenon DEF Wellformed
<1>2. /\ c2 \in Seq(Entry) /\ DOMAIN c2 = 1 .. (n + 1) /\ n \in Nat /\ DOMAIN chain = 1 .. n
      /\ c2[1] = e
  BY <1>1
<1>3. \A i \in 1 .. n : c2[i + 1] = chain[i]
  BY <1>1
<1>4. MacOpt => m2 = ReversedMacs(c2) /\ m2 \in Seq(Mac)
  BY <1>1, InsertBucket, Zenon
<1>5. \A i \in 1 .. n : EntryOK(chain[i]) /\ HtHash[chain[i].cipher.key] = b
  BY <1>2, Zenon DEF Wellformed
<1>6. \A i, j \in 1 .. n : chain[i].cipher.key = chain[j].cipher.key => i = j
  BY <1>2, Zenon DEF Wellformed
<1>7. \A i \in 1 .. n : chain[i].cipher.key # e.cipher.key
  BY <1>2, Zenon
<1> HIDE DEF c2, m2, n
<1>8. ASSUME NEW i \in 1 .. (n + 1), i # 1
      PROVE  i - 1 \in 1 .. n /\ c2[i] = chain[i - 1]
  <2>1. i - 1 \in 1 .. n /\ (i - 1) + 1 = i
    BY <1>2, <1>8
  <2> QED BY <1>3, <2>1
<1>9. ASSUME NEW i \in 1 .. (n + 1) PROVE EntryOK(c2[i]) /\ HtHash[c2[i].cipher.key] = b
  <2>1. CASE i = 1
    BY <1>2, <2>1
  <2>2. CASE i # 1
    BY <1>5, <1>8, <2>2
  <2> QED BY <2>1, <2>2
<1>10. ASSUME NEW i \in 1 .. (n + 1), NEW j \in 1 .. (n + 1), c2[i].cipher.key = c2[j].cipher.key
       PROVE  i = j
  <2>1. CASE i = 1 /\ j # 1
    BY <1>2, <1>7, <1>8, <1>10, <2>1, Zenon
  <2>2. CASE i # 1 /\ j = 1
    BY <1>2, <1>7, <1>8, <1>10, <2>2, Zenon
  <2>3. CASE i # 1 /\ j # 1
    <3>1. i - 1 = j - 1
      BY <1>6, <1>8, <1>10, <2>3
    <3> QED BY <1>2, <3>1
  <2> QED BY <2>1, <2>2, <2>3, Zenon
<1>11. Wellformed(b, c2, IF MacOpt THEN m2 ELSE macs)
  BY <1>1, <1>2, <1>4, <1>9, <1>10, Zenon DEF Wellformed
<1> QED BY <1>11 DEF c2, m2, n

\* ht_set_o and ht_append_o, stored key: a well-formed bucket stays so.
LEMMA RewriteWellformed ==
  ASSUME NEW b \in Buckets, NEW chain, NEW macs, Wellformed(b, chain, macs),
         NEW kv_pos \in Nat, kv_pos + 1 \in DOMAIN chain,
         NEW e \in Entry, EntryOK(e), e.cipher.key = chain[kv_pos + 1].cipher.key
  PROVE  Wellformed(b, [chain EXCEPT ![kv_pos + 1] = e],
                    IF MacOpt THEN StoreMac(macs, Len(macs), update_pos(Len(macs), kv_pos), e.mac)
                              ELSE macs)
<1> DEFINE c2 == [chain EXCEPT ![kv_pos + 1] = e]
<1> DEFINE m2 == StoreMac(macs, Len(macs), update_pos(Len(macs), kv_pos), e.mac)
<1>1. chain \in Seq(Entry) /\ macs \in Seq(Mac) /\ (MacOpt => macs = ReversedMacs(chain))
  BY Zenon DEF Wellformed
<1>2. c2 \in Seq(Entry) /\ DOMAIN c2 = DOMAIN chain /\ kv_pos < Len(chain)
  BY <1>1
<1>3. \A i \in DOMAIN chain : c2[i] = IF i = kv_pos + 1 THEN e ELSE chain[i]
  BY <1>1
<1>4. MacOpt => m2 = ReversedMacs(c2) /\ m2 \in Seq(Mac)
  BY <1>1, <1>2, UpdateBucket, Zenon
<1> HIDE DEF c2, m2
<1>5. \A i \in DOMAIN chain : EntryOK(c2[i]) /\ c2[i].cipher.key = chain[i].cipher.key
  BY <1>3, Zenon DEF Wellformed
<1>6. Wellformed(b, c2, IF MacOpt THEN m2 ELSE macs)
  BY <1>1, <1>2, <1>4, <1>5, Zenon DEF Wellformed
<1> QED BY <1>6 DEF c2, m2

\* After an insertion, the check of the old root will pass.
LEMMA InsertRebuild ==
  ASSUME IInv, NEW w \in Workers, NEW chain, NEW macs,
         Written(w, chain, macs), Wellformed(bucket(w), chain, macs), loc[w].found = << >>,
         InsertedAt(BucketMacs(chain, macs), Macs[bucket(w)],
                    IF MacOpt THEN loc[w].kv_pos + 1 ELSE 1),
         loc[w].kv_pos = Len(Macs[bucket(w)])
  PROVE  RebuildAt(w)'
<1> DEFINE b == bucket(w)
<1> DEFINE n == loc[w].kv_pos
<1>1. b \in Buckets /\ pc[w] = "write"
  BY BucketOK DEF Written
<1>2. bucket(w)' = b /\ loc' = loc /\ MACTable' = MACTable
  BY WriteControl, Zenon
<1>3. /\ Macs'[b] = BucketMacs(chain, macs)
      /\ \A c \in Buckets : c # b => Macs'[c] = Macs[c]
      /\ MacSeqs(Macs', Mac)
  BY WriteMacs, Zenon
<1>4. MacSeqs(Macs, Mac)
  BY MacsOK, Zenon
<1>5. InsertedAt(Macs'[b], Macs[b], IF MacOpt THEN n + 1 ELSE 1) /\ n = Len(Macs[b])
  BY <1>3, Zenon
<1>6. Macs[b] \in Seq(Mac) /\ Macs'[b] \in Seq(Mac)
  BY <1>1, <1>3, <1>4, MacSeqsAt, Zenon
<1>7. n \in Nat
  BY <1>5, <1>6, LengthIsNat, Zenon
<1>8. MACTable[root_index(b)] = RootOf(aggregate_mac(Macs, b))
  BY <1>1, RootClean, Zenon
<1> HIDE DEF b, n
<1>9. Len(Macs'[b]) = n + 1
  BY <1>5, Zenon DEF InsertedAt
<1>10. Macs'[b] # << >>
  BY <1>7, <1>9, SMTT(30)
<1> DEFINE slot == insert_slot(n, Len(Macs'[b]))
<1>11. slot = (IF MacOpt THEN n ELSE 0)
  BY <1>7, <1>9, SMTT(30) DEF insert_slot
<1> HIDE DEF slot
<1>12. slot \in Nat /\ slot + 1 = (IF MacOpt THEN n + 1 ELSE 1)
  BY <1>7, <1>11
<1>13. slot \in Nat /\ InsertedAt(Macs'[b], Macs[b], slot + 1)
  BY <1>5, <1>12, Zenon
<1>14. InsertVerifies(Macs', RootOf(aggregate_mac(Macs, b)), b, n)
  BY <1>1, <1>3, <1>4, <1>13, InsertMatches, Zenon DEF slot
<1>15. PrevVerifies(w)'
  BY <1>2, <1>8, <1>14, Zenon DEF PrevVerifies, b, n
<1> QED BY <1>2, <1>10, <1>15, ZenonT(30) DEF RebuildAt, b

\* After an update or an append, the check of the old root will pass.
LEMMA RewriteRebuild ==
  ASSUME IInv, NEW w \in Workers, NEW chain, NEW macs,
         Written(w, chain, macs), Wellformed(bucket(w), chain, macs), loc[w].found # << >>,
         loc[w].kv_pos \in Nat, loc[w].kv_pos < Len(Macs[bucket(w)]),
         ReplacedAt(BucketMacs(chain, macs), Macs[bucket(w)],
                    IF MacOpt THEN Len(Macs[bucket(w)]) - loc[w].kv_pos ELSE loc[w].kv_pos + 1,
                    loc[w].found[1].mac)
  PROVE  RebuildAt(w)'
<1> DEFINE b == bucket(w)
<1> DEFINE kv_pos == loc[w].kv_pos
<1> DEFINE old == loc[w].found[1].mac
<1> DEFINE n == Len(Macs[b])
<1>1. b \in Buckets /\ pc[w] = "write"
  BY BucketOK DEF Written
<1>2. bucket(w)' = b /\ loc' = loc /\ MACTable' = MACTable
  BY WriteControl, Zenon
<1>3. /\ Macs'[b] = BucketMacs(chain, macs)
      /\ \A c \in Buckets : c # b => Macs'[c] = Macs[c]
      /\ MacSeqs(Macs', Mac)
  BY WriteMacs, Zenon
<1>4. MacSeqs(Macs, Mac)
  BY MacsOK, Zenon
<1>5. /\ ReplacedAt(Macs'[b], Macs[b], IF MacOpt THEN n - kv_pos ELSE kv_pos + 1, old)
      /\ kv_pos \in Nat /\ kv_pos < n
  BY <1>3, Zenon
<1>6. Macs[b] \in Seq(Mac) /\ Macs'[b] \in Seq(Mac)
  BY <1>1, <1>3, <1>4, MacSeqsAt, Zenon
<1>7. n \in Nat
  BY <1>6, LengthIsNat, Zenon
<1>8. MACTable[root_index(b)] = RootOf(aggregate_mac(Macs, b))
  BY <1>1, RootClean, Zenon
<1>9. Len(Macs'[b]) = n
  BY <1>5, Zenon DEF ReplacedAt
<1> HIDE DEF b, n, kv_pos, old
<1>10. Macs'[b] # << >>
  BY <1>5, <1>7, <1>9
<1> DEFINE slot == update_slot(kv_pos, Len(Macs'[b]))
<1>11. slot = (IF MacOpt THEN n - kv_pos - 1 ELSE kv_pos)
  BY <1>9, Zenon DEF update_slot
<1> HIDE DEF slot
<1>12. slot \in Nat /\ slot + 1 = (IF MacOpt THEN n - kv_pos ELSE kv_pos + 1)
  BY <1>5, <1>7, <1>11
<1>13. slot \in Nat /\ ReplacedAt(Macs'[b], Macs[b], slot + 1, old)
  BY <1>5, <1>12, Zenon
<1>14. UpdateVerifies(Macs', RootOf(aggregate_mac(Macs, b)), b, kv_pos, old)
  BY <1>1, <1>3, <1>4, <1>13, UpdateMatches, Zenon DEF slot
<1>15. PrevVerifies(w)'
  BY <1>2, <1>8, <1>14, Zenon DEF PrevVerifies, b, kv_pos, old
<1> QED BY <1>2, <1>10, <1>15, ZenonT(30) DEF RebuildAt, b

\* A new head of the chain, as in ht_set_o.
LEMMA SetInsertStep ==
  ASSUME IInv, NEW w \in Workers, SetInsert(w)
  PROVE  IInv'
<1> DEFINE b == bucket(w)
<1> DEFINE e == NewEntry(job[w].key, << job[w].chunk >>, loc[w].nac)
<1> DEFINE chain == table[b]
<1> DEFINE macs == macbuf[b]
<1> DEFINE c2 == << e >> \o chain
<1> DEFINE m2 == IF MacOpt THEN StoreMac(macs, Len(macs) + 1, Len(chain), e.mac) ELSE macs
<1>1. pc[w] = "write" /\ loc[w].found = << >>
  BY DEF SetInsert
<1>2. b \in Buckets /\ job[w].key \in Keys /\ job[w].chunk \in Chunks
  BY <1>1, BucketOK
<1>3. /\ loc[w].nac \in Nac /\ loc[w].kv_pos = Len(chain)
      /\ \A i \in DOMAIN chain : chain[i].cipher.key # job[w].key
  BY <1>1, BeforeWrite, Zenon
<1>4. e \in Entry /\ EntryOK(e) /\ e.cipher.key = job[w].key
  <2>1. << job[w].chunk >> \in Seq(Chunks)
    BY <1>2
  <2> QED BY <1>2, <1>3, <2>1, NewEntryOK, Zenon
<1>5. Wellformed(b, chain, macs) /\ Macs[b] = BucketMacs(chain, macs)
  BY <1>2, WellformedBefore, Zenon
<1>6. Written(w, c2, m2)
  <2>1. macbuf \in [Buckets -> Seq(Mac)]
    BY Zenon DEF IInv, TypeOK
  <2>2. /\ table' = [table EXCEPT ![b] = c2]
        /\ macbuf' = IF MacOpt
                       THEN [macbuf EXCEPT ![b] = StoreMac(macs, Len(macs) + 1, loc[w].kv_pos, e.mac)]
                       ELSE macbuf
        /\ pc' = [pc EXCEPT ![w] = "rebuild"]
        /\ UNCHANGED << MACTable, job, loc, buf, alarm >>
    BY DEF SetInsert
  <2> HIDE DEF e, c2
  <2>3. macbuf' = [macbuf EXCEPT ![b] = m2]
    BY <1>2, <1>3, <2>1, <2>2, Zenon
  <2> QED BY <1>1, <2>2, <2>3, Zenon DEF Written
<1> HIDE DEF e
<1>7. HtHash[e.cipher.key] = b /\ \A i \in DOMAIN chain : chain[i].cipher.key # e.cipher.key
  BY <1>3, <1>4, Zenon DEF bucket
<1>8. Wellformed(b, c2, m2)
  BY <1>2, <1>4, <1>5, <1>7, InsertWellformed, Zenon
<1>9. chain \in Seq(Entry) /\ (MacOpt => macs = ReversedMacs(chain))
  BY <1>5, ZenonT(30) DEF Wellformed
<1>10. InsertedAt(BucketMacs(c2, m2), Macs[b], IF MacOpt THEN loc[w].kv_pos + 1 ELSE 1)
  <2>1. CASE MacOpt
    <3>1. InsertedAt(m2, macs, Len(chain) + 1)
      BY <1>4, <1>9, <2>1, InsertBucket, Zenon
    <3> QED BY <1>3, <1>5, <2>1, <3>1, Zenon DEF BucketMacs
  <2>2. CASE ~MacOpt
    <3>1. InsertedAt(ChainMacs(c2), ChainMacs(chain), 1)
      BY <1>4, <1>9, InsertMacs, Zenon
    <3> QED BY <1>5, <2>2, <3>1, Zenon DEF BucketMacs
  <2> QED BY <2>1, <2>2
<1>11. loc[w].kv_pos = Len(Macs[b])
  BY <1>2, <1>3, MacsOK, Zenon
<1>12. RebuildAt(w)'
  BY <1>1, <1>6, <1>8, <1>10, <1>11, InsertRebuild, Zenon
<1> QED BY <1>6, <1>8, <1>12, WriteStep, Zenon

\* An entry rewritten under its key, its MAC stored where ht_set_o stores it.
LEMMA RewriteStep ==
  ASSUME IInv, NEW w \in Workers, NEW e \in Entry, EntryOK(e), e.cipher.key = job[w].key,
         loc[w].found # << >>,
         NEW c2, c2 = [table[bucket(w)] EXCEPT ![loc[w].kv_pos + 1] = e],
         NEW m2, m2 = (IF MacOpt THEN StoreMac(macbuf[bucket(w)], Len(macbuf[bucket(w)]),
                                               update_pos(Len(macbuf[bucket(w)]), loc[w].kv_pos),
                                               e.mac)
                                 ELSE macbuf[bucket(w)]),
         Written(w, c2, m2)
  PROVE  IInv'
<1> DEFINE b == bucket(w)
<1> DEFINE chain == table[b]
<1> DEFINE macs == macbuf[b]
<1> DEFINE kv_pos == loc[w].kv_pos
<1>1. pc[w] = "write"
  BY Zenon DEF Written
<1>2. b \in Buckets
  BY <1>1, BucketOK, Zenon
<1>3. /\ kv_pos \in Nat /\ kv_pos + 1 \in DOMAIN chain
      /\ loc[w].found = << chain[kv_pos + 1] >> /\ chain[kv_pos + 1].cipher.key = job[w].key
  BY <1>1, BeforeWrite, Zenon
<1>4. Wellformed(b, chain, macs) /\ Macs[b] = BucketMacs(chain, macs)
  BY <1>2, WellformedBefore, Zenon
<1>5. /\ c2 = [chain EXCEPT ![kv_pos + 1] = e]
      /\ m2 = IF MacOpt THEN StoreMac(macs, Len(macs), update_pos(Len(macs), kv_pos), e.mac)
                        ELSE macs
  BY Zenon
<1> HIDE DEF kv_pos, chain, macs, b
<1> DEFINE m3 == StoreMac(macs, Len(macs), update_pos(Len(macs), kv_pos), e.mac)
<1>6. Wellformed(b, c2, m2)
  <2>1. e.cipher.key = chain[kv_pos + 1].cipher.key
    BY <1>3, Zenon
  <2>2. Wellformed(b, [chain EXCEPT ![kv_pos + 1] = e], IF MacOpt THEN m3 ELSE macs)
    BY <1>2, <1>3, <1>4, <2>1, RewriteWellformed, Zenon
  <2> QED BY <1>5, <2>2, Zenon
<1>7. chain \in Seq(Entry) /\ (MacOpt => macs = ReversedMacs(chain))
  BY <1>4, ZenonT(30) DEF Wellformed
<1>8. kv_pos + 1 \in 1 .. Len(chain) /\ kv_pos < Len(chain)
  BY <1>3, <1>7, PlaceInChain, Zenon
<1>9. Len(Macs[b]) = Len(chain)
  BY <1>2, MacsOK, ZenonT(30) DEF chain
<1>10. ReplacedAt(BucketMacs(c2, m2), Macs[b],
                  IF MacOpt THEN Len(Macs[b]) - kv_pos ELSE kv_pos + 1, chain[kv_pos + 1].mac)
  <2>1. CASE MacOpt
    <3>1. ReplacedAt(m2, macs, Len(chain) - kv_pos, chain[kv_pos + 1].mac)
      <4>1. ReplacedAt(m3, macs, Len(chain) - kv_pos, chain[kv_pos + 1].mac)
        BY <1>3, <1>7, <1>8, <2>1, UpdateBucket, Zenon
      <4> QED BY <1>5, <2>1, <4>1, Zenon
    <3> QED BY <1>4, <1>9, <2>1, <3>1, Zenon DEF BucketMacs
  <2>2. CASE ~MacOpt
    <3>1. ReplacedAt(ChainMacs(c2), ChainMacs(chain), kv_pos + 1, chain[kv_pos + 1].mac)
      BY <1>5, <1>7, <1>8, UpdateMacs, ZenonT(30)
    <3> QED BY <1>4, <2>2, <3>1, Zenon DEF BucketMacs
  <2> QED BY <2>1, <2>2, Zenon
<1>11. loc[w].found[1].mac = chain[kv_pos + 1].mac
  BY <1>3, FirstOfOne, Zenon
<1>12. RebuildAt(w)'
  BY <1>3, <1>6, <1>8, <1>9, <1>10, <1>11, RewriteRebuild, ZenonT(30) DEF kv_pos, b
<1> QED BY <1>6, <1>12, WriteStep, Zenon DEF b

\* ht_set_o on a key that was found keeps the invariant.
LEMMA SetUpdateStep ==
  ASSUME IInv, NEW w \in Workers, SetUpdate(w)
  PROVE  IInv'
<1> DEFINE b == bucket(w)
<1> DEFINE e == NewEntry(job[w].key, << job[w].chunk >>, loc[w].nac)
<1> DEFINE c2 == [table[b] EXCEPT ![loc[w].kv_pos + 1] = e]
<1> DEFINE m2 == IF MacOpt THEN StoreMac(macbuf[b], Len(macbuf[b]),
                                         update_pos(Len(macbuf[b]), loc[w].kv_pos), e.mac)
                           ELSE macbuf[b]
<1>1. pc[w] = "write" /\ loc[w].found # << >>
  BY DEF SetUpdate
<1>2. b \in Buckets /\ job[w].key \in Keys /\ job[w].chunk \in Chunks
  BY <1>1, BucketOK
<1>3. loc[w].nac \in Nac
  BY <1>1, BeforeWrite, Zenon
<1>4. << job[w].chunk >> \in Seq(Chunks)
  BY <1>2
<1>5. e \in Entry /\ EntryOK(e) /\ e.cipher.key = job[w].key
  BY <1>2, <1>3, <1>4, NewEntryOK, Zenon
<1>6. /\ table' = [table EXCEPT ![b][loc[w].kv_pos + 1] = e]
      /\ macbuf' = IF MacOpt
                     THEN [macbuf EXCEPT ![b] =
                             StoreMac(@, Len(macbuf[b]), update_pos(Len(macbuf[b]), loc[w].kv_pos), e.mac)]
                     ELSE macbuf
      /\ pc' = [pc EXCEPT ![w] = "rebuild"]
      /\ UNCHANGED << MACTable, job, loc, buf, alarm >>
  BY DEF SetUpdate
<1> HIDE DEF e
<1>7. Written(w, c2, m2)
  <2>1. table \in [Buckets -> Seq(Entry)] /\ macbuf \in [Buckets -> Seq(Mac)]
    BY DEF IInv, TypeOK
  <2>2. table' = [table EXCEPT ![b] = c2] /\ macbuf' = [macbuf EXCEPT ![b] = m2]
    BY <1>2, <1>6, <2>1, Zenon
  <2> QED BY <1>1, <1>6, <2>2, Zenon DEF Written
<1> HIDE DEF c2, m2
<1>8. /\ c2 = [table[b] EXCEPT ![loc[w].kv_pos + 1] = e]
      /\ m2 = IF MacOpt THEN StoreMac(macbuf[b], Len(macbuf[b]),
                                      update_pos(Len(macbuf[b]), loc[w].kv_pos), e.mac)
                        ELSE macbuf[b]
  BY Zenon DEF c2, m2
<1> QED BY <1>1, <1>5, <1>7, <1>8, RewriteStep, Zenon

\* enclave_append on a key that was found keeps the invariant.
LEMMA AppendStep ==
  ASSUME IInv, NEW w \in Workers, AppendEntry(w), NoAppendToMacBuckets
  PROVE  IInv'
<1> DEFINE b == bucket(w)
<1> DEFINE old == loc[w].found[1].cipher.val
<1> DEFINE e == NewEntry(job[w].key, Append(old, job[w].chunk), loc[w].nac)
<1> DEFINE c2 == [table[b] EXCEPT ![loc[w].kv_pos + 1] = e]
<1>1. pc[w] = "write" /\ job[w].op = "APP"
  BY DEF AppendEntry
<1>2. loc[w].found # << >>
  BY <1>1 DEF IInv, StageOK, StageAt
<1>3. ~MacOpt
  <2>1. "APP" \in Ops
    BY <1>1, BucketOK DEF Requests
  <2> QED BY <2>1 DEF NoAppendToMacBuckets
<1>4. b \in Buckets /\ job[w].key \in Keys /\ job[w].chunk \in Chunks
  BY <1>1, BucketOK
<1>5. loc[w].nac \in Nac
  BY <1>1, BeforeWrite, Zenon
<1>6. old \in Seq(Chunks)
  <2>1. loc[w].found \in Seq(Entry)
    BY DEF IInv, TypeOK
  <2>2. loc[w].found[1] \in Entry
    BY <1>2, <2>1
  <2> QED BY <2>2, Zenon DEF Entry, Cipher
<1>7. /\ table' = [table EXCEPT ![b][loc[w].kv_pos + 1] = e]
      /\ macbuf' = macbuf
      /\ pc' = [pc EXCEPT ![w] = "rebuild"]
      /\ UNCHANGED << MACTable, job, loc, buf, alarm >>
  BY <1>3 DEF AppendEntry
<1> HIDE DEF old
<1>8. Append(old, job[w].chunk) \in Seq(Chunks)
  BY <1>4, <1>6
<1>9. e \in Entry /\ EntryOK(e) /\ e.cipher.key = job[w].key
  BY <1>4, <1>5, <1>8, NewEntryOK, Zenon
<1> HIDE DEF e
<1>10. Written(w, c2, macbuf[b])
  <2>1. table \in [Buckets -> Seq(Entry)] /\ macbuf \in [Buckets -> Seq(Mac)]
    BY Zenon DEF IInv, TypeOK
  <2>2. table' = [table EXCEPT ![b] = c2] /\ macbuf' = [macbuf EXCEPT ![b] = macbuf[b]]
    BY <1>4, <1>7, <2>1
  <2> QED BY <1>1, <1>7, <2>2, ZenonT(30) DEF Written
<1> HIDE DEF c2
<1>11. /\ c2 = [table[b] EXCEPT ![loc[w].kv_pos + 1] = e]
       /\ macbuf[b] = IF MacOpt THEN StoreMac(macbuf[b], Len(macbuf[b]),
                                              update_pos(Len(macbuf[b]), loc[w].kv_pos), e.mac)
                                ELSE macbuf[b]
  BY <1>3, Zenon DEF c2
<1> QED BY <1>2, <1>9, <1>10, <1>11, RewriteStep, Zenon

-----------------------------------------------------------------------------
(***************************************************************************)
(* The invariant is inductive.                                              *)
(***************************************************************************)

\* Every step keeps the invariant.
LEMMA InvNext ==
  ASSUME NoAppendToMacBuckets, IInv, [Next]_vars
  PROVE  IInv'
<1>1. CASE UNCHANGED vars
  <2>1. /\ table' = table /\ macbuf' = macbuf /\ MACTable' = MACTable /\ pc' = pc
        /\ job' = job /\ loc' = loc /\ buf' = buf /\ alarm' = alarm
    BY <1>1 DEF vars
  <2>2. Macs' = Macs /\ \A x \in Workers : bucket(x)' = bucket(x)
    BY <2>1 DEF bucket, Macs
  <2>3. TypeOK'
    BY <2>1, Zenon DEF IInv, TypeOK
  <2>4. JobOK' /\ StageOK'
    BY <2>1, <2>2, Zenon DEF IInv, JobOK, JobAt, StageOK, StageAt
  <2>5. EntriesOK'
    BY <2>1, Zenon DEF IInv, EntriesOK
  <2>6. OneEntryPerKey'
    <3>1. OneEntryPerKey /\ table' = table
      BY <2>1, Zenon DEF IInv
    <3> QED BY <3>1, SMT DEF OneEntryPerKey
  <2>7. MacBucketReversed' /\ NoFalseAlarm'
    BY <2>1, Zenon DEF IInv, MacBucketReversed, NoFalseAlarm
  <2>8. LookupStillValid'
    BY <2>1, <2>2, Zenon DEF IInv, LookupStillValid, LookupHolds
  <2>9. RebuildOK'
    BY <2>1, <2>2, Zenon DEF IInv, RebuildOK, RebuildAt, PrevVerifies
  <2>10. RootsCoverMemory'
    BY <2>1, <2>2, Zenon DEF IInv, RootsCoverMemory, RootBusy
  <2> QED BY <2>3, <2>4, <2>5, <2>6, <2>7, <2>8, <2>9, <2>10, Zenon DEF IInv
<1>2. CASE Next
  <2>1. PICK w \in Workers :
          \/ \E r \in Requests : Accept(w, r)
          \/ LookupHit(w) \/ LookupMissSet(w) \/ LookupMiss(w) \/ VerifyTreeRoot(w)
          \/ SetUpdate(w) \/ SetInsert(w) \/ AppendEntry(w) \/ RebuildTreeRoot(w) \/ Reply(w)
    BY <1>2 DEF Next
  <2>2. CASE \E r \in Requests : Accept(w, r)
    BY <2>2, AcceptStep
  <2>3. CASE LookupHit(w)
    BY <2>3, LookupHitStep
  <2>4. CASE LookupMissSet(w)
    BY <2>4, LookupMissSetStep, Zenon
  <2>5. CASE LookupMiss(w)
    BY <2>5, LookupMissStep
  <2>6. CASE VerifyTreeRoot(w)
    BY <2>6, VerifyStep
  <2>7. CASE SetUpdate(w)
    BY <2>7, SetUpdateStep
  <2>8. CASE SetInsert(w)
    BY <2>8, SetInsertStep
  <2>9. CASE AppendEntry(w)
    BY <2>9, AppendStep
  <2>10. CASE RebuildTreeRoot(w)
    BY <2>10, RebuildStep
  <2>11. CASE Reply(w)
    BY <2>11, ReplyStep
  <2> QED BY <2>1, <2>2, <2>3, <2>4, <2>5, <2>6, <2>7, <2>8, <2>9, <2>10, <2>11, Zenon
<1> QED BY <1>1, <1>2

\* The inductive invariant, which holds in every state of every behaviour: all that
\* the theorems below say, and between the steps of a request what its worker has
\* established so far (JobOK, StageOK, RebuildOK).
THEOREM Invariance ==
  ASSUME NoAppendToMacBuckets
  PROVE  Spec => []IInv
<1>1. Init => IInv
  BY InvInit
<1>2. IInv /\ [Next]_vars => IInv'
  BY InvNext
<1> QED BY <1>1, <1>2, PTL DEF Spec

\* Every variable keeps its type: counters stay below CtrSpan, kv_pos is a
\* position, replies are a value, a key or the request's own key.
THEOREM TypeCorrect ==
  ASSUME NoAppendToMacBuckets
  PROVE  Spec => []TypeOK
<1>1. IInv => TypeOK
  BY DEF IInv
<1> QED BY <1>1, Invariance, PTL

\* enclave_set, enclave_get and enclave_append never report a MAC or tree
\* mismatch, whatever the interleaving of the workers.
THEOREM NoFalseAlarms ==
  ASSUME NoAppendToMacBuckets
  PROVE  Spec => []NoFalseAlarm
<1>1. IInv => NoFalseAlarm
  BY DEF IInv
<1> QED BY <1>1, Invariance, PTL

\* Outside a write, every in-enclave root is the CMAC of the memory it covers.
THEOREM RootsCover ==
  ASSUME NoAppendToMacBuckets
  PROVE  Spec => []RootsCoverMemory
<1>1. IInv => RootsCoverMemory
  BY DEF IInv
<1> QED BY <1>1, Invariance, PTL

\* A key is stored at most once, in its own bucket.
THEOREM KeysUnique ==
  ASSUME NoAppendToMacBuckets
  PROVE  Spec => []OneEntryPerKey
<1>1. IInv => OneEntryPerKey
  BY DEF IInv
<1> QED BY <1>1, Invariance, PTL

\* What ht_get_o found is still so when a worker uses it.
THEOREM LookupsValid ==
  ASSUME NoAppendToMacBuckets
  PROVE  Spec => []LookupStillValid
<1>1. IInv => LookupStillValid
  BY DEF IInv
<1> QED BY <1>1, Invariance, PTL

\* A MAC bucket is its chain's MACs, reversed.
THEOREM MacBucketsReversed ==
  ASSUME NoAppendToMacBuckets
  PROVE  Spec => []MacBucketReversed
<1>1. IInv => MacBucketReversed
  BY DEF IInv
<1> QED BY <1>1, Invariance, PTL

=============================================================================
