------------------------- MODULE CentralStepsProofs -------------------------
(***************************************************************************)
(* Every step of the central free lists keeps their inductive invariant     *)
(* CInv, for any number of threads, classes and spans and any sizes. It     *)
(* adds to the four properties what the locals of a thread say of the place *)
(* it has reached (GoodLocals), whose lock it then holds (LocksHeld), that  *)
(* the objects of a chain belong to the class it is on its way to (ClassOK), *)
(* and that a span on its way to or from the page heap is in no list and     *)
(* known to one thread (SpansOwned). The steps count with SumLaws, which     *)
(* CentralFreeListProofs proves.                                             *)
(***************************************************************************)
EXTENDS CentralFreeList, TLAPS

-----------------------------------------------------------------------------
(* The inductive invariant. *)

Chains == [Spans -> Nat]

Where == {"idle", "evict", "invert", "relock", "release", "delete", "deleted",
          "fetch", "populate", "populated"}

Locals == [cl : Classes \cup {Free}, N : Nat, chain : Chains,
           victim : Classes \cup {Free}, force : BOOLEAN, list : Chains,
           at : Classes \cup {Free}, span : Spans \cup {Free}, done : BOOLEAN]

\* What the locals of a thread say of the place it has reached.
GoodLocals(p, m) ==
  /\ p = "idle" => m = Idle
  /\ p \in {"evict", "invert", "relock", "fetch", "populate", "populated"} =>
       m.cl \in Classes /\ m.list = None
  /\ p \in {"evict", "invert"} => ~m.done
  /\ p \in {"invert", "relock"} => m.victim \in Classes
  /\ p \in {"release", "delete", "deleted"} =>
       /\ m.at \in Classes
       /\ \/ m.victim = Free /\ m.chain = None
          \/ m.victim = m.at /\ m.cl \in Classes /\ m.done
  /\ p \in {"fetch", "populate", "populated"} => m.victim = Free
  /\ p = "delete" => m.span \in Spans
  /\ p \notin {"delete", "populated"} => m.span = Free

PlacesOK ==
  /\ pc \in [Threads -> Where]
  /\ me \in [Threads -> Locals]
  /\ \A t \in Threads : GoodLocals(pc[t], me[t])

Typed ==
  /\ lock_ \in [Classes -> Threads \cup {NoThread}]
  /\ cache_size_ \in [Classes -> Nat]
  /\ slots \in [Classes -> Seq(Chains)]
  /\ nonempty_ \in [Classes -> Seq(Spans)]
  /\ empty_ \in [Classes -> SUBSET Spans]
  /\ counter_ \in [Classes -> Int]
  /\ num_spans_ \in [Classes -> Int]
  /\ objects \in [Spans -> Nat]
  /\ refcount \in [Spans -> Int]
  /\ class \in [Spans -> Classes \cup {Free}]
  /\ held \in [Threads -> Chains]
  /\ PlacesOK

Holds(p, m, c) ==
  \/ p \in {"evict", "fetch"} /\ c = m.cl
  \/ p = "release" /\ c = m.at

LocksHeld == \A t \in Threads, c \in Classes : lock_[c] = t <=> Holds(pc[t], me[t], c)

\* All objects of chain f lie in spans that class map k gives to class c.
Of(k, f, c) == \A s \in Spans : f[s] > 0 => k[s] = c

ClassOK ==
  /\ \A t \in Threads : Of(class, me[t].chain, me[t].cl) /\ Of(class, me[t].list, me[t].at)
  /\ \A c \in Classes : \A i \in 1 .. Len(slots[c]) : Of(class, slots[c][i], c)

SpansOwned ==
  /\ \A t \in Threads : me[t].span # Free =>
       /\ class[me[t].span] = IF pc[t] = "delete" THEN me[t].at ELSE me[t].cl
       /\ pc[t] = "populated" => objects[me[t].span] = PerSpan
       /\ \A c \in Classes : me[t].span \notin Listed(c)
  /\ \A t, u \in Threads : me[t].span # Free /\ me[t].span = me[u].span => t = u

CInv == Typed /\ LocksHeld /\ EntriesFit /\ ListsExact /\ ObjectsConserved /\ ClassOK /\ SpansOwned

-----------------------------------------------------------------------------
(* Finite sets, and sums over them. *)

SubsetLaw ==
  \A S, T : IsFiniteSet(S) /\ T \subseteq S =>
    IsFiniteSet(T) /\ Cardinality(T) <= Cardinality(S)

CardinalityLaw == \A S : IsFiniteSet(S) => Cardinality(S) \in Nat

AddLaw ==
  \A S, x : IsFiniteSet(S) =>
    /\ IsFiniteSet(S \cup {x})
    /\ Cardinality(S \cup {x}) = IF x \in S THEN Cardinality(S) ELSE Cardinality(S) + 1

RemoveLaw ==
  \A S, x : IsFiniteSet(S) =>
    /\ IsFiniteSet(S \ {x})
    /\ Cardinality(S \ {x}) = IF x \in S THEN Cardinality(S) - 1 ELSE Cardinality(S)

IntervalLaw == \A a, b \in Int : IsFiniteSet(a .. b)

SumNatLaw ==
  \A S, f : IsFiniteSet(S) /\ (\A y \in S : f[y] \in Nat) =>
    /\ SumFunctionOnSet(f, S) \in Nat
    /\ \A x \in S : f[x] <= SumFunctionOnSet(f, S)

SumRemoveLaw ==
  \A S, f : IsFiniteSet(S) /\ (\A y \in S : f[y] \in Int) =>
    /\ SumFunctionOnSet(f, S) \in Int
    /\ \A x \in S : SumFunctionOnSet(f, S) = f[x] + SumFunctionOnSet(f, S \ {x})

SumEqualLaw ==
  \A S, f, g : IsFiniteSet(S) /\ (\A y \in S : f[y] = g[y] /\ f[y] \in Int) =>
    SumFunctionOnSet(f, S) = SumFunctionOnSet(g, S)

SumUpdateLaw ==
  \A S, f, g, x :
    /\ IsFiniteSet(S) /\ x \in S
    /\ \A y \in S : f[y] \in Int /\ g[y] \in Int
    /\ \A y \in S : y # x => f[y] = g[y]
    => SumFunctionOnSet(g, S) = SumFunctionOnSet(f, S) + g[x] - f[x]

SumInsertLaw ==
  \A S, f, x : IsFiniteSet(S) /\ x \notin S /\ (\A y \in S \cup {x} : f[y] \in Int) =>
    SumFunctionOnSet(f, S \cup {x}) = SumFunctionOnSet(f, S) + f[x]

\* What the steps rely on: LawsHold in CentralFreeListProofs.
SumLaws ==
  /\ SubsetLaw /\ CardinalityLaw /\ AddLaw /\ RemoveLaw /\ IntervalLaw
  /\ SumNatLaw /\ SumRemoveLaw /\ SumEqualLaw /\ SumUpdateLaw /\ SumInsertLaw

-----------------------------------------------------------------------------
(* Sequences. *)

LEMMA ElementFact ==
  ASSUME NEW S, NEW q \in Seq(S), NEW i \in 1 .. Len(q)
  PROVE  q[i] \in S
OBVIOUS

LEMMA SameSequence ==
  ASSUME NEW S, NEW q \in Seq(S), NEW r \in Seq(S), Len(q) = Len(r),
         \A i \in 1 .. Len(q) : q[i] = r[i]
  PROVE  q = r
OBVIOUS

LEMMA ConcatFacts ==
  ASSUME NEW S, NEW q \in Seq(S), NEW r \in Seq(S)
  PROVE  /\ q \o r \in Seq(S) /\ Len(q \o r) = Len(q) + Len(r)
         /\ \A i \in 1 .. Len(q) + Len(r) :
              (q \o r)[i] = IF i <= Len(q) THEN q[i] ELSE r[i - Len(q)]
OBVIOUS

LEMMA SubSeqFacts ==
  ASSUME NEW S, NEW q, NEW m \in Int, NEW n \in Int, \A i \in m .. n : q[i] \in S
  PROVE  /\ SubSeq(q, m, n) \in Seq(S)
         /\ Len(SubSeq(q, m, n)) = IF m <= n THEN n - m + 1 ELSE 0
         /\ \A i \in 1 .. n - m + 1 : SubSeq(q, m, n)[i] = q[m + i - 1]
OBVIOUS

LEMMA HeadTailFacts ==
  ASSUME NEW S, NEW q \in Seq(S), q # << >>
  PROVE  /\ Head(q) \in S /\ Tail(q) \in Seq(S) /\ Len(Tail(q)) = Len(q) - 1
         /\ \A i \in 1 .. Len(Tail(q)) : Tail(q)[i] = q[i + 1]
OBVIOUS

LEMMA AppendFacts ==
  ASSUME NEW S, NEW q \in Seq(S), NEW e \in S
  PROVE  /\ Append(q, e) \in Seq(S) /\ Len(Append(q, e)) = Len(q) + 1
         /\ \A i \in 1 .. Len(q) : Append(q, e)[i] = q[i]
         /\ Append(q, e)[Len(q) + 1] = e
OBVIOUS

LEMMA PushFacts ==
  ASSUME NEW q \in Seq(Spans), NEW x \in Spans, x \notin Range(q), IsInjective(q)
  PROVE  /\ << x >> \o q \in Seq(Spans) /\ Len(<< x >> \o q) = Len(q) + 1
         /\ Range(<< x >> \o q) = Range(q) \cup {x} /\ IsInjective(<< x >> \o q)
<1> DEFINE r == << x >> \o q
<1>1. r \in Seq(Spans) /\ Len(r) = Len(q) + 1 /\ Len(q) \in Nat
  OBVIOUS
<1>2. DOMAIN r = 1 .. Len(q) + 1 /\ DOMAIN q = 1 .. Len(q)
  BY <1>1
<1>3. \A i \in 1 .. Len(q) + 1 : r[i] = IF i = 1 THEN x ELSE q[i - 1]
  OBVIOUS
<1> HIDE DEF r
<1>4. \A i \in 1 .. Len(q) + 1 : i # 1 => i - 1 \in 1 .. Len(q)
  BY <1>1
<1>5. \A i \in 1 .. Len(q) : i + 1 \in 1 .. Len(q) + 1 /\ i + 1 # 1 /\ (i + 1) - 1 = i
  BY <1>1
<1>6. \A i \in 1 .. Len(q) : r[i + 1] = q[i]
  BY <1>3, <1>5, Zenon
<1>7. r[1] = x /\ 1 \in 1 .. Len(q) + 1
  BY <1>1, <1>3
<1>8. Range(r) \subseteq Range(q) \cup {x}
  BY <1>2, <1>3, <1>4 DEF Range
<1>9. Range(q) \cup {x} \subseteq Range(r)
  BY <1>2, <1>5, <1>6, <1>7 DEF Range
<1>10. IsInjective(r)
  <2> SUFFICES ASSUME NEW i \in 1 .. Len(q) + 1, NEW j \in 1 .. Len(q) + 1, r[i] = r[j] PROVE i = j
    BY <1>2, Zenon DEF IsInjective
  <2>1. \A l \in 1 .. Len(q) + 1 : l # 1 => r[l] # x
    BY <1>2, <1>3, <1>4 DEF Range
  <2>2. CASE i # 1 /\ j # 1
    <3>1. q[i - 1] = q[j - 1] /\ i - 1 \in 1 .. Len(q) /\ j - 1 \in 1 .. Len(q)
      BY <1>3, <1>4, <2>2, Zenon
    <3>2. i - 1 = j - 1
      BY <1>2, <3>1, Zenon DEF IsInjective
    <3> QED BY <1>1, <3>2
  <2> QED BY <1>7, <2>1, <2>2, Zenon
<1> QED BY <1>1, <1>8, <1>9, <1>10, Zenon DEF r

LEMMA TailFacts ==
  ASSUME NEW q \in Seq(Spans), q # << >>, IsInjective(q)
  PROVE  /\ Tail(q) \in Seq(Spans) /\ Len(Tail(q)) = Len(q) - 1 /\ Len(q) \in Nat
         /\ Head(q) \in Spans /\ Head(q) \in Range(q)
         /\ Range(Tail(q)) = Range(q) \ {Head(q)} /\ IsInjective(Tail(q))
<1> DEFINE r == Tail(q)
<1>1. r \in Seq(Spans) /\ Len(r) = Len(q) - 1 /\ Len(q) \in Nat /\ Len(q) >= 1 /\ Head(q) = q[1]
  OBVIOUS
<1>2. DOMAIN r = 1 .. Len(q) - 1 /\ DOMAIN q = 1 .. Len(q)
  BY <1>1
<1>3. \A i \in 1 .. Len(q) - 1 : r[i] = q[i + 1]
  OBVIOUS
<1> HIDE DEF r
<1>4. \A i \in 1 .. Len(q) - 1 : i + 1 \in 1 .. Len(q) /\ i + 1 # 1
  BY <1>1
<1>5. \A i \in 1 .. Len(q) : i # 1 => i - 1 \in 1 .. Len(q) - 1 /\ (i - 1) + 1 = i
  BY <1>1
<1>6. 1 \in DOMAIN q
  BY <1>1, <1>2
<1>7. Head(q) \in Range(q) /\ Head(q) \in Spans
  BY <1>1, <1>6 DEF Range
<1>8. ASSUME NEW y \in Range(r) PROVE y \in Range(q) \ {Head(q)}
  <2>1. PICK i \in 1 .. Len(q) - 1 : y = r[i]
    BY <1>2, Zenon DEF Range
  <2>2. y = q[i + 1] /\ i + 1 \in DOMAIN q /\ i + 1 # 1
    BY <1>2, <1>3, <1>4, <2>1, Zenon
  <2>3. y # q[1]
    BY <1>6, <2>2, Zenon DEF IsInjective
  <2> QED BY <1>1, <2>2, <2>3, Zenon DEF Range
<1>9. ASSUME NEW y \in Range(q), y # Head(q) PROVE y \in Range(r)
  <2>1. PICK i \in 1 .. Len(q) : y = q[i]
    BY <1>2, Zenon DEF Range
  <2>2. i # 1
    BY <1>1, <1>9, <2>1, Zenon
  <2>3. i - 1 \in 1 .. Len(q) - 1 /\ r[i - 1] = q[i]
    BY <1>3, <1>5, <2>2, Zenon
  <2> QED BY <1>2, <2>1, <2>3, Zenon DEF Range
<1>10. IsInjective(r)
  <2> SUFFICES ASSUME NEW i \in 1 .. Len(q) - 1, NEW j \in 1 .. Len(q) - 1, r[i] = r[j] PROVE i = j
    BY <1>2, Zenon DEF IsInjective
  <2>1. q[i + 1] = q[j + 1] /\ i + 1 \in DOMAIN q /\ j + 1 \in DOMAIN q
    BY <1>2, <1>3, <1>4, Zenon
  <2>2. i + 1 = j + 1
    BY <2>1, Zenon DEF IsInjective
  <2> QED BY <1>1, <2>2
<1>11. Range(r) = Range(q) \ {Head(q)}
  BY <1>8, <1>9, Zenon
<1> QED BY <1>1, <1>7, <1>10, <1>11, Zenon DEF r

LEMMA CardFacts ==
  ASSUME SumLaws, NEW e \in SUBSET Spans, NEW x \in Spans
  PROVE  /\ Cardinality(e) \in Nat
         /\ x \notin e => Cardinality(e \cup {x}) = Cardinality(e) + 1 /\ e \ {x} = e
         /\ x \in e => Cardinality(e \ {x}) = Cardinality(e) - 1
<1>1. IsFiniteSet(e)
  BY CentralAssumption, Zenon DEF SumLaws, SubsetLaw
<1>2. x \notin e => Cardinality(e \cup {x}) = Cardinality(e) + 1
  BY <1>1, Zenon DEF SumLaws, AddLaw
<1>3. x \in e => Cardinality(e \ {x}) = Cardinality(e) - 1
  BY <1>1, Zenon DEF SumLaws, RemoveLaw
<1> QED BY <1>1, <1>2, <1>3, Zenon DEF SumLaws, CardinalityLaw

LEMMA Cancel == \A a, b \in Int : (a + b) - a = b
OBVIOUS

\* One span less in the list of l spans, which has a now; the set e of the others becomes f.
Leaves(e, x, f, l, a) ==
  /\ e \in SUBSET Spans /\ x \in Spans /\ l \in Nat
  /\ \/ x \notin e /\ f = e \cup {x} /\ a = l - 1
     \/ x \in e /\ f = e \ {x} /\ a = l + 1

LEMMA CardMove ==
  ASSUME SumLaws, NEW e, NEW x, NEW f, NEW l, NEW a, Leaves(e, x, f, l, a)
  PROVE  a + Cardinality(f) = l + Cardinality(e)
<1>1. CASE x \notin e /\ f = e \cup {x} /\ a = l - 1
  <2>1. Cardinality(f) = Cardinality(e) + 1 /\ Cardinality(e) \in Nat /\ l \in Nat
    BY <1>1, CardFacts, Zenon DEF Leaves
  <2> QED BY <1>1, <2>1
<1>2. CASE x \in e /\ f = e \ {x} /\ a = l + 1
  <2>1. Cardinality(f) = Cardinality(e) - 1 /\ Cardinality(e) \in Nat /\ l \in Nat
    BY <1>2, CardFacts, Zenon DEF Leaves
  <2> QED BY <1>2, <2>1
<1> QED BY <1>1, <1>2, Zenon DEF Leaves

LEMMA OneLess == \A a, l \in Int, c \in Nat : a = l - 1 => (l + c) - 1 = a + c
OBVIOUS

-----------------------------------------------------------------------------
(* Counting: what the steps add and subtract. *)

LEMMA NatIsInt == \A n \in Nat : n \in Int
OBVIOUS

LEMMA Positive == (\A n \in Nat \ {0} : n > 0) /\ (\A n \in Nat : n + 1 > 0) /\ ~(0 > 0) /\ 1 - 1 = 0
OBVIOUS

LEMMA NoneLeft == \A n \in Nat : n - n = 0 /\ n + 0 = n
OBVIOUS

LEMMA SomeLeft == \A n, o \in Nat : n <= o /\ o # n => o - n > 0
OBVIOUS

LEMMA AtLeast == \A a, b, c \in Nat : a > 0 /\ a <= b /\ b <= c => c # 0
OBVIOUS

LEMMA ShareZero == \A h : \A a, b, c \in Nat : h = a + b + c /\ h <= 0 => ~(b > 0) /\ ~(c > 0)
OBVIOUS

LEMMA PartZero == \A a, b \in Nat : a <= b /\ b <= 0 => ~(a > 0)
OBVIOUS

LEMMA PartOf == \A a, b, c \in Nat : c <= a + b + c /\ a + b + c \in Nat
OBVIOUS

LEMMA SameSum == \A r \in Int, a, b \in Nat : r = r + ((a + b) - (a + b))
OBVIOUS

LEMMA SumLessOne == \A r \in Int, a, b \in Nat : r - 1 = r + ((a + (b - 1)) - (a + b))
OBVIOUS

LEMMA SumPlus == \A r \in Int, a, b, n \in Nat : r + n = r + (((a + n) + b) - (a + b))
OBVIOUS

LEMMA TakeEntry == \A h, q, l \in Nat : ((h + l) + 0 + 0) + q = (h + 0 + 0) + (q + l)
OBVIOUS

LEMMA TakeChain == \A h, l \in Nat : (h + l) + 0 + 0 = h + l + 0
OBVIOUS

LEMMA UpNat ==
  ASSUME NEW S, NEW x \in S, NEW f \in [S -> Nat]
  PROVE  [f EXCEPT ![x] = @ + 1] \in [S -> Nat]
OBVIOUS

LEMMA UpInt ==
  ASSUME NEW S, NEW x \in S, NEW f \in [S -> Int]
  PROVE  [f EXCEPT ![x] = @ + 1] \in [S -> Int]
OBVIOUS

LEMMA CountsInt == \A k, l, p \in Int : k + 1 - p \in Int /\ l - 1 \in Int
OBVIOUS

LEMMA OneSpanSeq == \A s \in Spans : << s >> \in Seq(Spans)
OBVIOUS

LEMMA CountUp == \A k \in Int, o \in Nat : k + 1 = k + ((o + 1) - o)
OBVIOUS

LEMMA CountDown == \A k \in Int, o, n \in Nat : k - n = k + ((o - n) - o)
OBVIOUS

LEMMA CountSpan == \A k \in Int, o \in Nat : k + 1 - (o + 1) = k - o
OBVIOUS

LEMMA OneBack == \A o \in Nat, r \in Int : (o + 1) + (r - 1) = o + r
OBVIOUS

LEMMA SomeOut == \A o, n \in Nat, r \in Int : (o - n) + (r + n) = o + r
OBVIOUS

\* One object of span x less in a chain, or some more.
LEMMA TakeOne ==
  ASSUME NEW g \in Chains, NEW x \in Spans
  PROVE  \A s \in Spans : Minus(g, One(x, 1))[s] = IF s = x THEN g[s] - 1 ELSE g[s]
BY DEF Minus, One, None, Chains

\* Chain f is chain g with n objects of span x more.
AddsTo(f, g, x, n) == \A s \in Spans : f[s] = IF s = x THEN g[s] + n ELSE g[s]

LEMMA AddSome ==
  ASSUME NEW g \in Chains, NEW x \in Spans, NEW n \in Nat
  PROVE  AddsTo(Plus(g, One(x, n)), g, x, n)
BY DEF Plus, One, None, Chains, AddsTo

-----------------------------------------------------------------------------
(* Types and locals. *)

LEMMA ChainFacts ==
  /\ None \in Chains
  /\ \A f, g \in Chains : Plus(f, g) \in Chains
  /\ \A f, g \in Chains : (\A s \in Spans : g[s] <= f[s]) => Minus(f, g) \in Chains
  /\ \A s \in Spans, n \in Nat : One(s, n) \in Chains
BY DEF Chains, None, One, Plus, Minus

LEMMA IdleFacts == Idle \in Locals /\ GoodLocals("idle", Idle)
BY ChainFacts DEF Idle, Locals, GoodLocals

LEMMA MinPair ==
  ASSUME NEW a \in Int, NEW b \in Int
  PROVE  Min({a, b}) = IF a <= b THEN a ELSE b
BY DEF Min

LEMMA SlotFacts ==
  ASSUME NEW q \in Seq(Chains), Len(q) > 0
  PROVE  /\ SubSeq(q, 1, Len(q) - 1) \in Seq(Chains) /\ Len(SubSeq(q, 1, Len(q) - 1)) = Len(q) - 1
         /\ q[Len(q)] \in Chains
         /\ \A i \in 1 .. Len(q) - 1 : SubSeq(q, 1, Len(q) - 1)[i] = q[i]
<1>1. Len(q) \in Nat
  OBVIOUS
<1>2. \A i \in 1 .. Len(q) : q[i] \in Chains
  BY ElementFact
<1>3. PICK n \in Nat : Len(q) = n + 1
  BY <1>1
<1>4. Len(q) - 1 = n /\ n \in Int /\ 1 \in Int /\ \A i \in 1 .. n : q[i] \in Chains
  BY <1>2, <1>3
<1>5. /\ SubSeq(q, 1, n) \in Seq(Chains)
      /\ Len(SubSeq(q, 1, n)) = IF 1 <= n THEN n - 1 + 1 ELSE 0
      /\ \A i \in 1 .. n - 1 + 1 : SubSeq(q, 1, n)[i] = q[1 + i - 1]
  BY <1>4, SubSeqFacts
<1>6. Len(SubSeq(q, 1, n)) = n
  BY <1>5
<1>7. \A i \in 1 .. n : SubSeq(q, 1, n)[i] = q[i]
  BY <1>5
<1>8. q[Len(q)] \in Chains
  BY <1>2, <1>3
<1> QED BY <1>4, <1>5, <1>6, <1>7, <1>8

LEMMA WhereFacts ==
  \A p \in {"idle", "evict", "invert", "relock", "release", "delete", "deleted",
            "fetch", "populate", "populated"} : p \in Where
BY DEF Where

LEMMA MyFacts ==
  ASSUME PlacesOK, NEW t \in Threads
  PROVE  me[t] \in Locals /\ GoodLocals(pc[t], me[t])
BY DEF PlacesOK

InsertStep(t, c, f) ==
  LET locals == [Idle EXCEPT !.cl = c, !.chain = f] IN
  /\ held' = [held EXCEPT ![t] = Minus(@, f)]
  /\ lock_[c] = NoThread
  /\ \/ HasRoom(c) /\ StoreEntry(t, c, f) /\ UNCHANGED lock_
     \/ Lock(t, c) /\ ReleaseChain(t, locals) /\ UNCHANGED slots
     \/ Lock(t, c) /\ Goto(t, "evict", locals) /\ UNCHANGED slots

LEMMA InsertRangeStep ==
  ASSUME NEW t \in Threads, InsertRange(t)
  PROVE  \E c \in Classes : \E f \in Returns(t, c) : InsertStep(t, c, f)
BY Zenon DEF InsertRange, InsertStep

\* What an eviction does to the sizes and the entries of the victim's cache.
LEMMA ShrinkCacheStep ==
  ASSUME NEW t \in Threads, ShrinkCache(t)
  PROVE  LET v == me[t].victim IN
         /\ pc[t] = "invert" /\ lock_[v] = NoThread
         /\ UNCHANGED << lists, spans, held >>
         /\ \/ /\ Goto(t, "relock", [me[t] EXCEPT !.done = FALSE])
               /\ UNCHANGED << lock_, cache_size_, slots >>
            \/ /\ cache_size_[v] # 0 /\ Used(v) # cache_size_[v]
               /\ cache_size_' = [cache_size_ EXCEPT ![v] = @ - 1]
               /\ Goto(t, "relock", [me[t] EXCEPT !.done = TRUE])
               /\ UNCHANGED << lock_, slots >>
            \/ /\ cache_size_[v] # 0 /\ Used(v) = cache_size_[v]
               /\ Lock(t, v)
               /\ cache_size_' = [cache_size_ EXCEPT ![v] = @ - 1]
               /\ DropEntry(v)
               /\ Goto(t, "release", [me[t] EXCEPT !.list = LastEntry(v), !.at = v, !.done = TRUE])
BY Zenon DEF ShrinkCache, cvars

\* Taking a span out of a list without repetitions takes out exactly that span.
LEMMA UnlinkFacts ==
  ASSUME NEW q \in Seq(Spans), NEW s \in Spans
  PROVE  /\ DLL_Remove(q, s) \in Seq(Spans)
         /\ IsInjective(q) =>
              /\ IsInjective(DLL_Remove(q, s))
              /\ Range(DLL_Remove(q, s)) = Range(q) \ {s}
              /\ Len(DLL_Remove(q, s)) = IF s \in Range(q) THEN Len(q) - 1 ELSE Len(q)
<1>AfterCount. ASSUME NEW n \in Nat, NEW i \in 1 .. n, NEW k,
                      k = IF i + 1 <= n THEN n - (i + 1) + 1 ELSE 0
               PROVE  k = n - i
  <2> USE <1>AfterCount
  <2> QED OBVIOUS
<1>1. CASE s \notin Range(q)
  BY <1>1 DEF DLL_Remove
<1>2. CASE s \in Range(q)
  <2> DEFINE i == CHOOSE j \in DOMAIN q : q[j] = s
             r == SubSeq(q, 1, i - 1) \o SubSeq(q, i + 1, Len(q))
  <2>1. i \in 1 .. Len(q) /\ q[i] = s /\ Len(q) \in Nat /\ DOMAIN q = 1 .. Len(q)
    <3>1. \E j \in DOMAIN q : q[j] = s
      BY <1>2 DEF Range
    <3> QED BY <3>1
  <2>2. DLL_Remove(q, s) = r
    BY <1>2, Zenon DEF DLL_Remove
  <2> HIDE DEF i
  <2>3. \A j \in 1 .. Len(q) : q[j] \in Spans
    BY ElementFact
  <2>4. /\ SubSeq(q, 1, i - 1) \in Seq(Spans)
        /\ Len(SubSeq(q, 1, i - 1)) = i - 1
        /\ \A j \in 1 .. i - 1 : SubSeq(q, 1, i - 1)[j] = q[j]
    <3>1. 1 \in Int /\ i - 1 \in Int /\ \A j \in 1 .. i - 1 : q[j] \in Spans
      BY <2>1, <2>3
    <3>2. /\ SubSeq(q, 1, i - 1) \in Seq(Spans)
          /\ Len(SubSeq(q, 1, i - 1)) = IF 1 <= i - 1 THEN (i - 1) - 1 + 1 ELSE 0
          /\ \A j \in 1 .. (i - 1) - 1 + 1 : SubSeq(q, 1, i - 1)[j] = q[1 + j - 1]
      BY <3>1, SubSeqFacts
    <3>3. \A j \in 1 .. i - 1 : j \in 1 .. (i - 1) - 1 + 1 /\ 1 + j - 1 = j
      BY <2>1
    <3>4. Len(SubSeq(q, 1, i - 1)) = i - 1
      BY <2>1, <3>2
    <3> QED BY <3>2, <3>3, <3>4
  <2>5. /\ SubSeq(q, i + 1, Len(q)) \in Seq(Spans)
        /\ Len(SubSeq(q, i + 1, Len(q))) = Len(q) - i
        /\ \A j \in 1 .. Len(q) - i : SubSeq(q, i + 1, Len(q))[j] = q[i + j]
    <3>1. i + 1 \in Int /\ Len(q) \in Int /\ \A j \in i + 1 .. Len(q) : q[j] \in Spans
      BY <2>1, <2>3
    <3>2. /\ SubSeq(q, i + 1, Len(q)) \in Seq(Spans)
          /\ Len(SubSeq(q, i + 1, Len(q))) = IF i + 1 <= Len(q) THEN Len(q) - (i + 1) + 1 ELSE 0
          /\ \A j \in 1 .. Len(q) - (i + 1) + 1 : SubSeq(q, i + 1, Len(q))[j] = q[(i + 1) + j - 1]
      BY <3>1, SubSeqFacts
    <3>3. \A j \in 1 .. Len(q) - i : j \in 1 .. Len(q) - (i + 1) + 1 /\ (i + 1) + j - 1 = i + j
      BY <2>1
    <3>5. Len(SubSeq(q, i + 1, Len(q))) = Len(q) - i
      BY <2>1, <3>2, <1>AfterCount, Zenon
    <3> QED BY <3>2, <3>3, <3>5
  <2>6. /\ r \in Seq(Spans) /\ Len(r) = Len(q) - 1
        /\ \A j \in 1 .. Len(q) - 1 : r[j] = IF j < i THEN q[j] ELSE q[j + 1]
    <3> DEFINE a == SubSeq(q, 1, i - 1)
               b == SubSeq(q, i + 1, Len(q))
    <3>1. /\ a \o b \in Seq(Spans) /\ Len(a \o b) = Len(a) + Len(b)
          /\ \A j \in 1 .. Len(a) + Len(b) : (a \o b)[j] = IF j <= Len(a) THEN a[j] ELSE b[j - Len(a)]
      BY <2>4, <2>5, ConcatFacts, Zenon
    <3>2. Len(a) = i - 1 /\ Len(b) = Len(q) - i /\ Len(a) + Len(b) = Len(q) - 1
      <4>1. Len(a) = i - 1 /\ Len(b) = Len(q) - i
        BY <2>4, <2>5, Zenon
      <4>2. (i - 1) + (Len(q) - i) = Len(q) - 1
        BY <2>1
      <4> QED BY <4>1, <4>2, Zenon
    <3>3. ASSUME NEW j \in 1 .. Len(q) - 1 PROVE (a \o b)[j] = IF j < i THEN q[j] ELSE q[j + 1]
      <4>1. (a \o b)[j] = IF j <= i - 1 THEN a[j] ELSE b[j - (i - 1)]
        BY <3>1, <3>2, Zenon
      <4>2. CASE j < i
        <5>1. j \in 1 .. i - 1 /\ j <= i - 1
          BY <2>1, <4>2
        <5> QED BY <2>4, <4>1, <4>2, <5>1
      <4>3. CASE ~(j < i)
        <5>1. j - (i - 1) \in 1 .. Len(q) - i /\ ~(j <= i - 1) /\ i + (j - (i - 1)) = j + 1
          BY <2>1, <4>3
        <5> QED BY <2>5, <4>1, <4>3, <5>1, Zenon
      <4> QED BY <4>2, <4>3, Zenon
    <3> QED BY <3>1, <3>2, <3>3, Zenon
  <2> HIDE DEF r
  <2>7. DOMAIN r = 1 .. Len(q) - 1
    BY <2>6
  <2>8. ASSUME IsInjective(q) PROVE IsInjective(r)
    <3> SUFFICES ASSUME NEW j \in 1 .. Len(q) - 1, NEW k \in 1 .. Len(q) - 1, r[j] = r[k]
                 PROVE  j = k
      BY <2>7 DEF IsInjective
    <3> DEFINE up(n) == IF n < i THEN n ELSE n + 1
    <3>1. r[j] = q[up(j)] /\ r[k] = q[up(k)]
      BY <2>6
    <3>2. up(j) \in 1 .. Len(q) /\ up(k) \in 1 .. Len(q)
      BY <2>1
    <3>3. up(j) = up(k)
      <4> HIDE DEF up
      <4> QED BY <2>1, <2>8, <3>1, <3>2, Zenon DEF IsInjective
    <3> QED BY <2>1, <3>3
  <2>9. ASSUME IsInjective(q) PROVE Range(r) = Range(q) \ {s}
    <3>1. ASSUME NEW j \in 1 .. Len(q) - 1 PROVE r[j] \in Range(q) \ {s}
      <4> DEFINE k == IF j < i THEN j ELSE j + 1
      <4>1. r[j] = q[k] /\ k \in 1 .. Len(q) /\ k # i
        BY <2>1, <2>6
      <4> HIDE DEF k
      <4> QED BY <2>1, <2>9, <4>1 DEF IsInjective, Range
    <3>2. ASSUME NEW k \in 1 .. Len(q), q[k] # s PROVE \E j \in 1 .. Len(q) - 1 : r[j] = q[k]
      <4>1. CASE k < i
        <5>1. k \in 1 .. Len(q) - 1 BY <2>1, <4>1
        <5> QED BY <2>6, <4>1, <5>1
      <4>2. CASE ~(k < i)
        <5>1. k # i BY <2>1, <3>2
        <5>2. k - 1 \in 1 .. Len(q) - 1 /\ ~(k - 1 < i) /\ (k - 1) + 1 = k
          BY <2>1, <4>2, <5>1
        <5> QED BY <2>6, <5>2
      <4> QED BY <4>1, <4>2
    <3>3. Range(r) \subseteq Range(q) \ {s}
      BY <2>7, <3>1 DEF Range
    <3>4. Range(q) \ {s} \subseteq Range(r)
      BY <2>1, <2>7, <3>2 DEF Range
    <3> QED BY <3>3, <3>4
  <2> QED BY <1>2, <2>2, <2>6, <2>8, <2>9
<1> QED BY <1>1, <1>2

LEMMA ReleaseToSpansStep ==
  ASSUME NEW t \in Threads, ReleaseToSpans(t)
  PROVE  /\ pc[t] = "release"
         /\ \E s \in Spans : /\ me[t].list[s] > 0
                             /\ refcount' = [refcount EXCEPT ![s] = @ - 1]
                             /\ KeepSpan(t, s) \/ DropSpan(t, s)
         /\ UNCHANGED << cache_size_, slots, class, held >>
BY Zenon DEF ReleaseToSpans

LEMMA RemoveRangeStep ==
  ASSUME NEW t \in Threads, RemoveRange(t)
  PROVE  /\ pc[t] = "idle"
         /\ \E c \in Classes, n \in 1 .. Batch :
              \/ /\ Used(c) > 0 /\ DropEntry(c) /\ lock_[c] = NoThread
                 /\ held' = [held EXCEPT ![t] = Plus(@, LastEntry(c))]
                 /\ UNCHANGED << lock_, pc, me >>
              \/ /\ Lock(t, c) /\ Goto(t, "fetch", [Idle EXCEPT !.cl = c, !.N = n])
                 /\ UNCHANGED << slots, held >>
         /\ UNCHANGED << cache_size_, lists, spans >>
BY Zenon DEF RemoveRange

\* Span s, the first of the non-empty ones of class c, gives n of its objects.
FetchOf(t, c, s, n) ==
  /\ objects' = [objects EXCEPT ![s] = @ - n]
  /\ refcount' = [refcount EXCEPT ![s] = @ + n]
  /\ counter_' = [counter_ EXCEPT ![c] = @ - n]
  /\ \/ /\ objects[s] = n
        /\ nonempty_' = [nonempty_ EXCEPT ![c] = Tail(@)]
        /\ empty_' = [empty_ EXCEPT ![c] = @ \cup {s}]
     \/ objects[s] # n /\ UNCHANGED << nonempty_, empty_ >>
  /\ Goto(t, "fetch", [me[t] EXCEPT !.chain = Plus(@, One(s, n))])

LEMMA FetchStep ==
  ASSUME SumLaws, Typed, NEW t \in Threads, FetchFromOneSpans(t)
  PROVE  /\ pc[t] = "fetch" /\ me[t].cl \in Classes
         /\ \E s \in Spans : \E n \in Nat :
              /\ nonempty_[me[t].cl] # << >> /\ s = Head(nonempty_[me[t].cl])
              /\ n <= objects[s]
              /\ FetchOf(t, me[t].cl, s, n)
         /\ UNCHANGED << cvars, num_spans_, class, held >>
<1>1. me[t] \in Locals /\ GoodLocals("fetch", me[t])
  BY MyFacts DEF FetchFromOneSpans, Typed
<1>2. me[t].cl \in Classes /\ me[t].N \in Nat /\ me[t].chain \in Chains
  BY <1>1 DEF GoodLocals, Locals
<1>3. PICK c \in Classes : c = me[t].cl
  BY <1>2, Zenon
<1>4. nonempty_[c] \in Seq(Spans) /\ nonempty_[c] # << >>
  BY <1>3, Zenon DEF Typed, FetchFromOneSpans
<1>5. PICK s \in Spans : s = Head(nonempty_[c])
  BY <1>4, HeadTailFacts
<1>6. Got(t) \in Nat
  <2>1. DOMAIN me[t].chain = Spans /\ \A x \in Spans : me[t].chain[x] \in Nat
    BY <1>2 DEF Chains
  <2> QED BY <2>1, CentralAssumption, Zenon DEF Got, SumFunction, SumLaws, SumNatLaw
<1>7. objects[s] \in Nat
  BY DEF Typed
<1>8. PICK n : n = Min({me[t].N - Got(t), objects[s]})
  OBVIOUS
<1>9. n \in Nat /\ n <= objects[s]
  <2>1. me[t].N - Got(t) \in Int /\ me[t].N - Got(t) > 0
    BY <1>2, <1>6 DEF FetchFromOneSpans
  <2>2. PICK k \in Int : k = me[t].N - Got(t)
    BY <2>1, Zenon
  <2> QED BY <1>7, <1>8, <2>1, <2>2, MinPair, SMTT(30)
<1>10. FetchOf(t, c, s, n)
  BY <1>3, <1>5, <1>8, Zenon DEF FetchFromOneSpans, FetchOf
<1>11. pc[t] = "fetch" /\ UNCHANGED << cvars, num_spans_, class, held >>
  BY Zenon DEF FetchFromOneSpans
<1> QED BY <1>2, <1>3, <1>4, <1>5, <1>9, <1>10, <1>11, ZenonT(30)

LEMMA InitTyped ==
  ASSUME Init PROVE Typed
<1>1. \A c \in Classes : Min({InitEntries[c], max_cache_size_[c]}) \in Nat
  <2> SUFFICES ASSUME NEW c \in Classes PROVE Min({InitEntries[c], max_cache_size_[c]}) \in Nat
    OBVIOUS
  <2>1. InitEntries[c] \in Nat /\ max_cache_size_[c] \in Nat
    BY CentralAssumption
  <2> QED BY <2>1, MinPair
<1>2. cache_size_ \in [Classes -> Nat]
  BY <1>1 DEF Init
<1>3. PlacesOK
  BY IdleFacts, WhereFacts DEF Init, PlacesOK
<1>4. None \in [Spans -> Nat] /\ None \in [Spans -> Int] /\ None \in Chains
  BY DEF None, Chains
<1>5. held \in [Threads -> Chains]
  BY <1>4 DEF Init
<1>6. /\ slots \in [Classes -> Seq(Chains)]
      /\ nonempty_ \in [Classes -> Seq(Spans)]
      /\ empty_ \in [Classes -> SUBSET Spans]
      /\ class \in [Spans -> Classes \cup {Free}]
      /\ lock_ \in [Classes -> Threads \cup {NoThread}]
      /\ counter_ \in [Classes -> Int]
      /\ num_spans_ \in [Classes -> Int]
  BY DEF Init
<1> QED BY <1>2, <1>3, <1>4, <1>5, <1>6 DEF Init, Typed

\* The types and the locals are an invariant by themselves.
LEMMA NextTyped ==
  ASSUME SumLaws, Typed
  PROVE  [Next]_vars => Typed'
<1>SlotsFacts. ASSUME slots \in [Classes -> Seq(Chains)], NEW c \in Classes, Used(c) > 0
               PROVE  /\ LastEntry(c) \in Chains
                      /\ DropEntry(c) => slots' \in [Classes -> Seq(Chains)]
  <2> USE <1>SlotsFacts
  <2> QED BY SlotFacts, Zenon DEF LastEntry, DropEntry, Used
<1>GotoFacts. ASSUME PlacesOK, NEW t \in Threads, NEW p \in Where, NEW m \in Locals, GoodLocals(p, m), Goto(t, p, m)
              PROVE  PlacesOK'
  <2> USE <1>GotoFacts
  <2>1. \A u \in Threads : /\ pc'[u] = (IF u = t THEN p ELSE pc[u])
                           /\ me'[u] = (IF u = t THEN m ELSE me[u])
    BY DEF Goto, PlacesOK
  <2>2. pc' \in [Threads -> Where] /\ me' \in [Threads -> Locals]
    BY DEF Goto, PlacesOK
  <2>3. \A u \in Threads : GoodLocals(pc[u], me[u])
    BY DEF PlacesOK
  <2> QED BY <2>1, <2>2, <2>3, Zenon DEF PlacesOK
<1>ReleaseChainFacts. ASSUME PlacesOK, NEW t \in Threads, NEW m \in Locals, m.cl \in Classes, ReleaseChain(t, m)
                      PROVE  PlacesOK'
  <2> USE <1>ReleaseChainFacts
  <2> DEFINE n == [Idle EXCEPT !.list = m.chain, !.at = m.cl]
  <2>1. Goto(t, "release", n)
    BY DEF ReleaseChain
  <2>2. m.chain \in Chains
    BY DEF Locals
  <2>3. n \in Locals /\ GoodLocals("release", n)
    BY <2>2, ChainFacts, Zenon DEF Idle, Locals, GoodLocals
  <2> HIDE DEF n
  <2> QED BY <2>1, <2>3, WhereFacts, <1>GotoFacts, Zenon
<1>NothingEvictedFacts. ASSUME PlacesOK, NEW t \in Threads, NothingEvicted(t),
                               me[t].cl \in Classes, me[t].list = None, ~me[t].done, me[t].span = Free
                        PROVE  PlacesOK'
  <2> USE <1>NothingEvictedFacts
  <2> DEFINE n == [me[t] EXCEPT !.force = TRUE]
  <2>1. me[t] \in Locals
    BY MyFacts
  <2>2. n \in Locals /\ GoodLocals("evict", n)
    BY <2>1, Zenon DEF Locals, GoodLocals
  <2>3. ReleaseChain(t, me[t]) \/ Goto(t, "evict", n)
    BY DEF NothingEvicted
  <2> HIDE DEF n
  <2> QED BY <2>1, <2>2, <2>3, WhereFacts, <1>GotoFacts, <1>ReleaseChainFacts, Zenon
<1>LockFacts. ASSUME lock_ \in [Classes -> Threads \cup {NoThread}], NEW t \in Threads, NEW c \in Classes,
                     Lock(t, c) \/ Unlock(t, c) \/ lock_' = lock_
              PROVE  lock_' \in [Classes -> Threads \cup {NoThread}]
  <2> USE <1>LockFacts
  <2> QED BY DEF Lock, Unlock
<1>ExceptTyped. ASSUME NEW A, NEW B, NEW F \in [A -> B], NEW a \in A, NEW b \in B
                PROVE  [F EXCEPT ![a] = b] \in [A -> B]
  <2> USE <1>ExceptTyped
  <2> QED OBVIOUS
<1>AppendFacts. ASSUME slots \in [Classes -> Seq(Chains)], NEW c \in Classes, NEW f \in Chains,
                       slots' = [slots EXCEPT ![c] = Append(@, f)]
                PROVE  slots' \in [Classes -> Seq(Chains)]
  <2> USE <1>AppendFacts
  <2>1. Append(slots[c], f) \in Seq(Chains)
    BY AppendFacts
  <2> QED BY <2>1
<1>ListMinus. ASSUME NEW m \in Locals, NEW s \in Spans, m.list[s] > 0
              PROVE  Minus(m.list, One(s, 1)) \in Chains
  <2> USE <1>ListMinus
  <2>1. m.list \in Chains
    BY DEF Locals
  <2>2. \A u \in Spans : One(s, 1)[u] <= m.list[u]
    BY <2>1 DEF One, None, Chains
  <2> QED BY <2>1, <2>2, ChainFacts
<1>InsertRange. ASSUME NEW t \in Threads, InsertRange(t) PROVE Typed'
  <2> USE <1>InsertRange
  <2> USE DEF Typed
  <2>1. PICK c \in Classes : \E f \in Returns(t, c) : InsertStep(t, c, f)
    BY InsertRangeStep, Zenon
  <2>2. PICK f \in Returns(t, c) : InsertStep(t, c, f)
    BY <2>1
  <2> DEFINE locals == [Idle EXCEPT !.cl = c, !.chain = f]
  <2>3. f \in Chains /\ \A s \in Spans : f[s] <= held[t][s]
    BY CentralAssumption DEF Returns, Chains
  <2>4. held' \in [Threads -> Chains]
    BY <2>2, <2>3, ChainFacts DEF InsertStep
  <2>5. locals \in Locals /\ locals.cl \in Classes /\ GoodLocals("evict", locals)
    BY <2>3, ChainFacts, Zenon DEF Idle, Locals, GoodLocals
  <2>6. UNCHANGED << cache_size_, lists, spans >>
    BY DEF InsertRange
  <2>7. PlacesOK'
    <3>1. \/ Goto(t, "idle", Idle)
          \/ ReleaseChain(t, locals)
          \/ Goto(t, "evict", locals)
      BY <2>2, Zenon DEF InsertStep, StoreEntry
    <3> HIDE DEF locals
    <3> QED BY <2>5, <3>1, IdleFacts, WhereFacts, <1>GotoFacts, <1>ReleaseChainFacts, Zenon
  <2>8. slots' \in [Classes -> Seq(Chains)]
    <3>1. slots' = slots \/ slots' = [slots EXCEPT ![c] = Append(@, f)]
      BY <2>2, Zenon DEF InsertStep, StoreEntry
    <3> QED BY <2>3, <3>1, <1>AppendFacts, Zenon
  <2>9. lock_' \in [Classes -> Threads \cup {NoThread}]
    <3>1. Lock(t, c) \/ lock_' = lock_
      BY <2>2, Zenon DEF InsertStep
    <3> QED BY <3>1, <1>LockFacts
  <2> QED BY <2>4, <2>6, <2>7, <2>8, <2>9 DEF lists, spans
<1>Evict. ASSUME NEW t \in Threads, EvictFails(t) \/ EvictFrom(t) PROVE Typed'
  <2> USE <1>Evict
  <2> USE DEF Typed
  <2>1. me[t] \in Locals /\ pc[t] = "evict" /\ GoodLocals("evict", me[t])
    BY MyFacts, ZenonT(30) DEF EvictFails, EvictFrom
  <2>2. me[t].cl \in Classes /\ me[t].list = None /\ ~me[t].done /\ me[t].span = Free
    BY <2>1 DEF GoodLocals
  <2>3. CASE EvictFails(t)
    <3>1. PlacesOK'
      BY <2>2, <2>3, <1>NothingEvictedFacts DEF EvictFails
    <3> QED BY <2>3, <3>1, ZenonT(30) DEF EvictFails, cvars, lists, spans
  <2>4. CASE EvictFrom(t)
    <3>1. PICK v \in Classes : Goto(t, "invert", [me[t] EXCEPT !.victim = v])
      BY <2>4, Zenon DEF EvictFrom
    <3> DEFINE n == [me[t] EXCEPT !.victim = v]
    <3>2. n \in Locals /\ GoodLocals("invert", n)
      BY <2>1, <2>2, Zenon DEF Locals, GoodLocals
    <3>3. PlacesOK'
      <4> HIDE DEF n
      <4> QED BY <3>1, <3>2, WhereFacts, <1>GotoFacts, Zenon DEF n
    <3>4. lock_' \in [Classes -> Threads \cup {NoThread}]
      BY <2>2, <2>4, <1>LockFacts, Zenon DEF EvictFrom
    <3> QED BY <2>4, <3>3, <3>4 DEF EvictFrom, lists, spans
  <2> QED BY <2>3, <2>4
<1>ShrinkCache. ASSUME NEW t \in Threads, ShrinkCache(t) PROVE Typed'
  <2> USE <1>ShrinkCache
  <2> USE DEF Typed
  <2> DEFINE v == me[t].victim
             n == [me[t] EXCEPT !.list = LastEntry(v), !.at = v, !.done = TRUE]
             m(b) == [me[t] EXCEPT !.done = b]
  <2>1. me[t] \in Locals /\ pc[t] = "invert" /\ GoodLocals("invert", me[t])
    BY MyFacts, ShrinkCacheStep, Zenon
  <2>2. me[t].cl \in Classes /\ v \in Classes /\ me[t].list = None /\ me[t].span = Free
    BY <2>1 DEF GoodLocals
  <2>3. \A b \in BOOLEAN : m(b) \in Locals /\ GoodLocals("relock", m(b))
    BY <2>1, <2>2, Zenon DEF Locals, GoodLocals
  <2>4. UNCHANGED << lists, spans, held >>
    BY ShrinkCacheStep, Zenon
  <2>5. CASE Goto(t, "relock", m(FALSE)) /\ UNCHANGED << lock_, cache_size_, slots >>
    <3>1. PlacesOK'
      <4> HIDE DEF m
      <4> QED BY <2>3, <2>5, WhereFacts, <1>GotoFacts, Zenon
    <3> QED BY <2>4, <2>5, <3>1 DEF lists, spans
  <2>6. CASE /\ cache_size_[v] # 0
             /\ cache_size_' = [cache_size_ EXCEPT ![v] = @ - 1]
             /\ Goto(t, "relock", m(TRUE))
             /\ UNCHANGED << lock_, slots >>
    <3>1. PlacesOK'
      <4> HIDE DEF m
      <4> QED BY <2>3, <2>6, WhereFacts, <1>GotoFacts, Zenon
    <3>2. cache_size_' \in [Classes -> Nat]
      BY <2>2, <2>6
    <3> QED BY <2>4, <2>6, <3>1, <3>2, ZenonT(30) DEF lists, spans
  <2>7. CASE /\ cache_size_[v] # 0 /\ Used(v) = cache_size_[v]
             /\ Lock(t, v)
             /\ cache_size_' = [cache_size_ EXCEPT ![v] = @ - 1]
             /\ DropEntry(v)
             /\ Goto(t, "release", n)
    <3>1. cache_size_' \in [Classes -> Nat]
      BY <2>2, <2>7
    <3>2. LastEntry(v) \in Chains /\ slots' \in [Classes -> Seq(Chains)]
      BY <2>2, <2>7, <1>SlotsFacts, SMTT(30)
    <3>3. n \in Locals /\ GoodLocals("release", n)
      BY <2>1, <2>2, <3>2, Zenon DEF Locals, GoodLocals
    <3>4. PlacesOK'
      <4> HIDE DEF n
      <4> QED BY <2>7, <3>3, WhereFacts, <1>GotoFacts, Zenon
    <3>5. lock_' \in [Classes -> Threads \cup {NoThread}]
      BY <2>2, <2>7, <1>LockFacts, ZenonT(30)
    <3> QED BY <2>4, <3>1, <3>2, <3>4, <3>5 DEF lists, spans
  <2> QED BY <2>5, <2>6, <2>7, ShrinkCacheStep, ZenonT(30)
<1>Relock. ASSUME NEW t \in Threads, Relock(t) PROVE Typed'
  <2> USE <1>Relock
  <2> USE DEF Typed
  <2> DEFINE c == me[t].cl
  <2>1. me[t] \in Locals /\ GoodLocals("relock", me[t])
    BY MyFacts DEF Relock
  <2>2. c \in Classes /\ me[t].list = None /\ me[t].span = Free /\ me[t].chain \in Chains
    BY <2>1, ZenonT(30) DEF GoodLocals, Locals
  <2>3. UNCHANGED << lists, spans, held >>
    BY DEF Relock
  <2>4. CASE /\ UNCHANGED lock_
             /\ cache_size_' = [cache_size_ EXCEPT ![c] = @ + 1]
             /\ StoreEntry(t, c, me[t].chain)
    <3>1. PlacesOK'
      BY <2>4, IdleFacts, WhereFacts, <1>GotoFacts, Zenon DEF StoreEntry
    <3>2. slots' \in [Classes -> Seq(Chains)]
      BY <2>2, <2>4, <1>AppendFacts, Zenon DEF StoreEntry
    <3>3. cache_size_' \in [Classes -> Nat]
      BY <2>2, <2>4
    <3> QED BY <2>3, <2>4, <3>1, <3>2, <3>3, ZenonT(30) DEF lists, spans
  <2>5. CASE /\ Lock(t, c) /\ UNCHANGED << cache_size_, slots >>
             /\ ReleaseChain(t, me[t]) \/ (~me[t].done /\ NothingEvicted(t))
    <3>1. PlacesOK'
      BY <2>1, <2>2, <2>5, <1>ReleaseChainFacts, <1>NothingEvictedFacts, Zenon
    <3>2. lock_' \in [Classes -> Threads \cup {NoThread}]
      BY <2>2, <2>5, <1>LockFacts
    <3> QED BY <2>3, <2>5, <3>1, <3>2 DEF lists, spans
  <2> QED BY <2>4, <2>5, Zenon DEF Relock
<1>ReleaseToSpans. ASSUME NEW t \in Threads, ReleaseToSpans(t) PROVE Typed'
  <2> USE <1>ReleaseToSpans
  <2> USE DEF Typed
  <2> DEFINE c == me[t].at
  <2>1. me[t] \in Locals /\ GoodLocals("release", me[t])
    BY MyFacts, ReleaseToSpansStep, Zenon
  <2>2. c \in Classes /\ me[t].span = Free
    BY <2>1 DEF GoodLocals
  <2>3. PICK s \in Spans : /\ me[t].list[s] > 0
                           /\ refcount' = [refcount EXCEPT ![s] = @ - 1]
                           /\ KeepSpan(t, s) \/ DropSpan(t, s)
    BY ReleaseToSpansStep, Zenon
  <2>4. UNCHANGED << cache_size_, slots, class, held >>
    BY ReleaseToSpansStep, ZenonT(30)
  <2>5. refcount' \in [Spans -> Int]
    BY <2>3
  <2> DEFINE m == [me[t] EXCEPT !.list = Minus(@, One(s, 1))]
             n == [me[t] EXCEPT !.list = Minus(@, One(s, 1)), !.span = s]
  <2>6. Minus(me[t].list, One(s, 1)) \in Chains
    BY <2>1, <2>3, <1>ListMinus
  <2>7. /\ m \in Locals /\ GoodLocals("release", m)
        /\ n \in Locals /\ GoodLocals("delete", n)
    BY <2>1, <2>2, <2>6, Zenon DEF Locals, GoodLocals
  <2>8. CASE KeepSpan(t, s)
    <3>1. Goto(t, "release", m)
      BY <2>8, Zenon DEF KeepSpan
    <3>2. PlacesOK'
      <4> HIDE DEF m
      <4> QED BY <2>7, <3>1, WhereFacts, <1>GotoFacts, Zenon
    <3>3. objects' \in [Spans -> Nat]
      BY <2>8, UpNat, ZenonT(30) DEF KeepSpan
    <3>4. nonempty_' = nonempty_ \/ nonempty_' = [nonempty_ EXCEPT ![c] = << s >> \o @]
      BY <2>8, Zenon DEF KeepSpan
    <3>5. empty_' = empty_ \/ empty_' = [empty_ EXCEPT ![c] = @ \ {s}]
      BY <2>8, Zenon DEF KeepSpan
    <3>6. nonempty_' \in [Classes -> Seq(Spans)] /\ empty_' \in [Classes -> SUBSET Spans]
      <4>1. nonempty_[c] \in Seq(Spans) /\ << s >> \in Seq(Spans)
        BY <2>2
      <4>2. << s >> \o nonempty_[c] \in Seq(Spans)
        BY <4>1, ConcatFacts
      <4>3. empty_[c] \ {s} \in SUBSET Spans
        BY <2>2, ZenonT(30)
      <4>4. [nonempty_ EXCEPT ![c] = << s >> \o @] \in [Classes -> Seq(Spans)]
        BY <2>2, <4>2, <1>ExceptTyped, ZenonT(30)
      <4>5. [empty_ EXCEPT ![c] = @ \ {s}] \in [Classes -> SUBSET Spans]
        BY <2>2, <4>3, <1>ExceptTyped
      <4>6. nonempty_' \in [Classes -> Seq(Spans)]
        BY <3>4, <4>4, Zenon
      <4> QED BY <3>5, <4>5, <4>6, Zenon
    <3>7. counter_' \in [Classes -> Int]
      BY <2>2, <2>8, UpInt, ZenonT(30) DEF KeepSpan
    <3>8. UNCHANGED << lock_, num_spans_ >>
      BY <2>8 DEF KeepSpan
    <3> QED BY <2>4, <2>5, <3>2, <3>3, <3>6, <3>7, <3>8
  <2>9. CASE DropSpan(t, s)
    <3>1. Goto(t, "delete", n)
      BY <2>9, Zenon DEF DropSpan
    <3>2. PlacesOK'
      <4> HIDE DEF n
      <4> QED BY <2>7, <3>1, WhereFacts, <1>GotoFacts, Zenon
    <3>3. objects' \in [Spans -> Nat]
      BY <2>9 DEF DropSpan
    <3>4. nonempty_' \in [Classes -> Seq(Spans)]
      BY <2>2, <2>9, UnlinkFacts DEF DropSpan
    <3>5. empty_' \in [Classes -> SUBSET Spans]
      BY <2>2, <2>9, ZenonT(30) DEF DropSpan
    <3>6. counter_' \in [Classes -> Int] /\ num_spans_' \in [Classes -> Int]
      <4>1. PerSpan \in Int /\ counter_[c] + 1 - PerSpan \in Int /\ num_spans_[c] - 1 \in Int
        <5>1. PerSpan \in Int /\ counter_[c] \in Int /\ num_spans_[c] \in Int
          BY <2>2, CentralAssumption, NatIsInt, ZenonT(30)
        <5> QED BY <5>1, CountsInt, Zenon
      <4> QED BY <2>2, <2>9, <4>1, ZenonT(30) DEF DropSpan
    <3>7. lock_' \in [Classes -> Threads \cup {NoThread}]
      BY <2>2, <2>9, <1>LockFacts DEF DropSpan
    <3> QED BY <2>4, <2>5, <3>2, <3>3, <3>4, <3>5, <3>6, <3>7
  <2> QED BY <2>3, <2>8, <2>9, Zenon
<1>DeleteSpan. ASSUME NEW t \in Threads, DeleteSpan(t) PROVE Typed'
  <2> USE <1>DeleteSpan
  <2> USE DEF Typed
  <2> DEFINE m == [me[t] EXCEPT !.span = Free]
  <2>1. me[t] \in Locals /\ GoodLocals("delete", me[t])
    BY MyFacts DEF DeleteSpan
  <2>2. m \in Locals /\ GoodLocals("deleted", m)
    BY <2>1, Zenon DEF Locals, GoodLocals
  <2>3. PlacesOK'
    <3>1. Goto(t, "deleted", m)
      BY Zenon DEF DeleteSpan
    <3> HIDE DEF m
    <3> QED BY <2>2, <3>1, WhereFacts, <1>GotoFacts, Zenon
  <2>4. class' \in [Spans -> Classes \cup {Free}]
    BY ZenonT(30) DEF DeleteSpan
  <2> QED BY <2>3, <2>4 DEF DeleteSpan, cvars, lists
<1>Deleted. ASSUME NEW t \in Threads, Deleted(t) PROVE Typed'
  <2> USE <1>Deleted
  <2> USE DEF Typed
  <2>1. me[t] \in Locals /\ GoodLocals("deleted", me[t])
    BY MyFacts, ZenonT(30) DEF Deleted
  <2>2. GoodLocals("release", me[t]) /\ me[t].at \in Classes
    BY <2>1 DEF GoodLocals
  <2>3. PlacesOK'
    BY <2>1, <2>2, WhereFacts, <1>GotoFacts, Zenon DEF Deleted
  <2>4. lock_' \in [Classes -> Threads \cup {NoThread}]
    BY <2>2, <1>LockFacts, ZenonT(30) DEF Deleted
  <2> QED BY <2>3, <2>4, ZenonT(30) DEF Deleted, lists, spans
<1>Released. ASSUME NEW t \in Threads, Released(t) PROVE Typed'
  <2> USE <1>Released
  <2> USE DEF Typed
  <2>1. me[t] \in Locals /\ GoodLocals("release", me[t])
    BY MyFacts, ZenonT(30) DEF Released
  <2>2. me[t].at \in Classes /\ me[t].list = None
    BY <2>1, ZenonT(30) DEF GoodLocals, Released
  <2>3. PlacesOK'
    <3>1. CASE me[t].at = me[t].victim
      <4>1. GoodLocals("relock", me[t])
        BY <2>1, <2>2, <3>1, CentralAssumption, ZenonT(30) DEF GoodLocals
      <4>2. Goto(t, "relock", me[t])
        BY <3>1 DEF Released
      <4> QED BY <2>1, <4>1, <4>2, WhereFacts, <1>GotoFacts, Zenon
    <3>2. CASE me[t].at # me[t].victim
      BY <3>2, IdleFacts, WhereFacts, <1>GotoFacts, Zenon DEF Released
    <3> QED BY <3>1, <3>2
  <2>4. lock_' \in [Classes -> Threads \cup {NoThread}]
    BY <2>2, <1>LockFacts DEF Released
  <2> QED BY <2>3, <2>4, ZenonT(30) DEF Released, lists, spans
<1>RemoveRange. ASSUME NEW t \in Threads, RemoveRange(t) PROVE Typed'
  <2> USE <1>RemoveRange
  <2> USE DEF Typed
  <2>1. UNCHANGED << cache_size_, lists, spans >>
    BY RemoveRangeStep, Zenon
  <2>2. PICK c \in Classes, n \in 1 .. Batch :
                \/ /\ Used(c) > 0 /\ DropEntry(c)
                   /\ held' = [held EXCEPT ![t] = Plus(@, LastEntry(c))]
                   /\ UNCHANGED << lock_, pc, me >>
                \/ /\ Lock(t, c) /\ Goto(t, "fetch", [Idle EXCEPT !.cl = c, !.N = n])
                   /\ UNCHANGED << slots, held >>
    BY RemoveRangeStep, Zenon
  <2>3. CASE /\ Used(c) > 0 /\ DropEntry(c)
             /\ held' = [held EXCEPT ![t] = Plus(@, LastEntry(c))]
             /\ UNCHANGED << lock_, pc, me >>
    <3>1. LastEntry(c) \in Chains /\ slots' \in [Classes -> Seq(Chains)]
      BY <2>3, <1>SlotsFacts
    <3>2. held' \in [Threads -> Chains]
      BY <2>3, <3>1, ChainFacts, ZenonT(30)
    <3>3. PlacesOK'
      BY <2>3 DEF PlacesOK
    <3> QED BY <2>1, <2>3, <3>1, <3>2, <3>3 DEF lists, spans
  <2>4. CASE /\ Lock(t, c) /\ Goto(t, "fetch", [Idle EXCEPT !.cl = c, !.N = n])
             /\ UNCHANGED << slots, held >>
    <3> DEFINE m == [Idle EXCEPT !.cl = c, !.N = n]
    <3>1. n \in Nat
      BY CentralAssumption
    <3>2. m \in Locals /\ GoodLocals("fetch", m)
      BY <3>1, ChainFacts, Zenon DEF Idle, Locals, GoodLocals
    <3>3. PlacesOK'
      <4>1. Goto(t, "fetch", m)
        BY <2>4
      <4> HIDE DEF m
      <4> QED BY <3>2, <4>1, WhereFacts, <1>GotoFacts, Zenon
    <3>4. lock_' \in [Classes -> Threads \cup {NoThread}]
      BY <2>4, <1>LockFacts, ZenonT(30)
    <3> QED BY <2>1, <2>4, <3>3, <3>4 DEF lists, spans
  <2> QED BY <2>2, <2>3, <2>4, ZenonT(30)
<1>Fetch. ASSUME NEW t \in Threads, FetchFromOneSpans(t) PROVE Typed'
  <2> USE <1>Fetch
  <2> USE DEF Typed
  <2>1. me[t] \in Locals /\ GoodLocals("fetch", me[t])
    BY FetchStep, MyFacts, Zenon
  <2>2. PICK c \in Classes : c = me[t].cl
    BY FetchStep, Zenon
  <2>3. PICK s \in Spans : \E n \in Nat :
           /\ nonempty_[c] # << >> /\ s = Head(nonempty_[c])
           /\ n <= objects[s]
           /\ FetchOf(t, c, s, n)
    BY <2>2, FetchStep, Zenon
  <2>4. PICK n \in Nat : n <= objects[s] /\ FetchOf(t, c, s, n)
    BY <2>3, Zenon
  <2>5. objects[s] - n \in Nat /\ refcount[s] + n \in Int /\ counter_[c] - n \in Int
    BY <2>4
  <2>6. objects' \in [Spans -> Nat] /\ refcount' \in [Spans -> Int] /\ counter_' \in [Classes -> Int]
    BY <2>4, <2>5, <1>ExceptTyped, Zenon DEF FetchOf
  <2>7. nonempty_' \in [Classes -> Seq(Spans)]
    <3>1. Tail(nonempty_[c]) \in Seq(Spans)
      <4>1. nonempty_[c] \in Seq(Spans)
        OBVIOUS
      <4> QED BY <2>3, <4>1, HeadTailFacts, Zenon
    <3>2. [nonempty_ EXCEPT ![c] = Tail(@)] \in [Classes -> Seq(Spans)]
      BY <3>1, <1>ExceptTyped
    <3> QED BY <2>4, <3>2, Zenon DEF FetchOf
  <2>8. empty_' \in [Classes -> SUBSET Spans]
    <3>1. empty_[c] \cup {s} \in SUBSET Spans
      OBVIOUS
    <3> QED BY <2>4, <3>1, <1>ExceptTyped, ZenonT(30) DEF FetchOf
  <2>9. PICK f \in Chains : f = Plus(me[t].chain, One(s, n))
    BY <2>1, ChainFacts DEF Locals
  <2> DEFINE m == [me[t] EXCEPT !.chain = f]
  <2>10. m \in Locals /\ GoodLocals("fetch", m)
    BY <2>1, <2>9, Zenon DEF Locals, GoodLocals
  <2>11. PlacesOK'
    <3>1. Goto(t, "fetch", m)
      BY <2>4, <2>9, Zenon DEF FetchOf
    <3> HIDE DEF m
    <3> QED BY <2>10, <3>1, WhereFacts, <1>GotoFacts, Zenon
  <2>12. UNCHANGED << cvars, num_spans_, class, held >>
    BY FetchStep, ZenonT(30)
  <2> QED BY <2>6, <2>7, <2>8, <2>11, <2>12, ZenonT(30) DEF cvars
<1>Populate. ASSUME NEW t \in Threads, Populate(t) PROVE Typed'
  <2> USE <1>Populate
  <2> USE DEF Typed
  <2>1. me[t] \in Locals /\ GoodLocals("fetch", me[t])
    BY MyFacts, ZenonT(30) DEF Populate
  <2>2. GoodLocals("populate", me[t]) /\ me[t].cl \in Classes
    BY <2>1 DEF GoodLocals
  <2>3. PlacesOK'
    BY <2>1, <2>2, WhereFacts, <1>GotoFacts, ZenonT(30) DEF Populate
  <2>4. lock_' \in [Classes -> Threads \cup {NoThread}]
    BY <2>2, <1>LockFacts DEF Populate
  <2> QED BY <2>3, <2>4, ZenonT(30) DEF Populate, lists, spans
<1>NewSpan. ASSUME NEW t \in Threads, NewSpan(t) PROVE Typed'
  <2> USE <1>NewSpan
  <2> USE DEF Typed
  <2>1. me[t] \in Locals /\ GoodLocals("populate", me[t]) /\ UNCHANGED << cvars, lists, held >>
    BY MyFacts DEF NewSpan
  <2>2. CASE Goto(t, "populated", me[t]) /\ UNCHANGED spans
    <3>1. GoodLocals("populated", me[t])
      BY <2>1 DEF GoodLocals
    <3>2. PlacesOK'
      BY <2>1, <2>2, <3>1, WhereFacts, <1>GotoFacts, Zenon
    <3> QED BY <2>1, <2>2, <3>2, ZenonT(30) DEF cvars, lists, spans
  <2>3. ASSUME NEW s \in Spans,
               class' = [class EXCEPT ![s] = me[t].cl],
               objects' = [objects EXCEPT ![s] = PerSpan],
               refcount' = [refcount EXCEPT ![s] = 0],
               Goto(t, "populated", [me[t] EXCEPT !.span = s])
        PROVE  Typed'
    <3> DEFINE m == [me[t] EXCEPT !.span = s]
    <3>1. m \in Locals /\ GoodLocals("populated", m)
      BY <2>1, Zenon DEF Locals, GoodLocals
    <3>2. PlacesOK'
      <4>1. Goto(t, "populated", m)
        BY <2>3
      <4> HIDE DEF m
      <4> QED BY <3>1, <4>1, WhereFacts, <1>GotoFacts, Zenon
    <3>3. /\ class' \in [Spans -> Classes \cup {Free}]
          /\ objects' \in [Spans -> Nat] /\ refcount' \in [Spans -> Int]
      <4>1. me[t].cl \in Classes /\ PerSpan \in Nat
        BY <2>1, CentralAssumption DEF GoodLocals
      <4> QED BY <2>3, <4>1
    <3> QED BY <2>1, <3>2, <3>3 DEF cvars, lists
  <2> QED BY <2>2, <2>3, Zenon DEF NewSpan
<1>Populated. ASSUME NEW t \in Threads, Populated(t) PROVE Typed'
  <2> USE <1>Populated
  <2> USE DEF Typed
  <2> DEFINE c == me[t].cl
             m == [me[t] EXCEPT !.span = Free, !.done = TRUE]
  <2>1. me[t] \in Locals /\ GoodLocals("populated", me[t])
    BY MyFacts DEF Populated
  <2>2. m \in Locals /\ GoodLocals("fetch", m) /\ c \in Classes /\ me[t].span \in Spans \cup {Free}
    BY <2>1, Zenon DEF Locals, GoodLocals
  <2>3. PlacesOK'
    <3>1. Goto(t, "fetch", m)
      BY Zenon DEF Populated
    <3> HIDE DEF m
    <3> QED BY <2>2, <3>1, WhereFacts, <1>GotoFacts, Zenon
  <2>4. lock_' \in [Classes -> Threads \cup {NoThread}]
    BY <2>2, <1>LockFacts, ZenonT(30) DEF Populated
  <2>5. CASE UNCHANGED lists
    BY <2>3, <2>4, <2>5 DEF Populated, lists, spans
  <2>6. CASE /\ me[t].span # Free
             /\ nonempty_' = [nonempty_ EXCEPT ![c] = << me[t].span >> \o @]
             /\ num_spans_' = [num_spans_ EXCEPT ![c] = @ + 1]
             /\ counter_' = [counter_ EXCEPT ![c] = @ + PerSpan]
             /\ UNCHANGED empty_
    <3>1. nonempty_' \in [Classes -> Seq(Spans)]
      <4>1. nonempty_[c] \in Seq(Spans) /\ << me[t].span >> \in Seq(Spans)
        BY <2>2, <2>6, OneSpanSeq, ZenonT(30)
      <4>2. << me[t].span >> \o nonempty_[c] \in Seq(Spans)
        BY <4>1, ConcatFacts
      <4>3. [nonempty_ EXCEPT ![c] = << me[t].span >> \o @] \in [Classes -> Seq(Spans)]
        BY <2>2, <4>2, <1>ExceptTyped
      <4> QED BY <2>6, <4>3, Zenon
    <3>2. counter_' \in [Classes -> Int] /\ num_spans_' \in [Classes -> Int]
      <4>1. PerSpan \in Int
        BY CentralAssumption
      <4>2. counter_ \in [Classes -> Int] /\ num_spans_ \in [Classes -> Int] /\ c \in Classes
        BY <2>2, Zenon
      <4> HIDE DEF Typed, c
      <4> QED BY <2>6, <4>1, <4>2
    <3> QED BY <2>3, <2>4, <2>6, <3>1, <3>2, Zenon DEF Populated, spans
  <2> QED BY <2>5, <2>6, Zenon DEF Populated
<1>Fetched. ASSUME NEW t \in Threads, Fetched(t) PROVE Typed'
  <2> USE <1>Fetched
  <2> USE DEF Typed
  <2>1. me[t] \in Locals /\ GoodLocals("fetch", me[t])
    BY MyFacts, ZenonT(30) DEF Fetched
  <2>2. me[t].cl \in Classes /\ me[t].chain \in Chains
    BY <2>1 DEF Locals, GoodLocals
  <2>3. PlacesOK'
    BY IdleFacts, WhereFacts, <1>GotoFacts, Zenon DEF Fetched
  <2>4. lock_' \in [Classes -> Threads \cup {NoThread}]
    BY <2>2, <1>LockFacts, ZenonT(30) DEF Fetched
  <2>5. held' \in [Threads -> Chains]
    BY <2>2, ChainFacts DEF Fetched
  <2> QED BY <2>3, <2>4, <2>5, Zenon DEF Fetched, lists, spans
<1>Stutter. ASSUME UNCHANGED vars PROVE Typed'
  <2>1. PlacesOK'
    BY <1>Stutter DEF Typed, PlacesOK, vars
  <2> QED BY <1>Stutter, <2>1 DEF Typed, vars
<1> QED BY <1>InsertRange, <1>Evict, <1>ShrinkCache, <1>Relock, <1>ReleaseToSpans,
           <1>DeleteSpan, <1>Deleted, <1>Released, <1>RemoveRange, <1>Fetch, <1>Populate,
           <1>NewSpan, <1>Populated, <1>Fetched, <1>Stutter, Zenon DEF Next

-----------------------------------------------------------------------------
(* The locks. *)

Outside == {"idle", "invert", "relock", "delete", "deleted", "populate", "populated"}

\* The lock of a class names the thread that works on it.
LEMMA NextLocks ==
  ASSUME SumLaws, Typed, LocksHeld
  PROVE  [Next]_vars => LocksHeld'
<1>LockMove. ASSUME NEW t \in Threads, NEW p, NEW m, NEW c \in Classes, Goto(t, p, m),
                    \/ /\ lock_' = lock_
                       /\ \A d \in Classes : Holds(p, m, d) <=> Holds(pc[t], me[t], d)
                    \/ /\ Lock(t, c)
                       /\ \A d \in Classes : ~Holds(pc[t], me[t], d) /\ (Holds(p, m, d) <=> d = c)
                    \/ /\ Unlock(t, c)
                       /\ \A d \in Classes : ~Holds(p, m, d) /\ (Holds(pc[t], me[t], d) <=> d = c)
             PROVE  LocksHeld'
  <2> USE <1>LockMove
  <2>1. \A u \in Threads : /\ pc'[u] = (IF u = t THEN p ELSE pc[u])
                           /\ me'[u] = (IF u = t THEN m ELSE me[u])
    BY DEF Goto, Typed, PlacesOK
  <2>2. SUFFICES ASSUME NEW u \in Threads, NEW d \in Classes
                 PROVE  lock_'[d] = u <=> Holds(pc'[u], me'[u], d)
    BY Zenon DEF LocksHeld
  <2>3. lock_[d] = u <=> Holds(pc[u], me[u], d)
    BY ZenonT(30) DEF LocksHeld
  <2>4. lock_[d] = t <=> Holds(pc[t], me[t], d)
    BY DEF LocksHeld
  <2>5. u # NoThread /\ t # NoThread
    BY CentralAssumption, Zenon
  <2>6. lock_ \in [Classes -> Threads \cup {NoThread}]
    BY DEF Typed
  <2>7. CASE /\ lock_' = lock_
             /\ \A e \in Classes : Holds(p, m, e) <=> Holds(pc[t], me[t], e)
    BY <2>1, <2>3, <2>4, <2>7, Zenon
  <2>8. CASE /\ Lock(t, c)
             /\ \A e \in Classes : ~Holds(pc[t], me[t], e) /\ (Holds(p, m, e) <=> e = c)
    <3>1. lock_[c] = NoThread /\ lock_'[d] = (IF d = c THEN t ELSE lock_[d])
      BY <2>6, <2>8 DEF Lock
    <3>2. CASE u = t
      BY <2>1, <2>3, <2>8, <3>1, <3>2, Zenon
    <3>3. CASE u # t
      BY <2>1, <2>3, <2>5, <3>1, <3>3, ZenonT(30)
    <3> QED BY <3>2, <3>3, ZenonT(30)
  <2>9. CASE /\ Unlock(t, c)
             /\ \A e \in Classes : ~Holds(p, m, e) /\ (Holds(pc[t], me[t], e) <=> e = c)
    <3>1. lock_'[d] = (IF d = c THEN NoThread ELSE lock_[d])
      BY <2>6, <2>9, ZenonT(30) DEF Unlock
    <3>2. lock_[c] = t
      BY <2>9 DEF LocksHeld
    <3>3. CASE u = t
      BY <2>1, <2>3, <2>5, <2>9, <3>1, <3>3, Zenon
    <3>4. CASE u # t
      BY <2>1, <2>3, <2>5, <3>1, <3>2, <3>4, Zenon
    <3> QED BY <3>3, <3>4
  <2> QED BY <2>7, <2>8, <2>9, Zenon
<1>HoldsOne. ASSUME NEW p, NEW m, NEW c, Holds(p, m, c)
             PROVE  \A d : Holds(p, m, d) <=> d = c
  <2> USE <1>HoldsOne
  <2> QED BY DEF Holds
<1>HoldsNone. ASSUME NEW p \in Outside, NEW m PROVE \A d : ~Holds(p, m, d)
  <2> USE <1>HoldsNone
  <2> QED BY DEF Holds, Outside
\* A thread that holds no lock goes on without one, or takes one; one that holds a lock
\* keeps it or gives it back.
<1>LockOut. ASSUME NEW t \in Threads, NEW p \in Outside, NEW m, pc[t] \in Outside,
                   Goto(t, p, m), lock_' = lock_
            PROVE  LocksHeld'
  <2> USE <1>LockOut
  <2>1. \A d \in Classes : Holds(p, m, d) <=> Holds(pc[t], me[t], d)
    BY <1>HoldsNone, Zenon
  <2>2. CASE Classes = {}
    BY <2>2 DEF LocksHeld
  <2>3. ASSUME NEW c \in Classes PROVE LocksHeld'
    BY <2>1, <1>LockMove, Zenon
  <2> QED BY <2>2, <2>3
<1>LockTake. ASSUME NEW t \in Threads, NEW p, NEW m, NEW c \in Classes, pc[t] \in Outside,
                    Goto(t, p, m), Lock(t, c), Holds(p, m, c)
             PROVE  LocksHeld'
  <2> USE <1>LockTake
  <2>1. \A d \in Classes : ~Holds(pc[t], me[t], d) /\ (Holds(p, m, d) <=> d = c)
    BY <1>HoldsOne, <1>HoldsNone, Zenon
  <2> QED BY <2>1, <1>LockMove, Zenon
<1>LockStay. ASSUME NEW t \in Threads, NEW p, NEW m, NEW c \in Classes,
                    Goto(t, p, m), lock_' = lock_, Holds(pc[t], me[t], c), Holds(p, m, c)
             PROVE  LocksHeld'
  <2> USE <1>LockStay
  <2>1. \A d \in Classes : Holds(p, m, d) <=> Holds(pc[t], me[t], d)
    BY <1>HoldsOne, <1>HoldsNone, Zenon
  <2> QED BY <2>1, <1>LockMove, Zenon
<1>LockDrop. ASSUME NEW t \in Threads, NEW p \in Outside, NEW m, NEW c \in Classes,
                    Goto(t, p, m), Unlock(t, c), Holds(pc[t], me[t], c)
             PROVE  LocksHeld'
  <2> USE <1>LockDrop
  <2>1. \A d \in Classes : ~Holds(p, m, d) /\ (Holds(pc[t], me[t], d) <=> d = c)
    BY <1>HoldsOne, <1>HoldsNone, Zenon
  <2> QED BY <2>1, <1>LockMove, Zenon
<1>LocksNothingEvicted. ASSUME NEW t \in Threads, me[t].cl \in Classes, NothingEvicted(t),
                               \/ pc[t] = "evict" /\ lock_' = lock_
                               \/ pc[t] = "relock" /\ Lock(t, me[t].cl)
                        PROVE  LocksHeld'
  <2> USE <1>LocksNothingEvicted
  <2>1. PICK c \in Classes : c = me[t].cl
    OBVIOUS
  <2> DEFINE m == [Idle EXCEPT !.list = me[t].chain, !.at = me[t].cl]
             n == [me[t] EXCEPT !.force = TRUE]
  <2>2. m.at = c /\ n.cl = c
    <3>1. me[t] \in Locals
      BY MyFacts DEF Typed
    <3> QED BY <2>1, <3>1, ZenonT(30) DEF Idle, Locals
  <2>3. Goto(t, "release", m) \/ Goto(t, "evict", n)
    BY Zenon DEF NothingEvicted, ReleaseChain
  <2> HIDE DEF m, n
  <2>4. Holds("release", m, c) /\ Holds("evict", n, c)
    BY <2>2 DEF Holds
  <2>5. CASE pc[t] = "evict" /\ lock_' = lock_
    <3>1. Holds(pc[t], me[t], c)
      BY <2>1, <2>5 DEF Holds
    <3> QED BY <2>3, <2>4, <2>5, <3>1, <1>LockStay, Zenon
  <2>6. CASE pc[t] = "relock" /\ Lock(t, c)
    <3>1. pc[t] \in Outside
      BY <2>6 DEF Outside
    <3> QED BY <2>3, <2>4, <2>6, <3>1, <1>LockTake, Zenon
  <2> QED BY <2>1, <2>5, <2>6, ZenonT(30)
<1>InsertRange. ASSUME NEW t \in Threads, InsertRange(t) PROVE LocksHeld'
  <2> USE <1>InsertRange
  <2>1. PICK c \in Classes : \E f \in Returns(t, c) : InsertStep(t, c, f)
    BY InsertRangeStep, Zenon
  <2>2. PICK f \in Returns(t, c) : InsertStep(t, c, f)
    BY <2>1
  <2> DEFINE m == [Idle EXCEPT !.list = f, !.at = c]
             n == [Idle EXCEPT !.cl = c, !.chain = f]
  <2>3. pc[t] = "idle" /\ m.at = c /\ n.cl = c
    BY DEF InsertRange, Idle
  <2>4. \/ lock_' = lock_ /\ Goto(t, "idle", Idle)
        \/ Lock(t, c) /\ Goto(t, "release", m)
        \/ Lock(t, c) /\ Goto(t, "evict", n)
    BY <2>2 DEF InsertStep, StoreEntry, ReleaseChain, Idle
  <2> HIDE DEF m, n
  <2>5. Holds("release", m, c) /\ Holds("evict", n, c) /\ pc[t] \in Outside /\ "idle" \in Outside
    BY <2>3 DEF Holds, Outside
  <2>6. CASE lock_' = lock_ /\ Goto(t, "idle", Idle)
    BY <2>5, <2>6, <1>LockOut
  <2>7. CASE Lock(t, c) /\ Goto(t, "release", m)
    BY <2>5, <2>7, <1>LockTake, Zenon
  <2>8. CASE Lock(t, c) /\ Goto(t, "evict", n)
    BY <2>5, <2>8, <1>LockTake, Zenon
  <2> QED BY <2>4, <2>6, <2>7, <2>8
<1>Evict. ASSUME NEW t \in Threads, EvictFails(t) \/ EvictFrom(t) PROVE LocksHeld'
  <2> USE <1>Evict
  <2>1. me[t] \in Locals /\ pc[t] = "evict" /\ GoodLocals("evict", me[t])
    BY MyFacts DEF EvictFails, EvictFrom, Typed
  <2>2. me[t].cl \in Classes
    BY <2>1, Zenon DEF GoodLocals
  <2>3. CASE EvictFails(t)
    BY <2>1, <2>2, <2>3, <1>LocksNothingEvicted DEF EvictFails, cvars
  <2>4. CASE EvictFrom(t)
    <3>1. PICK v \in Classes : Goto(t, "invert", [me[t] EXCEPT !.victim = v])
      BY <2>4 DEF EvictFrom
    <3>2. Unlock(t, me[t].cl)
      BY <2>4 DEF EvictFrom
    <3>3. Holds(pc[t], me[t], me[t].cl) /\ "invert" \in Outside
      BY <2>1 DEF Holds, Outside
    <3> QED BY <2>2, <3>1, <3>2, <3>3, <1>LockDrop, Zenon
  <2> QED BY <2>3, <2>4
<1>ShrinkCache. ASSUME NEW t \in Threads, ShrinkCache(t) PROVE LocksHeld'
  <2> USE <1>ShrinkCache
  <2>1. me[t] \in Locals /\ pc[t] = "invert" /\ GoodLocals("invert", me[t])
    BY MyFacts, ShrinkCacheStep, Zenon DEF Typed
  <2>2. PICK v \in Classes : v = me[t].victim
    BY <2>1 DEF GoodLocals
  <2> DEFINE n == [me[t] EXCEPT !.list = LastEntry(v), !.at = v, !.done = TRUE]
  <2>3. n.at = v
    BY <2>1, Zenon DEF Locals
  <2>4. \/ lock_' = lock_ /\ \E b \in BOOLEAN : Goto(t, "relock", [me[t] EXCEPT !.done = b])
        \/ Lock(t, v) /\ Goto(t, "release", n)
    BY <2>2, ShrinkCacheStep, Zenon
  <2> HIDE DEF n
  <2>5. Holds("release", n, v) /\ pc[t] \in Outside /\ "relock" \in Outside
    BY <2>1, <2>3 DEF Holds, Outside
  <2>6. CASE lock_' = lock_ /\ \E b \in BOOLEAN : Goto(t, "relock", [me[t] EXCEPT !.done = b])
    BY <2>5, <2>6, <1>LockOut, Zenon
  <2>7. CASE Lock(t, v) /\ Goto(t, "release", n)
    BY <2>5, <2>7, <1>LockTake, Zenon
  <2> QED BY <2>4, <2>6, <2>7, Zenon
<1>Relock. ASSUME NEW t \in Threads, Relock(t) PROVE LocksHeld'
  <2> USE <1>Relock
  <2>1. me[t] \in Locals /\ pc[t] = "relock" /\ GoodLocals("relock", me[t])
    BY MyFacts, ZenonT(30) DEF Relock, Typed
  <2>2. PICK c \in Classes : c = me[t].cl
    BY <2>1 DEF GoodLocals
  <2> DEFINE m == [Idle EXCEPT !.list = me[t].chain, !.at = me[t].cl]
  <2>3. m.at = c
    BY <2>2 DEF Idle
  <2>4. \/ lock_' = lock_ /\ Goto(t, "idle", Idle)
        \/ Lock(t, c) /\ Goto(t, "release", m)
        \/ Lock(t, c) /\ NothingEvicted(t)
    BY <2>2, Zenon DEF Relock, StoreEntry, ReleaseChain
  <2> HIDE DEF m
  <2>5. Holds("release", m, c) /\ pc[t] \in Outside /\ "idle" \in Outside
    BY <2>1, <2>3 DEF Holds, Outside
  <2>6. CASE lock_' = lock_ /\ Goto(t, "idle", Idle)
    BY <2>5, <2>6, <1>LockOut, Zenon
  <2>7. CASE Lock(t, c) /\ Goto(t, "release", m)
    BY <2>5, <2>7, <1>LockTake, Zenon
  <2>8. CASE Lock(t, c) /\ NothingEvicted(t)
    BY <2>1, <2>2, <2>8, <1>LocksNothingEvicted, Zenon
  <2> QED BY <2>4, <2>6, <2>7, <2>8, ZenonT(30)
<1>ReleaseToSpans. ASSUME NEW t \in Threads, ReleaseToSpans(t) PROVE LocksHeld'
  <2> USE <1>ReleaseToSpans
  <2>1. me[t] \in Locals /\ pc[t] = "release" /\ GoodLocals("release", me[t])
    BY MyFacts, ReleaseToSpansStep, ZenonT(30) DEF Typed
  <2>2. PICK c \in Classes : c = me[t].at
    BY <2>1, ZenonT(30) DEF GoodLocals
  <2>3. PICK s \in Spans : KeepSpan(t, s) \/ DropSpan(t, s)
    BY ReleaseToSpansStep
  <2> DEFINE m == [me[t] EXCEPT !.list = Minus(@, One(s, 1))]
             n == [me[t] EXCEPT !.list = Minus(@, One(s, 1)), !.span = s]
  <2>4. m.at = me[t].at
    BY <2>1 DEF Locals
  <2>5. \/ lock_' = lock_ /\ Goto(t, "release", m)
        \/ Unlock(t, c) /\ Goto(t, "delete", n)
    BY <2>2, <2>3, Zenon DEF KeepSpan, DropSpan
  <2> HIDE DEF m, n
  <2>6. Holds(pc[t], me[t], c) /\ Holds("release", m, c) /\ "delete" \in Outside
    BY <2>1, <2>2, <2>4 DEF Holds, Outside
  <2>7. CASE lock_' = lock_ /\ Goto(t, "release", m)
    BY <2>6, <2>7, <1>LockStay, Zenon
  <2>8. CASE Unlock(t, c) /\ Goto(t, "delete", n)
    BY <2>6, <2>8, <1>LockDrop, Zenon
  <2> QED BY <2>5, <2>7, <2>8, Zenon
<1>Release. ASSUME NEW t \in Threads, DeleteSpan(t) \/ Deleted(t) \/ Released(t)
            PROVE  LocksHeld'
  <2> USE <1>Release
  <2>1. me[t] \in Locals /\ GoodLocals(pc[t], me[t]) /\ pc[t] \in {"delete", "deleted", "release"}
    BY MyFacts, ZenonT(30) DEF DeleteSpan, Deleted, Released, Typed
  <2>2. PICK c \in Classes : c = me[t].at
    BY <2>1 DEF GoodLocals
  <2>3. \/ /\ pc[t] = "delete" /\ lock_' = lock_
           /\ Goto(t, "deleted", [me[t] EXCEPT !.span = Free])
        \/ pc[t] = "deleted" /\ Lock(t, c) /\ Goto(t, "release", me[t])
        \/ /\ pc[t] = "release" /\ Unlock(t, c)
           /\ Goto(t, "relock", me[t]) \/ Goto(t, "idle", Idle)
    BY <2>2 DEF DeleteSpan, Deleted, Released, cvars
  <2>4. /\ "delete" \in Outside /\ "deleted" \in Outside /\ "relock" \in Outside /\ "idle" \in Outside
        /\ Holds("release", me[t], c)
    BY <2>2 DEF Holds, Outside
  <2>5. CASE /\ pc[t] = "delete" /\ lock_' = lock_
             /\ Goto(t, "deleted", [me[t] EXCEPT !.span = Free])
    BY <2>4, <2>5, <1>LockOut, Zenon
  <2>6. CASE pc[t] = "deleted" /\ Lock(t, c) /\ Goto(t, "release", me[t])
    BY <2>4, <2>6, <1>LockTake, Zenon
  <2>7. CASE /\ pc[t] = "release" /\ Unlock(t, c)
             /\ Goto(t, "relock", me[t]) \/ Goto(t, "idle", Idle)
    BY <2>4, <2>7, <1>LockDrop, Zenon
  <2> QED BY <2>3, <2>5, <2>6, <2>7
<1>RemoveRange. ASSUME NEW t \in Threads, RemoveRange(t) PROVE LocksHeld'
  <2> USE <1>RemoveRange
  <2>1. pc[t] = "idle"
    BY RemoveRangeStep, ZenonT(30)
  <2>2. PICK c \in Classes, n \in 1 .. Batch :
          \/ UNCHANGED << lock_, pc, me >>
          \/ Lock(t, c) /\ Goto(t, "fetch", [Idle EXCEPT !.cl = c, !.N = n])
    BY RemoveRangeStep, Zenon
  <2> DEFINE m == [Idle EXCEPT !.cl = c, !.N = n]
  <2>3. m.cl = c
    BY DEF Idle
  <2>4. CASE UNCHANGED << lock_, pc, me >>
    BY <2>4 DEF LocksHeld
  <2>5. CASE Lock(t, c) /\ Goto(t, "fetch", m)
    <3> HIDE DEF m
    <3>1. pc[t] \in Outside /\ Holds("fetch", m, c)
      BY <2>1, <2>3 DEF Holds, Outside
    <3> QED BY <2>5, <3>1, <1>LockTake, Zenon
  <2> QED BY <2>2, <2>4, <2>5, Zenon
<1>Fetch. ASSUME NEW t \in Threads,
                 FetchFromOneSpans(t) \/ Populate(t) \/ Fetched(t)
          PROVE  LocksHeld'
  <2> USE <1>Fetch
  <2>1. me[t] \in Locals /\ pc[t] = "fetch" /\ GoodLocals("fetch", me[t])
    BY MyFacts, Zenon DEF FetchFromOneSpans, Populate, Fetched, Typed
  <2>2. PICK c \in Classes : c = me[t].cl
    BY <2>1 DEF GoodLocals
  <2>3. CASE Populate(t) \/ Fetched(t)
    <3>1. Unlock(t, c) /\ (Goto(t, "populate", me[t]) \/ Goto(t, "idle", Idle))
      BY <2>2, <2>3, Zenon DEF Populate, Fetched
    <3>2. "populate" \in Outside /\ "idle" \in Outside /\ Holds(pc[t], me[t], c)
      BY <2>1, <2>2 DEF Holds, Outside
    <3> QED BY <3>1, <3>2, <1>LockDrop, Zenon
  <2>4. CASE FetchFromOneSpans(t)
    <3>1. PICK s \in Spans : \E n \in Nat : FetchOf(t, c, s, n)
      BY <2>2, <2>4, FetchStep, Zenon
    <3>2. PICK n \in Nat : FetchOf(t, c, s, n)
      BY <3>1
    <3> DEFINE m == [me[t] EXCEPT !.chain = Plus(@, One(s, n))]
    <3>3. m.cl = me[t].cl
      BY <2>1 DEF Locals
    <3>4. Goto(t, "fetch", m)
      BY <3>2, Zenon DEF FetchOf
    <3>5. lock_' = lock_
      BY <2>4, FetchStep, ZenonT(30) DEF cvars
    <3> HIDE DEF m
    <3>6. Holds(pc[t], me[t], c) /\ Holds("fetch", m, c)
      BY <2>1, <2>2, <3>3 DEF Holds
    <3> QED BY <3>4, <3>5, <3>6, <1>LockStay, Zenon
  <2> QED BY <2>3, <2>4, Zenon
<1>NewSpan. ASSUME NEW t \in Threads, NewSpan(t) \/ Populated(t) PROVE LocksHeld'
  <2> USE <1>NewSpan
  <2>1. me[t] \in Locals /\ pc[t] \in {"populate", "populated"} /\ GoodLocals(pc[t], me[t])
    BY MyFacts, ZenonT(30) DEF NewSpan, Populated, Typed
  <2>2. PICK c \in Classes : c = me[t].cl
    BY <2>1 DEF GoodLocals
  <2>3. CASE NewSpan(t)
    <3>1. pc[t] = "populate" /\ lock_' = lock_ /\ \E m : Goto(t, "populated", m)
      BY <2>3, Zenon DEF NewSpan, cvars
    <3>2. "populate" \in Outside /\ "populated" \in Outside
      BY DEF Outside
    <3> QED BY <3>1, <3>2, <1>LockOut, Zenon
  <2>4. CASE Populated(t)
    <3> DEFINE m == [me[t] EXCEPT !.span = Free, !.done = TRUE]
    <3>1. m.cl = me[t].cl
      BY <2>1 DEF Locals
    <3>2. pc[t] = "populated" /\ Lock(t, c) /\ Goto(t, "fetch", m)
      BY <2>2, <2>4, Zenon DEF Populated
    <3> HIDE DEF m
    <3>3. "populated" \in Outside /\ Holds("fetch", m, c)
      BY <2>2, <3>1, ZenonT(30) DEF Holds, Outside
    <3> QED BY <3>2, <3>3, <1>LockTake, Zenon
  <2> QED BY <2>3, <2>4, ZenonT(30)
<1>Stutter. ASSUME UNCHANGED vars PROVE LocksHeld'
  BY <1>Stutter DEF LocksHeld, vars
<1> QED BY <1>InsertRange, <1>Evict, <1>ShrinkCache, <1>Relock, <1>ReleaseToSpans,
           <1>Release, <1>RemoveRange, <1>Fetch, <1>NewSpan, <1>Stutter, Zenon DEF Next

-----------------------------------------------------------------------------
(* The objects that are out. *)

\* Objects of span s in the entries q of a transfer cache, in the hands of thread t, and in all.
SeqSum(q, s) == SumFunction([i \in DOMAIN q |-> q[i][s]])

Share(h, m, t, s) == h[t][s] + m[t].chain[s] + m[t].list[s]

Total(h, m, q, s) ==
  SumFunction([t \in Threads |-> Share(h, m, t, s)]) + SumFunction([c \in Classes |-> SeqSum(q[c], s)])

LEMMA SeqSumFacts ==
  ASSUME SumLaws, NEW q \in Seq(Chains), NEW s \in Spans
  PROVE  /\ SeqSum(q, s) \in Nat
         /\ \A i \in 1 .. Len(q) : q[i][s] <= SeqSum(q, s)
         /\ \A f \in Chains : SeqSum(Append(q, f), s) = SeqSum(q, s) + f[s]
<1> DEFINE g == [i \in DOMAIN q |-> q[i][s]]
<1>1. DOMAIN q = 1 .. Len(q) /\ Len(q) \in Nat /\ IsFiniteSet(1 .. Len(q))
  BY DEF SumLaws, IntervalLaw
<1>2. \A i \in 1 .. Len(q) : q[i] \in Chains /\ q[i][s] \in Nat
  BY DEF Chains
<1>3. SeqSum(q, s) = SumFunctionOnSet(g, 1 .. Len(q)) /\ \A i \in 1 .. Len(q) : g[i] = q[i][s]
  BY <1>1, Zenon DEF SeqSum, SumFunction
<1>4. SeqSum(q, s) \in Nat /\ \A i \in 1 .. Len(q) : g[i] <= SeqSum(q, s)
  <2> HIDE DEF g
  <2> QED BY <1>1, <1>2, <1>3, Zenon DEF SumLaws, SumNatLaw
<1>5. ASSUME NEW f \in Chains
      PROVE  SeqSum(Append(q, f), s) = SeqSum(q, s) + f[s]
  <2> DEFINE n == Len(q) + 1
             k == [i \in DOMAIN Append(q, f) |-> Append(q, f)[i][s]]
  <2>1. DOMAIN Append(q, f) = 1 .. n /\ 1 .. n = (1 .. Len(q)) \cup {n} /\ n \notin 1 .. Len(q)
    BY <1>1
  <2>2. \A i \in 1 .. n : Append(q, f)[i] = IF i = n THEN f ELSE q[i]
    BY <1>1
  <2>3. \A i \in 1 .. n : k[i] = IF i = n THEN f[s] ELSE q[i][s]
    BY <2>1, <2>2, Zenon
  <2>4. f[s] \in Nat
    BY Zenon DEF Chains
  <2>5. SeqSum(Append(q, f), s) = SumFunctionOnSet(k, 1 .. n)
    BY <2>1, Zenon DEF SeqSum, SumFunction
  <2> HIDE DEF k, n, g
  <2>6. \A i \in (1 .. Len(q)) \cup {n} : k[i] \in Int
    BY <1>2, <2>1, <2>3, <2>4
  <2>7. SumFunctionOnSet(k, (1 .. Len(q)) \cup {n}) = SumFunctionOnSet(k, 1 .. Len(q)) + k[n]
    BY <1>1, <2>1, <2>6, ZenonT(30) DEF SumLaws, SumInsertLaw
  <2>8. k[n] = f[s]
    BY <2>1, <2>3, Zenon
  <2>9. SumFunctionOnSet(g, 1 .. Len(q)) = SumFunctionOnSet(k, 1 .. Len(q))
    <3>1. \A i \in 1 .. Len(q) : g[i] = k[i] /\ g[i] \in Int
      BY <1>2, <1>3, <2>1, <2>3
    <3> QED BY <1>1, <3>1, Zenon DEF SumLaws, SumEqualLaw
  <2> QED BY <1>3, <2>1, <2>5, <2>7, <2>8, <2>9, Zenon
<1> QED BY <1>2, <1>3, <1>4, <1>5, Zenon

LEMMA ShareFacts ==
  ASSUME NEW h \in [Threads -> Chains], NEW m \in [Threads -> Locals], NEW t \in Threads, NEW s \in Spans
  PROVE  /\ h[t][s] \in Nat /\ m[t].chain[s] \in Nat /\ m[t].list[s] \in Nat
         /\ Share(h, m, t, s) \in Nat
         /\ h[t][s] <= Share(h, m, t, s) /\ m[t].chain[s] <= Share(h, m, t, s)
         /\ m[t].list[s] <= Share(h, m, t, s)
<1>1. h[t][s] \in Nat /\ m[t].chain[s] \in Nat /\ m[t].list[s] \in Nat
  BY Zenon DEF Chains, Locals
<1> QED BY <1>1 DEF Share

\* The total is a number no smaller than any part.
LEMMA TotalFacts ==
  ASSUME SumLaws, NEW h \in [Threads -> Chains], NEW m \in [Threads -> Locals],
         NEW q \in [Classes -> Seq(Chains)], NEW s \in Spans
  PROVE  /\ Total(h, m, q, s) \in Nat
         /\ \A t \in Threads : Share(h, m, t, s) <= Total(h, m, q, s)
         /\ \A c \in Classes : SeqSum(q[c], s) <= Total(h, m, q, s)
<1> DEFINE a == [t \in Threads |-> Share(h, m, t, s)]
           b == [c \in Classes |-> SeqSum(q[c], s)]
<1>1. IsFiniteSet(Threads) /\ IsFiniteSet(Classes)
  BY CentralAssumption, Zenon
<1>2. /\ SumFunction(a) = SumFunctionOnSet(a, Threads) /\ SumFunction(b) = SumFunctionOnSet(b, Classes)
      /\ \A t \in Threads : a[t] = Share(h, m, t, s)
      /\ \A c \in Classes : b[c] = SeqSum(q[c], s)
  BY Zenon DEF SumFunction
<1>3. (\A t \in Threads : a[t] \in Nat) /\ \A c \in Classes : b[c] \in Nat
  <2>1. \A c \in Classes : q[c] \in Seq(Chains)
    BY Zenon
  <2> QED BY <1>2, <2>1, ShareFacts, SeqSumFacts, Zenon
<1>4. Total(h, m, q, s) = SumFunction(a) + SumFunction(b)
  BY Zenon DEF Total
<1> HIDE DEF a, b
<1>5. SumFunction(a) \in Nat /\ \A t \in Threads : a[t] <= SumFunction(a)
  BY <1>1, <1>2, <1>3, Zenon DEF SumLaws, SumNatLaw
<1>6. SumFunction(b) \in Nat /\ \A c \in Classes : b[c] <= SumFunction(b)
  BY <1>1, <1>2, <1>3, Zenon DEF SumLaws, SumNatLaw
<1> QED BY <1>2, <1>3, <1>4, <1>5, <1>6

\* Two functions that differ at most in one place.
OneOff(S, x, a, b) == \A y \in S : y # x => a[y] = b[y]

Summable(S, x, a, b) ==
  IsFiniteSet(S) /\ x \in S /\ a \in [S -> Int] /\ b \in [S -> Int] /\ OneOff(S, x, a, b)

LEMMA SumChange ==
  ASSUME SumLaws, NEW S, NEW x, NEW a, NEW b, Summable(S, x, a, b)
  PROVE  SumFunction(a) \in Int /\ SumFunction(b) = SumFunction(a) + b[x] - a[x]
<1> USE DEF Summable, OneOff
<1>1. SumFunction(a) = SumFunctionOnSet(a, S) /\ SumFunction(b) = SumFunctionOnSet(b, S)
  BY Zenon DEF SumFunction
<1>2. \A y \in S : a[y] \in Int /\ b[y] \in Int
  BY Zenon
<1>3. SumFunctionOnSet(a, S) \in Int
  BY <1>2, Zenon DEF SumLaws, SumRemoveLaw
<1>4. SumFunctionOnSet(b, S) = SumFunctionOnSet(a, S) + b[x] - a[x]
  BY <1>2 DEF SumLaws, SumUpdateLaw
<1> QED BY <1>1, <1>3, <1>4, Zenon

\* Only thread t and the cache of class c are changed.
Moves(t, c, h, g, m, n, q, r) ==
  /\ h \in [Threads -> Chains] /\ g \in [Threads -> Chains] /\ OneOff(Threads, t, h, g)
  /\ m \in [Threads -> Locals] /\ n \in [Threads -> Locals] /\ OneOff(Threads, t, m, n)
  /\ q \in [Classes -> Seq(Chains)] /\ r \in [Classes -> Seq(Chains)] /\ OneOff(Classes, c, q, r)

LEMMA TotalMove ==
  ASSUME SumLaws, NEW t \in Threads, NEW c \in Classes, NEW s \in Spans,
         NEW h, NEW g, NEW m, NEW n, NEW q, NEW r, Moves(t, c, h, g, m, n, q, r)
  PROVE  Total(g, n, r, s) = Total(h, m, q, s) + (Share(g, n, t, s) - Share(h, m, t, s))
                               + (SeqSum(r[c], s) - SeqSum(q[c], s))
<1> DEFINE a == [u \in Threads |-> Share(h, m, u, s)]
           a2 == [u \in Threads |-> Share(g, n, u, s)]
           b == [d \in Classes |-> SeqSum(q[d], s)]
           b2 == [d \in Classes |-> SeqSum(r[d], s)]
<1>1. IsFiniteSet(Threads) /\ IsFiniteSet(Classes)
  BY CentralAssumption, Zenon
<1>3. /\ \A u \in Threads : a[u] = Share(h, m, u, s) /\ a2[u] = Share(g, n, u, s)
      /\ \A d \in Classes : b[d] = SeqSum(q[d], s) /\ b2[d] = SeqSum(r[d], s)
  BY Zenon
<1>4. \A u \in Threads : a[u] \in Int /\ a2[u] \in Int
  <2>1. \A u \in Threads : Share(h, m, u, s) \in Nat /\ Share(g, n, u, s) \in Nat
    BY ShareFacts, Zenon DEF Moves
  <2> QED BY <1>3, <2>1
<1>5. \A d \in Classes : b[d] \in Int /\ b2[d] \in Int
  <2>1. \A d \in Classes : q[d] \in Seq(Chains) /\ r[d] \in Seq(Chains)
    BY Zenon DEF Moves
  <2> QED BY <1>3, <2>1, SeqSumFacts
<1>6. OneOff(Threads, t, a, a2)
  BY <1>3, Zenon DEF Share, OneOff, Moves
<1>12. OneOff(Classes, c, b, b2)
  BY <1>3, Zenon DEF OneOff, Moves
<1>7. Total(h, m, q, s) = SumFunction(a) + SumFunction(b) /\ Total(g, n, r, s) = SumFunction(a2) + SumFunction(b2)
  BY Zenon DEF Total
<1>2. a \in [Threads -> Int] /\ a2 \in [Threads -> Int]
  BY <1>4, Zenon
<1>10. b \in [Classes -> Int] /\ b2 \in [Classes -> Int]
  BY <1>5, Zenon
<1> HIDE DEF a, a2, b, b2
<1>8. Summable(Threads, t, a, a2)
  BY <1>1, <1>2, <1>6, Zenon DEF Summable
<1>9. Summable(Classes, c, b, b2)
  BY <1>1, <1>10, <1>12, Zenon DEF Summable
<1>13. SumFunction(a2) = SumFunction(a) + a2[t] - a[t]
  BY <1>8, SumChange, Zenon
<1>14. SumFunction(b2) = SumFunction(b) + b2[c] - b[c]
  BY <1>9, SumChange, Zenon
<1>15. SumFunction(a) \in Int /\ SumFunction(b) \in Int
  BY <1>8, <1>9, SumChange, Zenon
<1>11. Total(g, n, r, s) = Total(h, m, q, s) + (a2[t] - a[t]) + (b2[c] - b[c])
  BY <1>4, <1>5, <1>7, <1>13, <1>14, <1>15
<1> QED BY <1>3, <1>11, Zenon

LEMMA OutFacts ==
  ASSUME SumLaws, Typed, NEW s \in Spans
  PROVE  /\ Out(s) = Total(held, me, slots, s) /\ Out(s) \in Nat
         /\ \A t \in Threads : Share(held, me, t, s) <= Out(s)
         /\ \A c \in Classes : SeqSum(slots[c], s) <= Out(s)
<1>1. Out(s) = Total(held, me, slots, s)
  BY Zenon DEF Out, Total, Share, SeqSum
<1>2. held \in [Threads -> Chains] /\ me \in [Threads -> Locals] /\ slots \in [Classes -> Seq(Chains)]
  BY Zenon DEF Typed, PlacesOK
<1> QED BY <1>1, <1>2, TotalFacts, Zenon

LEMMA OutMove ==
  ASSUME SumLaws, Typed, Typed', NEW t \in Threads, NEW c \in Classes, NEW s \in Spans,
         OneOff(Threads, t, held, held'), OneOff(Threads, t, me, me'), OneOff(Classes, c, slots, slots')
  PROVE  Out(s)' = Out(s) + (Share(held', me', t, s) - Share(held, me, t, s))
                     + (SeqSum(slots'[c], s) - SeqSum(slots[c], s))
<1>1. Out(s) = Total(held, me, slots, s) /\ Out(s)' = Total(held', me', slots', s)
  BY Zenon DEF Out, Total, Share, SeqSum
<1>2. held \in [Threads -> Chains] /\ me \in [Threads -> Locals] /\ slots \in [Classes -> Seq(Chains)]
  BY Zenon DEF Typed, PlacesOK
<1>3. held' \in [Threads -> Chains] /\ me' \in [Threads -> Locals] /\ slots' \in [Classes -> Seq(Chains)]
  BY Zenon DEF Typed, PlacesOK
<1>4. Total(held', me', slots', s) = Total(held, me, slots, s)
         + (Share(held', me', t, s) - Share(held, me, t, s)) + (SeqSum(slots'[c], s) - SeqSum(slots[c], s))
  <2>1. Moves(t, c, held, held', me, me', slots, slots')
    BY <1>2, <1>3, Zenon DEF Moves
  <2> QED BY <2>1, TotalMove
<1> QED BY <1>1, <1>4, Zenon

\* What must hold together of the objects, the lists and the spans.
OInv == ListsExact /\ ObjectsConserved /\ ClassOK /\ SpansOwned

LEMMA GotoIs ==
  ASSUME Typed, NEW t \in Threads, NEW p, NEW m, Goto(t, p, m)
  PROVE  /\ me'[t] = m /\ pc'[t] = p
         /\ \A u \in Threads : u # t => me'[u] = me[u] /\ pc'[u] = pc[u]
         /\ OneOff(Threads, t, me, me')
<1>1. \A u \in Threads : me'[u] = (IF u = t THEN m ELSE me[u]) /\ pc'[u] = (IF u = t THEN p ELSE pc[u])
  BY Zenon DEF Goto, Typed, PlacesOK
<1> QED BY <1>1, Zenon DEF OneOff

\* A step that leaves the lists and the spans alone and only moves objects from one
\* place to another keeps the books.
LEMMA QuietMove ==
  ASSUME SumLaws, Typed, Typed', OInv, NEW t \in Threads, NEW c \in Classes, NEW p, NEW m, Goto(t, p, m),
         me[t].span = Free, m.span = Free, UNCHANGED << lists, spans >>,
         OneOff(Threads, t, held, held'), OneOff(Classes, c, slots, slots'),
         Of(class, m.chain, m.cl), Of(class, m.list, m.at),
         \A i \in 1 .. Len(slots'[c]) : Of(class, slots'[c][i], c),
         \A s \in Spans : (held'[t][s] + m.chain[s] + m.list[s]) + SeqSum(slots'[c], s)
                            = Share(held, me, t, s) + SeqSum(slots[c], s)
  PROVE  OInv'
<1>1. /\ me'[t] = m /\ pc'[t] = p
      /\ \A u \in Threads : u # t => me'[u] = me[u] /\ pc'[u] = pc[u]
      /\ OneOff(Threads, t, me, me')
  BY GotoIs, Zenon
<1>2. /\ nonempty_' = nonempty_ /\ empty_' = empty_ /\ counter_' = counter_ /\ num_spans_' = num_spans_
      /\ objects' = objects /\ refcount' = refcount /\ class' = class
      /\ \A d : Listed(d)' = Listed(d)
  BY Zenon DEF lists, spans, Listed
<1>3. ASSUME NEW s \in Spans PROVE Out(s)' = Out(s)
  <2>1. Out(s)' = Out(s) + (Share(held', me', t, s) - Share(held, me, t, s))
                     + (SeqSum(slots'[c], s) - SeqSum(slots[c], s))
    BY <1>1, OutMove, Zenon
  <2>2. Share(held', me', t, s) = held'[t][s] + m.chain[s] + m.list[s]
    BY <1>1, Zenon DEF Share
  <2>3. Share(held', me', t, s) + SeqSum(slots'[c], s) = Share(held, me, t, s) + SeqSum(slots[c], s)
    BY <2>2, Zenon
  <2>4. Share(held', me', t, s) \in Nat /\ Share(held, me, t, s) \in Nat
    BY ShareFacts, ZenonT(30) DEF Typed, PlacesOK
  <2>5. SeqSum(slots'[c], s) \in Nat /\ SeqSum(slots[c], s) \in Nat
    <3>1. slots'[c] \in Seq(Chains) /\ slots[c] \in Seq(Chains)
      BY Zenon DEF Typed
    <3> QED BY <3>1, SeqSumFacts, Zenon
  <2>6. Out(s) \in Nat
    BY OutFacts, Zenon
  <2> HIDE DEF Out
  <2> QED BY <2>1, <2>3, <2>4, <2>5, <2>6, SMTT(30)
<1>4. ListsExact'
  BY <1>2, Zenon DEF OInv, ListsExact
<1>5. ObjectsConserved'
  BY <1>2, <1>3, Zenon DEF OInv, ObjectsConserved
<1>6. ClassOK'
  <2>1. \A u \in Threads : Of(class, me'[u].chain, me'[u].cl) /\ Of(class, me'[u].list, me'[u].at)
    BY <1>1, Zenon DEF OInv, ClassOK
  <2>2. \A d \in Classes : \A i \in 1 .. Len(slots'[d]) : Of(class, slots'[d][i], d)
    BY Zenon DEF OInv, ClassOK, OneOff
  <2> QED BY <1>2, <2>1, <2>2, Zenon DEF ClassOK
<1>7. SpansOwned'
  <2>1. me'[t].span = Free
    BY <1>1, Zenon
  <2>2. \A u \in Threads : me'[u].span # Free => u # t /\ me'[u] = me[u] /\ pc'[u] = pc[u]
    BY <1>1, <2>1, Zenon
  <2>3. ASSUME NEW u \in Threads, me'[u].span # Free
        PROVE  /\ class'[me'[u].span] = IF pc'[u] = "delete" THEN me'[u].at ELSE me'[u].cl
               /\ pc'[u] = "populated" => objects'[me'[u].span] = PerSpan
               /\ \A d \in Classes : me'[u].span \notin Listed(d)'
    <3>1. me'[u] = me[u] /\ pc'[u] = pc[u]
      BY <2>2, <2>3, Zenon
    <3> QED BY <1>2, <2>3, <3>1, Zenon DEF OInv, SpansOwned
  <2>4. ASSUME NEW u \in Threads, NEW v \in Threads, me'[u].span # Free, me'[u].span = me'[v].span
        PROVE  u = v
    <3>1. me'[u] = me[u] /\ me'[v] = me[v]
      BY <2>2, <2>4, Zenon
    <3> QED BY <2>4, <3>1, Zenon DEF OInv, SpansOwned
  <2> QED BY <2>3, <2>4, Zenon DEF SpansOwned
<1> QED BY <1>4, <1>5, <1>6, <1>7, Zenon DEF OInv

\* The transfer caches stay as they are.
LEMMA QuietThread ==
  ASSUME SumLaws, Typed, Typed', OInv, NEW t \in Threads, NEW c \in Classes, NEW p, NEW m, Goto(t, p, m),
         me[t].span = Free, m.span = Free, UNCHANGED << slots, lists, spans >>,
         OneOff(Threads, t, held, held'), Of(class, m.chain, m.cl), Of(class, m.list, m.at),
         \A s \in Spans : held'[t][s] + m.chain[s] + m.list[s] = Share(held, me, t, s)
  PROVE  OInv'
<1>1. slots' = slots /\ UNCHANGED << lists, spans >>
  BY Zenon DEF lists, spans
<1>2. OneOff(Classes, c, slots, slots')
  BY <1>1, Zenon DEF OneOff
<1>3. \A i \in 1 .. Len(slots'[c]) : Of(class, slots'[c][i], c)
  BY <1>1, Zenon DEF OInv, ClassOK
<1>4. \A s \in Spans : (held'[t][s] + m.chain[s] + m.list[s]) + SeqSum(slots'[c], s)
                            = Share(held, me, t, s) + SeqSum(slots[c], s)
  BY <1>1, Zenon
<1> QED BY <1>1, <1>2, <1>3, <1>4, QuietMove, Zenon

\* What thread t has, by place.
LEMMA MyShare ==
  ASSUME Typed, NEW t \in Threads, NEW s \in Spans
  PROVE  /\ Share(held, me, t, s) = held[t][s] + me[t].chain[s] + me[t].list[s]
         /\ held[t][s] \in Nat /\ me[t].chain[s] \in Nat /\ me[t].list[s] \in Nat
<1>1. held \in [Threads -> Chains] /\ me \in [Threads -> Locals]
  BY Zenon DEF Typed, PlacesOK
<1> QED BY <1>1, ShareFacts, Zenon DEF Share

\* The thread goes on with the objects it has.
LEMMA QuietLocals ==
  ASSUME SumLaws, Typed, Typed', OInv, NEW t \in Threads, NEW c \in Classes, NEW p, NEW m, Goto(t, p, m),
         me[t].span = Free, m.span = Free, UNCHANGED << slots, held, lists, spans >>,
         m.chain = me[t].chain, m.cl = me[t].cl, m.list = me[t].list, m.at = me[t].at
  PROVE  OInv'
<1>1. UNCHANGED << slots, lists, spans >> /\ held' = held
  BY Zenon DEF lists, spans
<1>2. OneOff(Threads, t, held, held')
  BY <1>1, Zenon DEF OneOff
<1>3. Of(class, m.chain, m.cl) /\ Of(class, m.list, m.at)
  BY Zenon DEF OInv, ClassOK
<1>4. \A s \in Spans : held'[t][s] + m.chain[s] + m.list[s] = Share(held, me, t, s)
  BY <1>1, Zenon DEF Share
<1> QED BY <1>1, <1>2, <1>3, <1>4, QuietThread, Zenon

\* The steps that leave the lists and the spans alone keep the books.
LEMMA QuietSteps ==
  ASSUME SumLaws, Typed, Typed', OInv
  PROVE  \A t \in Threads :
           (\/ InsertRange(t) \/ EvictFails(t) \/ EvictFrom(t) \/ ShrinkCache(t) \/ Relock(t)
            \/ Deleted(t) \/ Released(t) \/ RemoveRange(t) \/ Populate(t) \/ Fetched(t))
             => OInv'
\* Taking the last entry out.
<1>SeqSumDrop. ASSUME NEW q \in Seq(Chains), NEW s \in Spans, Len(q) > 0
               PROVE  SeqSum(q, s) = SeqSum(SubSeq(q, 1, Len(q) - 1), s) + q[Len(q)][s]
  <2> USE <1>SeqSumDrop
  <2> DEFINE r == SubSeq(q, 1, Len(q) - 1)
  <2>1. /\ r \in Seq(Chains) /\ Len(r) = Len(q) - 1 /\ q[Len(q)] \in Chains
        /\ \A i \in 1 .. Len(q) - 1 : r[i] = q[i]
    BY SlotFacts, Zenon
  <2> HIDE DEF r
  <2>2. Append(r, q[Len(q)]) = q
    <3>1. Append(r, q[Len(q)]) \in Seq(Chains) /\ Len(Append(r, q[Len(q)])) = Len(q)
      BY <2>1
    <3>2. \A i \in 1 .. Len(q) : Append(r, q[Len(q)])[i] = q[i]
      BY <2>1
    <3> QED BY <3>1, <3>2, SameSequence, Zenon
  <2>3. SeqSum(Append(r, q[Len(q)]), s) = SeqSum(r, s) + q[Len(q)][s]
    BY <2>1, SeqSumFacts, Zenon
  <2> QED BY <2>2, <2>3, Zenon DEF r
\* An entry joins, or leaves, the cache of class c.
<1>AppendSlot. ASSUME ClassOK, NEW c \in Classes, NEW f \in Chains, Of(class, f, c),
                      slots' = [slots EXCEPT ![c] = Append(@, f)]
               PROVE  /\ OneOff(Classes, c, slots, slots')
                      /\ \A s \in Spans : SeqSum(slots'[c], s) = SeqSum(slots[c], s) + f[s]
                      /\ \A i \in 1 .. Len(slots'[c]) : Of(class, slots'[c][i], c)
  <2> USE <1>AppendSlot
  <2>1. slots'[c] = Append(slots[c], f) /\ OneOff(Classes, c, slots, slots')
    BY Zenon DEF Typed, OneOff
  <2>2. slots[c] \in Seq(Chains)
    BY Zenon DEF Typed
  <2>3. \A s \in Spans : SeqSum(slots'[c], s) = SeqSum(slots[c], s) + f[s]
    BY <2>1, <2>2, SeqSumFacts, Zenon
  <2>4. \A i \in 1 .. Len(slots[c]) : Of(class, slots[c][i], c)
    BY Zenon DEF ClassOK
  <2>5. \A i \in 1 .. Len(slots'[c]) : \/ i \in 1 .. Len(slots[c]) /\ slots'[c][i] = slots[c][i]
                                      \/ slots'[c][i] = f
    BY <2>1, <2>2
  <2>6. \A i \in 1 .. Len(slots'[c]) : Of(class, slots'[c][i], c)
    BY <2>4, <2>5, Zenon
  <2> QED BY <2>1, <2>3, <2>6, Zenon
<1>DropSlot. ASSUME ClassOK, NEW c \in Classes, Used(c) > 0, DropEntry(c)
             PROVE  /\ OneOff(Classes, c, slots, slots')
                    /\ LastEntry(c) \in Chains /\ Of(class, LastEntry(c), c)
                    /\ \A s \in Spans : SeqSum(slots[c], s) = SeqSum(slots'[c], s) + LastEntry(c)[s]
                    /\ \A i \in 1 .. Len(slots'[c]) : Of(class, slots'[c][i], c)
  <2> USE <1>DropSlot
  <2>1. slots'[c] = SubSeq(slots[c], 1, Len(slots[c]) - 1) /\ OneOff(Classes, c, slots, slots')
    BY Zenon DEF Typed, OneOff, DropEntry, Used
  <2>2. slots[c] \in Seq(Chains) /\ Len(slots[c]) > 0
    BY Zenon DEF Typed, Used
  <2>3. \A s \in Spans : SeqSum(slots[c], s) = SeqSum(slots'[c], s) + LastEntry(c)[s]
    BY <2>1, <2>2, <1>SeqSumDrop, Zenon DEF LastEntry, Used
  <2>4. \A i \in 1 .. Len(slots[c]) : Of(class, slots[c][i], c)
    BY Zenon DEF ClassOK
  <2>5. Len(slots[c]) \in 1 .. Len(slots[c]) /\ LastEntry(c) = slots[c][Len(slots[c])] /\ LastEntry(c) \in Chains
    BY <2>2 DEF LastEntry, Used
  <2>6. \A i \in 1 .. Len(slots'[c]) : i \in 1 .. Len(slots[c]) /\ slots'[c][i] = slots[c][i]
    BY <2>1, <2>2, SlotFacts
  <2>7. \A i \in 1 .. Len(slots'[c]) : Of(class, slots'[c][i], c)
    BY <2>4, <2>6, Zenon
  <2> QED BY <2>1, <2>3, <2>4, <2>5, <2>7, Zenon
\* An idle thread has nothing but what its thread cache holds.
<1>IdleShare. /\ Idle.span = Free /\ Idle.chain = None /\ Idle.list = None
              /\ \A k, c : Of(k, None, c)
              /\ \A s \in Spans : None[s] = 0
  BY DEF Idle, Of, None
<1>ReturnsFacts. ASSUME NEW t \in Threads, NEW c \in Classes, NEW f \in Returns(t, c)
                 PROVE  f \in Chains /\ Of(class, f, c)
  <2> USE <1>ReturnsFacts
  <2>1. f \in [Spans -> 0 .. Batch] /\ \A s \in Spans : f[s] > 0 => class[s] = c
    BY Zenon DEF Returns
  <2>2. \A i \in 0 .. Batch : i \in Nat
    BY CentralAssumption
  <2> QED BY <2>1, <2>2, Zenon DEF Chains, Of
<1>HeldFacts. ASSUME NEW t \in Threads, NEW f
              PROVE  /\ held' = [held EXCEPT ![t] = Minus(@, f)] =>
                          OneOff(Threads, t, held, held') /\ \A s \in Spans : held'[t][s] = held[t][s] - f[s]
                     /\ held' = [held EXCEPT ![t] = Plus(@, f)] =>
                          OneOff(Threads, t, held, held') /\ \A s \in Spans : held'[t][s] = held[t][s] + f[s]
                     /\ held' = held => OneOff(Threads, t, held, held') /\ \A s \in Spans : held'[t][s] = held[t][s]
  <2> USE <1>HeldFacts
  <2>1. held \in [Threads -> Chains]
    BY Zenon DEF Typed
  <2>2. ASSUME NEW g, held' = [held EXCEPT ![t] = g]
        PROVE  OneOff(Threads, t, held, held') /\ held'[t] = g
    BY <2>1, <2>2, Zenon DEF OneOff
  <2>3. ASSUME held' = [held EXCEPT ![t] = Minus(@, f)]
        PROVE  OneOff(Threads, t, held, held') /\ \A s \in Spans : held'[t][s] = held[t][s] - f[s]
    <3>1. OneOff(Threads, t, held, held') /\ held'[t] = Minus(held[t], f)
      BY <2>2, <2>3, Zenon
    <3> QED BY <3>1, Zenon DEF Minus
  <2>4. ASSUME held' = [held EXCEPT ![t] = Plus(@, f)]
        PROVE  OneOff(Threads, t, held, held') /\ \A s \in Spans : held'[t][s] = held[t][s] + f[s]
    <3>1. OneOff(Threads, t, held, held') /\ held'[t] = Plus(held[t], f)
      BY <2>2, <2>4, Zenon
    <3> QED BY <3>1, Zenon DEF Plus
  <2>5. ASSUME held' = held
        PROVE  OneOff(Threads, t, held, held') /\ \A s \in Spans : held'[t][s] = held[t][s]
    BY <2>5, Zenon DEF OneOff
  <2> QED BY <2>3, <2>4, <2>5, Zenon
\* The chain becomes the list to release, in its own class.
<1>QuietReleaseChain. ASSUME NEW t \in Threads, NEW c \in Classes, me[t].cl = c,
                             ReleaseChain(t, me[t]), me[t].span = Free, me[t].list = None,
                             UNCHANGED << slots, held, lists, spans >>
                      PROVE  OInv'
  <2> USE <1>QuietReleaseChain
  <2> DEFINE m == [Idle EXCEPT !.list = me[t].chain, !.at = me[t].cl]
  <2>1. UNCHANGED << slots, lists, spans >> /\ held' = held
    BY Zenon DEF lists, spans
  <2>2. OneOff(Threads, t, held, held')
    BY <2>1, Zenon DEF OneOff
  <2>3. m.span = Free /\ m.chain = None /\ m.list = me[t].chain /\ m.at = me[t].cl
    BY Zenon DEF Idle
  <2>4. Of(class, m.chain, m.cl) /\ Of(class, m.list, m.at)
    BY <2>3, <1>IdleShare, Zenon DEF OInv, ClassOK
  <2>5. \A s \in Spans : held'[t][s] + m.chain[s] + m.list[s] = Share(held, me, t, s)
    BY <2>1, <2>3, MyShare, <1>IdleShare
  <2>6. Goto(t, "release", m)
    BY Zenon DEF ReleaseChain
  <2> HIDE DEF m
  <2> QED BY <2>1, <2>2, <2>3, <2>4, <2>5, <2>6, QuietThread, Zenon
<1>QuietNothingEvicted. ASSUME NEW t \in Threads, me[t].cl \in Classes, NothingEvicted(t),
                               me[t].span = Free, me[t].list = None, UNCHANGED << slots, held, lists, spans >>
                        PROVE  OInv'
  <2> USE <1>QuietNothingEvicted
  <2>1. PICK c \in Classes : me[t].cl = c
    BY Zenon
  <2> DEFINE n == [me[t] EXCEPT !.force = TRUE]
  <2>2. /\ n.span = Free /\ n.chain = me[t].chain /\ n.cl = me[t].cl
        /\ n.list = me[t].list /\ n.at = me[t].at
    BY MyFacts, Zenon DEF Typed, Locals
  <2>3. ReleaseChain(t, me[t]) \/ Goto(t, "evict", n)
    BY Zenon DEF NothingEvicted
  <2> HIDE DEF n
  <2>4. CASE ReleaseChain(t, me[t])
    BY <2>1, <2>4, <1>QuietReleaseChain, Zenon
  <2>5. CASE Goto(t, "evict", n)
    BY <2>1, <2>2, <2>5, QuietLocals, Zenon
  <2> QED BY <2>3, <2>4, <2>5, Zenon
<1>InsertRange. ASSUME NEW t \in Threads, InsertRange(t) PROVE OInv'
  <2> USE <1>InsertRange
  <2>1. PICK c \in Classes : \E f \in Returns(t, c) : InsertStep(t, c, f)
    BY InsertRangeStep, Zenon
  <2>2. PICK f \in Returns(t, c) : InsertStep(t, c, f)
    BY <2>1, Zenon
  <2>3. f \in Chains /\ Of(class, f, c)
    BY <1>ReturnsFacts, Zenon
  <2>4. me[t] = Idle /\ UNCHANGED << lists, spans >>
    BY MyFacts, Zenon DEF InsertRange, Typed, GoodLocals, lists, spans
  <2>5. OneOff(Threads, t, held, held') /\ \A s \in Spans : held'[t][s] = held[t][s] - f[s]
    BY <2>2, <1>HeldFacts, Zenon DEF InsertStep
  <2>6. \A s \in Spans : Share(held, me, t, s) = held[t][s] /\ held[t][s] \in Nat /\ f[s] \in Nat
    BY <2>3, <2>4, MyShare, <1>IdleShare DEF Chains
  <2> DEFINE m == [Idle EXCEPT !.list = f, !.at = c]
             n == [Idle EXCEPT !.cl = c, !.chain = f]
  <2>7. /\ m.span = Free /\ m.chain = None /\ m.list = f /\ m.at = c
        /\ n.span = Free /\ n.chain = f /\ n.list = None /\ n.cl = c
    BY Zenon DEF Idle
  <2>8. CASE StoreEntry(t, c, f)
    <3>1. slots' = [slots EXCEPT ![c] = Append(@, f)] /\ Goto(t, "idle", Idle)
      BY <2>8, Zenon DEF StoreEntry
    <3>2. /\ OneOff(Classes, c, slots, slots')
          /\ \A s \in Spans : SeqSum(slots'[c], s) = SeqSum(slots[c], s) + f[s]
          /\ \A i \in 1 .. Len(slots'[c]) : Of(class, slots'[c][i], c)
      BY <2>3, <3>1, <1>AppendSlot, ZenonT(30) DEF OInv
    <3>3. ASSUME NEW s \in Spans
          PROVE  (held'[t][s] + Idle.chain[s] + Idle.list[s]) + SeqSum(slots'[c], s)
                              = Share(held, me, t, s) + SeqSum(slots[c], s)
      <4>1. SeqSum(slots[c], s) \in Nat
        BY SeqSumFacts, Zenon DEF Typed
      <4>2. held'[t][s] = held[t][s] - f[s] /\ SeqSum(slots'[c], s) = SeqSum(slots[c], s) + f[s]
        BY <2>5, <3>2, Zenon
      <4>3. Idle.chain[s] = 0 /\ Idle.list[s] = 0
        BY <1>IdleShare, Zenon
      <4> QED BY <2>6, <4>1, <4>2, <4>3, SMTT(30)
    <3>4. me[t].span = Free /\ Idle.span = Free
      BY <2>4, <1>IdleShare, Zenon
    <3>5. Of(class, Idle.chain, Idle.cl) /\ Of(class, Idle.list, Idle.at)
      BY <1>IdleShare, Zenon
    <3> QED BY <2>4, <2>5, <3>1, <3>2, <3>3, <3>4, <3>5, QuietMove, ZenonT(30)
  <2>9. CASE UNCHANGED slots /\ ReleaseChain(t, n)
    <3>1. Goto(t, "release", m)
      BY <2>7, <2>9, Zenon DEF ReleaseChain
    <3>2. \A s \in Spans : held'[t][s] + m.chain[s] + m.list[s] = Share(held, me, t, s)
      BY <2>5, <2>6, <2>7, <1>IdleShare
    <3>3. Of(class, m.chain, m.cl) /\ Of(class, m.list, m.at)
      BY <2>3, <2>7, <1>IdleShare, Zenon
    <3>4. me[t].span = Free /\ m.span = Free /\ UNCHANGED << slots, lists, spans >>
      BY <2>4, <2>7, <2>9, <1>IdleShare, Zenon
    <3> HIDE DEF m
    <3> QED BY <2>5, <3>1, <3>2, <3>3, <3>4, QuietThread, Zenon
  <2>10. CASE UNCHANGED slots /\ Goto(t, "evict", n)
    <3>2. \A s \in Spans : held'[t][s] + n.chain[s] + n.list[s] = Share(held, me, t, s)
      BY <2>5, <2>6, <2>7, <1>IdleShare
    <3>3. Of(class, n.chain, n.cl) /\ Of(class, n.list, n.at)
      BY <2>3, <2>7, <1>IdleShare, Zenon
    <3>4. me[t].span = Free /\ n.span = Free /\ UNCHANGED << slots, lists, spans >>
      BY <2>4, <2>7, <2>10, <1>IdleShare, Zenon
    <3> HIDE DEF n
    <3> QED BY <2>5, <2>10, <3>2, <3>3, <3>4, QuietThread, Zenon
  <2> QED BY <2>2, <2>8, <2>9, <2>10, Zenon DEF InsertStep
<1>Evict. ASSUME NEW t \in Threads, EvictFails(t) \/ EvictFrom(t) PROVE OInv'
  <2> USE <1>Evict
  <2>1. me[t] \in Locals /\ GoodLocals("evict", me[t])
    BY MyFacts, Zenon DEF Typed, EvictFails, EvictFrom
  <2>2. me[t].cl \in Classes /\ me[t].list = None /\ me[t].span = Free
    BY <2>1, Zenon DEF GoodLocals
  <2>3. UNCHANGED << slots, held, lists, spans >>
    BY Zenon DEF EvictFails, EvictFrom, cvars
  <2>4. CASE EvictFails(t)
    BY <2>2, <2>3, <2>4, <1>QuietNothingEvicted, Zenon DEF EvictFails
  <2>5. CASE EvictFrom(t)
    <3>1. PICK v \in Classes : Goto(t, "invert", [me[t] EXCEPT !.victim = v])
      BY <2>5, Zenon DEF EvictFrom
    <3> DEFINE m == [me[t] EXCEPT !.victim = v]
    <3>2. m.span = Free /\ m.chain = me[t].chain /\ m.cl = me[t].cl /\ m.list = me[t].list /\ m.at = me[t].at
      BY <2>1, <2>2, Zenon DEF Locals
    <3> HIDE DEF m
    <3> QED BY <2>2, <2>3, <3>1, <3>2, QuietLocals, Zenon DEF m
  <2> QED BY <2>4, <2>5, Zenon
<1>ShrinkCache. ASSUME NEW t \in Threads, ShrinkCache(t) PROVE OInv'
  <2> USE <1>ShrinkCache
  <2>1. me[t] \in Locals /\ GoodLocals("invert", me[t]) /\ UNCHANGED << lists, spans >> /\ held' = held
    BY MyFacts, ShrinkCacheStep, ZenonT(30) DEF Typed, lists, spans
  <2>2. me[t].cl \in Classes /\ me[t].list = None /\ me[t].span = Free
    BY <2>1, Zenon DEF GoodLocals
  <2>3. PICK v \in Classes : v = me[t].victim
    BY <2>1, Zenon DEF GoodLocals
  <2> DEFINE n == [me[t] EXCEPT !.list = LastEntry(v), !.at = v, !.done = TRUE]
             m(b) == [me[t] EXCEPT !.done = b]
  <2>4. CASE (Goto(t, "relock", m(FALSE)) \/ Goto(t, "relock", m(TRUE))) /\ UNCHANGED slots
    <3>1. PICK b \in BOOLEAN : Goto(t, "relock", m(b))
      BY <2>4, Zenon
    <3>2. /\ m(b).span = Free /\ m(b).chain = me[t].chain /\ m(b).cl = me[t].cl
          /\ m(b).list = me[t].list /\ m(b).at = me[t].at
      BY <2>1, <2>2, Zenon DEF Locals
    <3>3. UNCHANGED << slots, held, lists, spans >>
      BY <2>1, <2>4, Zenon
    <3> HIDE DEF m
    <3> QED BY <2>2, <3>1, <3>2, <3>3, QuietLocals, Zenon
  <2>5. CASE Used(v) > 0 /\ DropEntry(v) /\ Goto(t, "release", n)
    <3>1. /\ OneOff(Classes, v, slots, slots')
          /\ LastEntry(v) \in Chains /\ Of(class, LastEntry(v), v)
          /\ \A s \in Spans : SeqSum(slots[v], s) = SeqSum(slots'[v], s) + LastEntry(v)[s]
          /\ \A i \in 1 .. Len(slots'[v]) : Of(class, slots'[v][i], v)
      BY <2>5, <1>DropSlot, Zenon DEF OInv
    <3>2. /\ n.span = Free /\ n.chain = me[t].chain /\ n.cl = me[t].cl
          /\ n.list = LastEntry(v) /\ n.at = v
      BY <2>1, <2>2, Zenon DEF Locals
    <3>3. ASSUME NEW s \in Spans
          PROVE  (held'[t][s] + n.chain[s] + n.list[s]) + SeqSum(slots'[v], s)
                              = Share(held, me, t, s) + SeqSum(slots[v], s)
      <4>1. SeqSum(slots'[v], s) \in Nat /\ LastEntry(v)[s] \in Nat
        BY <3>1, SeqSumFacts, ZenonT(30) DEF Typed, Chains
      <4>2. Share(held, me, t, s) = held[t][s] + me[t].chain[s] /\ held[t][s] \in Nat /\ me[t].chain[s] \in Nat
        BY <2>2, MyShare, <1>IdleShare, SMTT(30)
      <4>3. held'[t][s] = held[t][s] /\ n.chain[s] = me[t].chain[s] /\ n.list[s] = LastEntry(v)[s]
        BY <2>1, <3>2, Zenon
      <4> HIDE DEF n
      <4> QED BY <3>1, <4>1, <4>2, <4>3, SMTT(30)
    <3>4. Of(class, n.chain, n.cl) /\ Of(class, n.list, n.at)
      BY <3>1, <3>2, Zenon DEF OInv, ClassOK
    <3>5. OneOff(Threads, t, held, held')
      BY <2>1, Zenon DEF OneOff
    <3>6. n.span = Free /\ me[t].span = Free /\ UNCHANGED << lists, spans >> /\ Goto(t, "release", n)
      BY <2>1, <2>2, <2>5, <3>2, Zenon
    <3>7. OneOff(Classes, v, slots, slots') /\ \A i \in 1 .. Len(slots'[v]) : Of(class, slots'[v][i], v)
      BY <3>1, Zenon
    <3> HIDE DEF n
    <3> QED BY <3>3, <3>4, <3>5, <3>6, <3>7, QuietMove, Zenon
  <2>6. \/ (Goto(t, "relock", m(FALSE)) \/ Goto(t, "relock", m(TRUE))) /\ UNCHANGED slots
        \/ cache_size_[v] # 0 /\ Used(v) = cache_size_[v] /\ DropEntry(v) /\ Goto(t, "release", n)
    BY <2>3, ShrinkCacheStep, Zenon
  <2>7. cache_size_[v] # 0 /\ Used(v) = cache_size_[v] => Used(v) > 0
    BY DEF Typed
  <2> QED BY <2>4, <2>5, <2>6, <2>7, Zenon
<1>Relock. ASSUME NEW t \in Threads, Relock(t) PROVE OInv'
  <2> USE <1>Relock
  <2>1. me[t] \in Locals /\ GoodLocals("relock", me[t])
    BY MyFacts, Zenon DEF Typed, Relock
  <2>2. me[t].cl \in Classes /\ me[t].list = None /\ me[t].span = Free
    BY <2>1, Zenon DEF GoodLocals
  <2>3. held' = held /\ UNCHANGED << lists, spans >>
    BY Zenon DEF Relock, lists, spans
  <2>4. PICK c \in Classes : c = me[t].cl
    BY <2>2, Zenon
  <2>5. CASE slots' = slots /\ (ReleaseChain(t, me[t]) \/ NothingEvicted(t))
    <3>1. UNCHANGED << slots, held, lists, spans >>
      BY <2>3, <2>5, Zenon
    <3>2. CASE ReleaseChain(t, me[t])
      BY <2>2, <2>4, <3>1, <3>2, <1>QuietReleaseChain, Zenon
    <3>3. CASE NothingEvicted(t)
      BY <2>2, <3>1, <3>3, <1>QuietNothingEvicted, Zenon
    <3> QED BY <2>5, <3>2, <3>3, Zenon
  <2>6. CASE StoreEntry(t, c, me[t].chain)
    <3>1. slots' = [slots EXCEPT ![c] = Append(@, me[t].chain)] /\ Goto(t, "idle", Idle)
      BY <2>6, Zenon DEF StoreEntry
    <3>2. me[t].chain \in Chains /\ Of(class, me[t].chain, c)
      BY <2>1, <2>4, Zenon DEF Locals, OInv, ClassOK
    <3>3. /\ OneOff(Classes, c, slots, slots')
          /\ \A s \in Spans : SeqSum(slots'[c], s) = SeqSum(slots[c], s) + me[t].chain[s]
          /\ \A i \in 1 .. Len(slots'[c]) : Of(class, slots'[c][i], c)
      BY <3>1, <3>2, <1>AppendSlot, Zenon DEF OInv
    <3>4. ASSUME NEW s \in Spans
          PROVE  (held'[t][s] + Idle.chain[s] + Idle.list[s]) + SeqSum(slots'[c], s)
                              = Share(held, me, t, s) + SeqSum(slots[c], s)
      <4>1. SeqSum(slots[c], s) \in Nat
        BY SeqSumFacts, Zenon DEF Typed
      <4>2. held'[t][s] = held[t][s] /\ SeqSum(slots'[c], s) = SeqSum(slots[c], s) + me[t].chain[s]
        BY <2>3, <3>3, Zenon
      <4>3. Idle.chain[s] = 0 /\ Idle.list[s] = 0 /\ me[t].list[s] = 0
        BY <2>2, <1>IdleShare, Zenon
      <4>4. /\ Share(held, me, t, s) = held[t][s] + me[t].chain[s] + me[t].list[s]
            /\ held[t][s] \in Nat /\ me[t].chain[s] \in Nat
        BY MyShare, Zenon
      <4> QED BY <4>1, <4>2, <4>3, <4>4, SMTT(30)
    <3>5. me[t].span = Free /\ Idle.span = Free /\ OneOff(Threads, t, held, held')
      BY <2>2, <2>3, <1>IdleShare, Zenon DEF OneOff
    <3>6. Of(class, Idle.chain, Idle.cl) /\ Of(class, Idle.list, Idle.at)
      BY <1>IdleShare, Zenon
    <3>7. OneOff(Classes, c, slots, slots') /\ \A i \in 1 .. Len(slots'[c]) : Of(class, slots'[c][i], c)
      BY <3>3, Zenon
    <3>8. Goto(t, "idle", Idle) /\ UNCHANGED << lists, spans >>
      BY <2>3, <3>1, Zenon
    <3> QED BY <3>4, <3>5, <3>6, <3>7, <3>8, QuietMove, Zenon
  <2> QED BY <2>4, <2>5, <2>6, Zenon DEF Relock
<1>Release. ASSUME NEW t \in Threads, Deleted(t) \/ Released(t) PROVE OInv'
  <2> USE <1>Release
  <2>1. /\ me[t] \in Locals /\ GoodLocals(pc[t], me[t]) /\ pc[t] \in {"deleted", "release"}
        /\ UNCHANGED << slots, held, lists, spans >>
    BY MyFacts, ZenonT(30) DEF Typed, Deleted, Released
  <2>2. me[t].at \in Classes /\ me[t].span = Free
    BY <2>1, Zenon DEF GoodLocals
  <2>3. PICK c \in Classes : c = me[t].at
    BY <2>2, Zenon
  <2>4. \/ Goto(t, "release", me[t]) \/ Goto(t, "relock", me[t])
        \/ me[t].at # me[t].victim /\ me[t].list = None /\ Goto(t, "idle", Idle)
    BY Zenon DEF Deleted, Released
  <2>5. CASE Goto(t, "release", me[t])
    BY <2>1, <2>2, <2>3, <2>5, QuietLocals, Zenon
  <2>6. CASE Goto(t, "relock", me[t])
    BY <2>1, <2>2, <2>3, <2>6, QuietLocals, Zenon
  <2>7. CASE me[t].at # me[t].victim /\ me[t].list = None /\ Goto(t, "idle", Idle)
    <3>1. me[t].chain = None
      BY <2>1, <2>7, Zenon DEF GoodLocals
    <3>2. Of(class, Idle.chain, Idle.cl) /\ Of(class, Idle.list, Idle.at)
      BY <1>IdleShare, Zenon
    <3>3. held' = held /\ OneOff(Threads, t, held, held') /\ UNCHANGED << slots, lists, spans >>
      BY <2>1, Zenon DEF OneOff
    <3>4. \A s \in Spans : held'[t][s] + Idle.chain[s] + Idle.list[s] = Share(held, me, t, s)
      BY <2>7, <3>1, <3>3, <1>IdleShare, Zenon DEF Share
    <3>5. Idle.span = Free
      BY <1>IdleShare, Zenon
    <3> QED BY <2>2, <2>7, <3>2, <3>3, <3>4, <3>5, QuietThread, Zenon
  <2> QED BY <2>4, <2>5, <2>6, <2>7, Zenon
<1>RemoveRange. ASSUME NEW t \in Threads, RemoveRange(t) PROVE OInv'
  <2> USE <1>RemoveRange
  <2>1. me[t] = Idle /\ UNCHANGED << lists, spans >>
    BY MyFacts, RemoveRangeStep, Zenon DEF Typed, GoodLocals, lists, spans
  <2>2. PICK c \in Classes, n \in 1 .. Batch :
                \/ /\ Used(c) > 0 /\ DropEntry(c)
                   /\ held' = [held EXCEPT ![t] = Plus(@, LastEntry(c))]
                   /\ UNCHANGED << lock_, pc, me >>
                \/ /\ Goto(t, "fetch", [Idle EXCEPT !.cl = c, !.N = n])
                   /\ UNCHANGED << slots, held >>
    BY RemoveRangeStep, Zenon
  <2>3. CASE /\ Used(c) > 0 /\ DropEntry(c)
             /\ held' = [held EXCEPT ![t] = Plus(@, LastEntry(c))]
             /\ UNCHANGED << lock_, pc, me >>
    <3>1. /\ OneOff(Classes, c, slots, slots')
          /\ LastEntry(c) \in Chains
          /\ \A s \in Spans : SeqSum(slots[c], s) = SeqSum(slots'[c], s) + LastEntry(c)[s]
          /\ \A i \in 1 .. Len(slots'[c]) : Of(class, slots'[c][i], c)
      BY <2>3, <1>DropSlot, Zenon DEF OInv
    <3>2. OneOff(Threads, t, held, held') /\ \A s \in Spans : held'[t][s] = held[t][s] + LastEntry(c)[s]
      BY <2>3, <1>HeldFacts, ZenonT(30)
    <3>3. ASSUME NEW s \in Spans
          PROVE  (held'[t][s] + Idle.chain[s] + Idle.list[s]) + SeqSum(slots'[c], s)
                              = Share(held, me, t, s) + SeqSum(slots[c], s)
      <4>1. SeqSum(slots'[c], s) \in Nat
        BY SeqSumFacts, Zenon DEF Typed
      <4>2. LastEntry(c)[s] \in Nat
        BY <3>1, Zenon DEF Chains
      <4>3. /\ Share(held, me, t, s) = held[t][s] + me[t].chain[s] + me[t].list[s]
            /\ held[t][s] \in Nat
        BY MyShare, Zenon
      <4>4. Idle.chain[s] = 0 /\ Idle.list[s] = 0 /\ me[t].chain[s] = 0 /\ me[t].list[s] = 0
        BY <2>1, <1>IdleShare, Zenon
      <4>5. ((held[t][s] + LastEntry(c)[s]) + 0 + 0) + SeqSum(slots'[c], s)
              = (held[t][s] + 0 + 0) + (SeqSum(slots'[c], s) + LastEntry(c)[s])
        BY <4>1, <4>2, <4>3, TakeEntry, Zenon
      <4>6. held'[t][s] = held[t][s] + LastEntry(c)[s]
        BY <3>2, Zenon
      <4>7. SeqSum(slots[c], s) = SeqSum(slots'[c], s) + LastEntry(c)[s]
        BY <3>1, Zenon
      <4> QED BY <4>3, <4>4, <4>5, <4>6, <4>7, Zenon
    <3>4. Of(class, Idle.chain, Idle.cl) /\ Of(class, Idle.list, Idle.at)
      BY <1>IdleShare, Zenon
    <3>5. Goto(t, pc[t], Idle) /\ me[t].span = Free /\ Idle.span = Free
      BY <2>1, <2>3, <1>IdleShare, ZenonT(30) DEF Goto, Typed, PlacesOK
    <3>6. OneOff(Classes, c, slots, slots') /\ \A i \in 1 .. Len(slots'[c]) : Of(class, slots'[c][i], c)
      BY <3>1, Zenon
    <3> QED BY <2>1, <3>2, <3>3, <3>4, <3>5, <3>6, QuietMove, Zenon
  <2>4. CASE /\ Goto(t, "fetch", [Idle EXCEPT !.cl = c, !.N = n])
             /\ UNCHANGED << slots, held >>
    <3> DEFINE m == [Idle EXCEPT !.cl = c, !.N = n]
    <3>1. m.span = Free /\ m.chain = None /\ m.list = None
      BY Zenon DEF Idle
    <3>2. Of(class, m.chain, m.cl) /\ Of(class, m.list, m.at)
      BY <3>1, <1>IdleShare, Zenon
    <3>3. held' = held /\ OneOff(Threads, t, held, held') /\ UNCHANGED << slots, lists, spans >>
      BY <2>1, <2>4, Zenon DEF OneOff
    <3>4. \A s \in Spans : held'[t][s] + m.chain[s] + m.list[s] = Share(held, me, t, s)
      BY <2>1, <3>1, <3>3, <1>IdleShare, Zenon DEF Share
    <3>5. me[t].span = Free /\ Goto(t, "fetch", m)
      BY <2>1, <2>4, <1>IdleShare, Zenon
    <3> HIDE DEF m
    <3> QED BY <3>1, <3>2, <3>3, <3>4, <3>5, QuietThread, Zenon
  <2> QED BY <2>2, <2>3, <2>4, Zenon
<1>Fetched. ASSUME NEW t \in Threads, Populate(t) \/ Fetched(t) PROVE OInv'
  <2> USE <1>Fetched
  <2>1. me[t] \in Locals /\ GoodLocals("fetch", me[t]) /\ UNCHANGED << slots, lists, spans >>
    BY MyFacts, Zenon DEF Typed, Populate, Fetched
  <2>2. me[t].cl \in Classes /\ me[t].list = None /\ me[t].span = Free
    BY <2>1, Zenon DEF GoodLocals
  <2>3. PICK c \in Classes : c = me[t].cl
    BY <2>2, Zenon
  <2>4. CASE Populate(t)
    <3>1. Goto(t, "populate", me[t]) /\ UNCHANGED << slots, held, lists, spans >>
      BY <2>4, Zenon DEF Populate
    <3> QED BY <2>2, <2>3, <3>1, QuietLocals, Zenon
  <2>5. CASE Fetched(t)
    <3>1. Goto(t, "idle", Idle) /\ held' = [held EXCEPT ![t] = Plus(@, me[t].chain)]
      BY <2>5, Zenon DEF Fetched
    <3>2. OneOff(Threads, t, held, held') /\ \A s \in Spans : held'[t][s] = held[t][s] + me[t].chain[s]
      BY <3>1, <1>HeldFacts, ZenonT(30)
    <3>3. Of(class, Idle.chain, Idle.cl) /\ Of(class, Idle.list, Idle.at)
      BY <1>IdleShare, Zenon
    <3>4. \A s \in Spans : held'[t][s] + Idle.chain[s] + Idle.list[s] = Share(held, me, t, s)
      <4> SUFFICES ASSUME NEW s \in Spans
                   PROVE  held'[t][s] + Idle.chain[s] + Idle.list[s] = Share(held, me, t, s)
        BY Zenon
      <4>1. /\ Share(held, me, t, s) = held[t][s] + me[t].chain[s] + me[t].list[s]
            /\ held[t][s] \in Nat /\ me[t].chain[s] \in Nat
        BY MyShare, Zenon
      <4>2. Idle.chain[s] = 0 /\ Idle.list[s] = 0 /\ me[t].list[s] = 0
        BY <2>2, <1>IdleShare, Zenon
      <4>3. (held[t][s] + me[t].chain[s]) + 0 + 0 = held[t][s] + me[t].chain[s] + 0
        BY <4>1, TakeChain, Zenon
      <4>4. held'[t][s] = held[t][s] + me[t].chain[s]
        BY <3>2, Zenon
      <4> QED BY <4>1, <4>2, <4>3, <4>4, Zenon
    <3>5. Idle.span = Free
      BY <1>IdleShare, Zenon
    <3> QED BY <2>1, <2>2, <3>1, <3>2, <3>3, <3>4, <3>5, QuietThread, Zenon
  <2> QED BY <2>4, <2>5, Zenon
<1> QED BY <1>InsertRange, <1>Evict, <1>ShrinkCache, <1>Relock, <1>Release, <1>RemoveRange,
           <1>Fetched, Zenon

-----------------------------------------------------------------------------
(* The lists of one class. *)

\* The non-empty spans q and the empty ones e of class c, with counter n and w spans,
\* when the spans have obj free objects and classes k.
ListOK(c, q, e, n, w, obj, k) ==
  /\ n = SumFunctionOnSet(obj, Range(q) \cup e)
  /\ w = Len(q) + Cardinality(e)
  /\ IsInjective(q) /\ \A s \in Range(q) \cup e : k[s] = c
  /\ \A s \in Range(q) \cup e : s \in Range(q) <=> obj[s] > 0
  /\ \A s \in e : obj[s] = 0

LEMMA ListsExactIs ==
  ListsExact <=>
    \A c \in Classes :
      ListOK(c, nonempty_[c], empty_[c], counter_[c], num_spans_[c], objects, class)
BY Zenon DEF ListsExact, ListOK, Listed

LEMMA ListsFinite ==
  ASSUME SumLaws, NEW q \in Seq(Spans), NEW e \in SUBSET Spans
  PROVE  /\ Range(q) \subseteq Spans /\ IsFiniteSet(Range(q) \cup e) /\ IsFiniteSet(e)
         /\ Cardinality(e) \in Nat
<1>1. Range(q) \subseteq Spans
  BY DEF Range
<1>2. IsFiniteSet(Spans)
  BY CentralAssumption, Zenon
<1>3. IsFiniteSet(Range(q) \cup e) /\ IsFiniteSet(e)
  BY <1>1, <1>2, Zenon DEF SumLaws, SubsetLaw
<1> QED BY <1>1, <1>3, Zenon DEF SumLaws, CardinalityLaw

\* A span that is in no list of the class changes nothing for it.
LEMMA ListOther ==
  ASSUME SumLaws, NEW c, NEW q \in Seq(Spans), NEW e \in SUBSET Spans, NEW n, NEW w,
         NEW obj \in [Spans -> Nat], NEW obj2 \in [Spans -> Nat], NEW k, NEW k2, NEW x \in Spans,
         OneOff(Spans, x, obj, obj2), OneOff(Spans, x, k, k2), x \notin Range(q) \cup e,
         ListOK(c, q, e, n, w, obj, k)
  PROVE  ListOK(c, q, e, n, w, obj2, k2)
<1> DEFINE L == Range(q) \cup e
<1>1. L \subseteq Spans /\ IsFiniteSet(L) /\ x \notin L
  BY ListsFinite, ZenonT(30)
<1> HIDE DEF L
<1>2. \A s \in L : obj[s] = obj2[s] /\ k[s] = k2[s] /\ obj[s] \in Int
  <2> SUFFICES ASSUME NEW s \in L PROVE obj[s] = obj2[s] /\ k[s] = k2[s] /\ obj[s] \in Int
    BY Zenon
  <2>1. s \in Spans /\ s # x
    BY <1>1, Zenon
  <2>2. obj[s] \in Int
    BY <2>1, NatIsInt, Zenon
  <2> QED BY <2>1, <2>2, Zenon DEF OneOff
<1>3. SumFunctionOnSet(obj, L) = SumFunctionOnSet(obj2, L)
  BY <1>1, <1>2, Zenon DEF SumLaws, SumEqualLaw
<1>4. e \subseteq L
  BY Zenon DEF L
<1> QED BY <1>2, <1>3, <1>4, Zenon DEF ListOK, L

Differ(S, x, f, g) ==
  /\ IsFiniteSet(S) /\ x \in S /\ \A y \in S : f[y] \in Int /\ g[y] \in Int
  /\ \A y \in S : y # x => f[y] = g[y]

LEMMA SumDiffer ==
  ASSUME SumLaws, NEW S, NEW x, NEW f, NEW g, Differ(S, x, f, g)
  PROVE  SumFunctionOnSet(g, S) = SumFunctionOnSet(f, S) + g[x] - f[x]
BY DEF Differ, SumLaws, SumUpdateLaw

\* One span of the class changes its free objects, and its list when it gets its first
\* or loses its last one.
LEMMA ListSame ==
  ASSUME SumLaws, NEW c, NEW q \in Seq(Spans), NEW e \in SUBSET Spans, NEW n, NEW w,
         NEW r \in Seq(Spans), NEW f \in SUBSET Spans,
         NEW obj \in [Spans -> Nat], NEW obj2 \in [Spans -> Nat], NEW k, NEW x \in Spans,
         OneOff(Spans, x, obj, obj2), ListOK(c, q, e, n, w, obj, k), x \in Range(q) \cup e,
         Range(r) \cup f = Range(q) \cup e, IsInjective(r),
         Len(r) + Cardinality(f) = Len(q) + Cardinality(e),
         \A s \in Spans : s # x => (s \in Range(r) <=> s \in Range(q)) /\ (s \in f <=> s \in e),
         x \in Range(r) <=> obj2[x] > 0, x \in f => obj2[x] = 0
  PROVE  ListOK(c, r, f, n + (obj2[x] - obj[x]), w, obj2, k)
<1> DEFINE L == Range(q) \cup e
<1>1. L \subseteq Spans /\ IsFiniteSet(L) /\ x \in L /\ L = Range(r) \cup f /\ f \subseteq L
  BY ListsFinite, ZenonT(30)
<1>2. \A s \in L : obj[s] \in Int /\ obj2[s] \in Int
  BY <1>1
<1>3. \A s \in L : s # x => obj[s] = obj2[s]
  BY <1>1, Zenon DEF OneOff
<1>4. n = SumFunctionOnSet(obj, L) /\ \A s \in L : k[s] = c
  BY Zenon DEF ListOK
<1>9. \A s \in L : s \in Range(q) <=> obj[s] > 0
  BY Zenon DEF ListOK
<1>10. \A s \in e : obj[s] = 0
  BY Zenon DEF ListOK
<1>5. \A s \in L : s \in Range(r) <=> obj2[s] > 0
  <2> SUFFICES ASSUME NEW s \in L PROVE s \in Range(r) <=> obj2[s] > 0
    BY Zenon
  <2>1. CASE s = x
    BY <2>1, Zenon
  <2>2. CASE s # x
    BY <1>1, <1>3, <1>9, <2>2, Zenon
  <2> QED BY <2>1, <2>2, Zenon
<1>6. \A s \in f : obj2[s] = 0
  <2> SUFFICES ASSUME NEW s \in f PROVE obj2[s] = 0
    BY Zenon
  <2>1. CASE s = x
    BY <2>1, Zenon
  <2>2. CASE s # x
    BY <1>1, <1>3, <1>10, <2>2, Zenon
  <2> QED BY <2>1, <2>2, Zenon
<1> HIDE DEF L
<1>7. SumFunctionOnSet(obj2, L) = SumFunctionOnSet(obj, L) + obj2[x] - obj[x]
  <2>1. Differ(L, x, obj, obj2)
    BY <1>1, <1>2, <1>3, Zenon DEF Differ
  <2> QED BY <2>1, SumDiffer, Zenon
<1>8. SumFunctionOnSet(obj, L) \in Int
  BY <1>1, <1>2, Zenon DEF SumLaws, SumRemoveLaw
<1>11. n + (obj2[x] - obj[x]) = SumFunctionOnSet(obj2, L)
  BY <1>1, <1>2, <1>4, <1>7, <1>8, Zenon
<1>12. w = Len(r) + Cardinality(f)
  BY Zenon DEF ListOK
<1> QED BY <1>1, <1>4, <1>5, <1>6, <1>11, <1>12, Zenon DEF ListOK

\* A span among the non-empty ones keeps a free object.
LEMMA ListStay ==
  ASSUME SumLaws, NEW c, NEW q \in Seq(Spans), NEW e \in SUBSET Spans, NEW n, NEW w,
         NEW obj \in [Spans -> Nat], NEW obj2 \in [Spans -> Nat], NEW k, NEW x \in Spans,
         OneOff(Spans, x, obj, obj2), ListOK(c, q, e, n, w, obj, k), x \in Range(q), obj2[x] > 0
  PROVE  ListOK(c, q, e, n + (obj2[x] - obj[x]), w, obj2, k)
<1>1. IsInjective(q)
  BY Zenon DEF ListOK
<1>2. x \notin e
  <2>1. obj[x] > 0 /\ \A s \in e : obj[s] = 0
    BY Zenon DEF ListOK
  <2> QED BY <2>1
<1> QED BY <1>1, <1>2, ListSame, Zenon

\* The first of the non-empty spans gives its last object.
LEMMA ListDown ==
  ASSUME SumLaws, NEW c, NEW q \in Seq(Spans), NEW e \in SUBSET Spans, NEW n, NEW w,
         NEW obj \in [Spans -> Nat], NEW obj2 \in [Spans -> Nat], NEW k, NEW x \in Spans,
         OneOff(Spans, x, obj, obj2), ListOK(c, q, e, n, w, obj, k),
         q # << >>, x = Head(q), obj2[x] = 0
  PROVE  ListOK(c, Tail(q), e \cup {x}, n + (obj2[x] - obj[x]), w, obj2, k)
<1> DEFINE r == Tail(q)
           f == e \cup {x}
<1>1. IsInjective(q)
  BY Zenon DEF ListOK
<1>2. /\ r \in Seq(Spans) /\ Len(r) = Len(q) - 1 /\ Len(q) \in Nat
      /\ x \in Range(q) /\ Range(r) = Range(q) \ {x} /\ IsInjective(r)
  BY <1>1, TailFacts, Zenon
<1>3. x \notin e
  <2>1. obj[x] > 0 /\ \A s \in e : obj[s] = 0
    BY <1>2, Zenon DEF ListOK
  <2> QED BY <2>1
<1>4. f \in SUBSET Spans /\ Range(r) \cup f = Range(q) \cup e
  BY <1>2, Zenon
<1>5. Len(r) + Cardinality(f) = Len(q) + Cardinality(e)
  <2>1. Len(r) = Len(q) - 1 /\ Len(q) \in Nat
    BY <1>2, Zenon
  <2>2. Leaves(e, x, f, Len(q), Len(r))
    BY <1>3, <2>1, Zenon DEF Leaves
  <2> HIDE DEF f, r
  <2> QED BY <2>2, CardMove
<1>6. \A s \in Spans : s # x => (s \in Range(r) <=> s \in Range(q)) /\ (s \in f <=> s \in e)
  BY <1>2, Zenon
<1>7. (x \in Range(r) <=> obj2[x] > 0) /\ (x \in f => obj2[x] = 0)
  BY <1>2
<1>8. x \in Range(q) \cup e /\ r \in Seq(Spans) /\ IsInjective(r)
  BY <1>2, Zenon
<1> HIDE DEF r, f
<1>9. ListOK(c, r, f, n + (obj2[x] - obj[x]), w, obj2, k)
  BY <1>4, <1>5, <1>6, <1>7, <1>8, ListSame, ZenonT(30)
<1> QED BY <1>9, Zenon DEF r, f

\* An empty span gets a free object.
LEMMA ListUp ==
  ASSUME SumLaws, NEW c, NEW q \in Seq(Spans), NEW e \in SUBSET Spans, NEW n, NEW w,
         NEW obj \in [Spans -> Nat], NEW obj2 \in [Spans -> Nat], NEW k, NEW x \in Spans,
         OneOff(Spans, x, obj, obj2), ListOK(c, q, e, n, w, obj, k),
         x \in Range(q) \cup e, obj[x] = 0, obj2[x] > 0
  PROVE  ListOK(c, << x >> \o q, e \ {x}, n + (obj2[x] - obj[x]), w, obj2, k)
<1> DEFINE r == << x >> \o q
           f == e \ {x}
<1>1. IsInjective(q) /\ x \notin Range(q) /\ x \in e
  BY DEF ListOK
<1>2. /\ r \in Seq(Spans) /\ Len(r) = Len(q) + 1 /\ Len(q) \in Nat
      /\ Range(r) = Range(q) \cup {x} /\ IsInjective(r)
  BY <1>1, PushFacts
<1>4. f \in SUBSET Spans /\ Range(r) \cup f = Range(q) \cup e
  BY <1>1, <1>2, Zenon
<1>5. Len(r) + Cardinality(f) = Len(q) + Cardinality(e)
  <2>1. Len(r) = Len(q) + 1 /\ Len(q) \in Nat /\ x \in e
    BY <1>1, <1>2, Zenon
  <2>2. Leaves(e, x, f, Len(q), Len(r))
    BY <2>1, Zenon DEF Leaves
  <2> HIDE DEF f, r
  <2> QED BY <2>2, CardMove
<1>6. \A s \in Spans : s # x => (s \in Range(r) <=> s \in Range(q)) /\ (s \in f <=> s \in e)
  BY <1>2, Zenon
<1>7. (x \in Range(r) <=> obj2[x] > 0) /\ (x \in f => obj2[x] = 0)
  BY <1>2, Zenon
<1>8. x \in Range(q) \cup e /\ r \in Seq(Spans) /\ IsInjective(r)
  BY <1>2, Zenon
<1> HIDE DEF r, f
<1>9. ListOK(c, r, f, n + (obj2[x] - obj[x]), w, obj2, k)
  BY <1>4, <1>5, <1>6, <1>7, <1>8, ListSame, Zenon
<1> QED BY <1>9, Zenon DEF r, f

\* A new span with free objects.
LEMMA ListPush ==
  ASSUME SumLaws, NEW c, NEW q \in Seq(Spans), NEW e \in SUBSET Spans, NEW n, NEW w,
         NEW obj \in [Spans -> Nat], NEW k, NEW x \in Spans,
         ListOK(c, q, e, n, w, obj, k), x \notin Range(q) \cup e, obj[x] > 0, k[x] = c
  PROVE  ListOK(c, << x >> \o q, e, n + obj[x], w + 1, obj, k)
<1> DEFINE r == << x >> \o q
           L == Range(q) \cup e
<1>1. IsInjective(q)
  BY Zenon DEF ListOK
<1>2. /\ r \in Seq(Spans) /\ Len(r) = Len(q) + 1 /\ Len(q) \in Nat
      /\ Range(r) = Range(q) \cup {x} /\ IsInjective(r)
  BY <1>1, PushFacts
<1>3. Range(r) \cup e = L \cup {x} /\ x \notin L
  BY <1>2, Zenon
<1>4. L \subseteq Spans /\ IsFiniteSet(L) /\ Cardinality(e) \in Nat
  BY ListsFinite, ZenonT(30)
<1>5. SumFunctionOnSet(obj, L \cup {x}) = SumFunctionOnSet(obj, L) + obj[x]
  <2>1. \A y \in L \cup {x} : obj[y] \in Int
    BY <1>4
  <2> HIDE DEF L
  <2> QED BY <1>3, <1>4, <2>1, Zenon DEF SumLaws, SumInsertLaw
<1>6. n + obj[x] = SumFunctionOnSet(obj, Range(r) \cup e)
  BY <1>3, <1>5, ZenonT(30) DEF ListOK
<1>7. w + 1 = Len(r) + Cardinality(e)
  BY <1>2, <1>4 DEF ListOK
<1>8. \A s \in Range(r) \cup e : k[s] = c
  BY <1>3, Zenon DEF ListOK
<1>9. \A s \in Range(r) \cup e : s \in Range(r) <=> obj[s] > 0
  BY <1>2, <1>3, Zenon DEF ListOK
<1>10. \A s \in e : obj[s] = 0
  BY Zenon DEF ListOK
<1> HIDE DEF r, L
<1>11. ListOK(c, r, e, n + obj[x], w + 1, obj, k)
  BY <1>2, <1>6, <1>7, <1>8, <1>9, <1>10, Zenon DEF ListOK
<1> QED BY <1>11, Zenon DEF r

\* A span leaves the lists, and with it its free objects.
LEMMA ListDrop ==
  ASSUME SumLaws, NEW c, NEW q \in Seq(Spans), NEW e \in SUBSET Spans, NEW n, NEW w,
         NEW obj \in [Spans -> Nat], NEW k, NEW x \in Spans,
         ListOK(c, q, e, n, w, obj, k), x \in Range(q) \cup e
  PROVE  /\ ListOK(c, DLL_Remove(q, x), e \ {x}, n - obj[x], w - 1, obj, k)
         /\ Range(DLL_Remove(q, x)) \cup (e \ {x}) = (Range(q) \cup e) \ {x}
<1> DEFINE r == DLL_Remove(q, x)
           f == e \ {x}
           L == Range(q) \cup e
<1>1. IsInjective(q) /\ Len(q) \in Nat
  BY DEF ListOK
<1>2. /\ r \in Seq(Spans) /\ Range(r) = Range(q) \ {x} /\ IsInjective(r)
      /\ Len(r) = IF x \in Range(q) THEN Len(q) - 1 ELSE Len(q)
  BY <1>1, UnlinkFacts, Zenon
<1>3. Range(r) \cup f = L \ {x}
  BY <1>2, Zenon
<1>4. L \subseteq Spans /\ IsFiniteSet(L) /\ Cardinality(e) \in Nat /\ x \in L
  BY ListsFinite, ZenonT(30)
<1>5. SumFunctionOnSet(obj, L) = obj[x] + SumFunctionOnSet(obj, L \ {x}) /\ SumFunctionOnSet(obj, L) \in Int
  <2>1. \A y \in L : obj[y] \in Int
    BY <1>4
  <2> HIDE DEF L
  <2> QED BY <1>4, <2>1, Zenon DEF SumLaws, SumRemoveLaw
<1>12. SumFunctionOnSet(obj, L \ {x}) \in Int
  <2>1. \A y \in L \ {x} : obj[y] \in Int
    BY <1>4
  <2>2. IsFiniteSet(L \ {x})
    BY <1>4, Zenon DEF SumLaws, SubsetLaw
  <2> HIDE DEF L
  <2> QED BY <2>1, <2>2, Zenon DEF SumLaws, SumRemoveLaw
<1>6. n - obj[x] = SumFunctionOnSet(obj, Range(r) \cup f)
  <2>1. n = SumFunctionOnSet(obj, L)
    BY Zenon DEF ListOK
  <2> HIDE DEF L, r, f
  <2>2. obj[x] \in Int /\ n = obj[x] + SumFunctionOnSet(obj, L \ {x})
    BY <1>5, <2>1
  <2>3. n - obj[x] = SumFunctionOnSet(obj, L \ {x})
    BY <1>12, <2>2, Cancel, Zenon
  <2> QED BY <1>3, <2>3, Zenon
<1>7. w - 1 = Len(r) + Cardinality(f)
  <2>1. w = Len(q) + Cardinality(e)
    BY Zenon DEF ListOK
  <2>2. CASE x \in Range(q)
    <3>1. obj[x] > 0 /\ \A s \in e : obj[s] = 0
      BY <2>2, Zenon DEF ListOK
    <3>2. x \notin e
      BY <3>1
    <3>3. Len(r) = Len(q) - 1 /\ Len(q) \in Nat
      BY <1>1, <1>2, <2>2, Zenon
    <3>4. f = e
      BY <3>2, Zenon
    <3> HIDE DEF f, r
    <3> QED BY <1>4, <2>1, <3>3, <3>4, OneLess
  <2>3. CASE x \notin Range(q)
    BY <1>1, <1>2, <1>4, <2>1, <2>3, CardFacts
  <2> QED BY <2>2, <2>3, Zenon
<1>8. \A s \in Range(r) \cup f : k[s] = c
  BY <1>3, Zenon DEF ListOK
<1>9. \A s \in Range(r) \cup f : s \in Range(r) <=> obj[s] > 0
  BY <1>2, Zenon DEF ListOK
<1>10. \A s \in f : obj[s] = 0
  BY Zenon DEF ListOK
<1> HIDE DEF r, f, L
<1>11. ListOK(c, r, f, n - obj[x], w - 1, obj, k)
  BY <1>2, <1>6, <1>7, <1>8, <1>9, <1>10, Zenon DEF ListOK
<1> QED BY <1>3, <1>11, Zenon DEF r, f, L

-----------------------------------------------------------------------------
(* The steps that change a span. *)

\* Span s is in a list of its class.
InList(s) == class[s] # Free /\ s \in Listed(class[s])

LEMMA ConservedIs ==
  ObjectsConserved <=>
    \A s \in Spans : /\ refcount[s] = Out(s)
                     /\ IF InList(s) THEN objects[s] + refcount[s] = PerSpan ELSE refcount[s] = 0
BY Zenon DEF ObjectsConserved, InList

\* Thread t goes on with locals m and changes span x only.
Touches(t, x, p, m) ==
  /\ Goto(t, p, m) /\ held' = held /\ slots' = slots
  /\ OneOff(Spans, x, objects, objects') /\ OneOff(Spans, x, refcount, refcount')
  /\ OneOff(Spans, x, class, class')
  /\ \A c \in Classes, s \in Spans : s # x => (s \in Listed(c)' <=> s \in Listed(c))
  /\ \A s \in Spans : s # x => m.chain[s] + m.list[s] = me[t].chain[s] + me[t].list[s]

\* What it makes of span x and of its own objects.
Accounts(t, x, p, m) ==
  /\ refcount'[x] = refcount[x] + ((m.chain[x] + m.list[x]) - (me[t].chain[x] + me[t].list[x]))
  /\ IF InList(x)' THEN objects'[x] + refcount'[x] = PerSpan ELSE refcount'[x] = 0
  /\ class'[x] = class[x] \/ Out(x) = 0
  /\ Of(class', m.chain, m.cl) /\ Of(class', m.list, m.at)
  /\ \A u \in Threads : u # t => me[u].span # x
  /\ m.span # Free =>
       /\ m.span = x /\ class'[x] = (IF p = "delete" THEN m.at ELSE m.cl)
       /\ p = "populated" => objects'[x] = PerSpan
       /\ \A c \in Classes : x \notin Listed(c)'

LEMMA OutZero ==
  ASSUME SumLaws, Typed, NEW x \in Spans, Out(x) = 0
  PROVE  /\ \A u \in Threads : ~(me[u].chain[x] > 0) /\ ~(me[u].list[x] > 0)
         /\ \A c \in Classes : \A i \in 1 .. Len(slots[c]) : ~(slots[c][i][x] > 0)
<1>1. /\ \A t \in Threads : Share(held, me, t, x) <= 0
      /\ \A c \in Classes : SeqSum(slots[c], x) <= 0
  BY OutFacts, Zenon
<1>2. ASSUME NEW u \in Threads PROVE ~(me[u].chain[x] > 0) /\ ~(me[u].list[x] > 0)
  <2>1. /\ Share(held, me, u, x) = held[u][x] + me[u].chain[x] + me[u].list[x]
        /\ held[u][x] \in Nat /\ me[u].chain[x] \in Nat /\ me[u].list[x] \in Nat
    BY MyShare, Zenon
  <2> QED BY <1>1, <2>1, ShareZero, Zenon
<1>3. ASSUME NEW c \in Classes, NEW i \in 1 .. Len(slots[c]) PROVE ~(slots[c][i][x] > 0)
  <2>1. slots[c] \in Seq(Chains)
    BY Zenon DEF Typed
  <2>2. slots[c][i][x] <= SeqSum(slots[c], x) /\ SeqSum(slots[c], x) \in Nat
    BY <2>1, SeqSumFacts, ZenonT(30)
  <2>3. slots[c][i] \in Chains
    BY <2>1, ElementFact, Zenon
  <2>4. slots[c][i][x] \in Nat
    BY <2>3, Zenon DEF Chains
  <2> QED BY <1>1, <2>2, <2>4, PartZero, Zenon
<1> QED BY <1>2, <1>3, Zenon

\* What is out of span s when thread t, busy with span x, goes on with locals m.
OutMoves(t, m, x, s) ==
  /\ Out(s)' = Out(s) + ((m.chain[s] + m.list[s]) - (me[t].chain[s] + me[t].list[s]))
  /\ s # x => Out(s)' = Out(s)

LEMMA TouchOut ==
  ASSUME SumLaws, Typed, Typed', NEW t \in Threads, NEW x \in Spans, NEW p, NEW m, Touches(t, x, p, m), NEW s \in Spans, NEW c \in Classes
  PROVE  OutMoves(t, m, x, s)
<1>1. me'[t] = m /\ OneOff(Threads, t, me, me')
  BY GotoIs, Zenon DEF Touches
<1>2. held' = held /\ slots' = slots
  BY Zenon DEF Touches
<1>3. OneOff(Threads, t, held, held') /\ OneOff(Classes, c, slots, slots')
  BY <1>2, Zenon DEF OneOff
<1>4. Share(held, me, t, s) = held[t][s] + me[t].chain[s] + me[t].list[s]
  BY Zenon DEF Share
<1>5. Share(held', me', t, s) = held[t][s] + m.chain[s] + m.list[s]
  BY <1>1, <1>2, Zenon DEF Share
<1>6. held[t][s] \in Nat /\ me[t].chain[s] \in Nat /\ me[t].list[s] \in Nat
  BY MyShare, Zenon
<1>7. m.chain[s] \in Nat /\ m.list[s] \in Nat
  <2>1. m \in Locals
    BY <1>1, Zenon DEF Typed, PlacesOK
  <2> QED BY <2>1, Zenon DEF Locals, Chains
<1>8. Out(s) \in Nat
  BY OutFacts, Zenon
<1>9. Out(s)' = Out(s) + (Share(held', me', t, s) - Share(held, me, t, s))
                     + (SeqSum(slots'[c], s) - SeqSum(slots[c], s))
  BY <1>1, <1>3, OutMove, Zenon
<1>10. SeqSum(slots'[c], s) - SeqSum(slots[c], s) = 0
  <2>1. slots[c] \in Seq(Chains)
    BY Zenon DEF Typed
  <2>2. SeqSum(slots[c], s) \in Nat
    BY <2>1, SeqSumFacts, Zenon
  <2> QED BY <1>2, <2>2, NoneLeft, Zenon
<1> HIDE DEF Out
<1>11. Out(s)' = Out(s) + ((m.chain[s] + m.list[s]) - (me[t].chain[s] + me[t].list[s]))
  <2>1. Out(s)' = Out(s) + ((held[t][s] + m.chain[s] + m.list[s])
                            - (held[t][s] + me[t].chain[s] + me[t].list[s])) + 0
    BY <1>4, <1>5, <1>9, <1>10, Zenon
  <2>2. Out(s) + ((held[t][s] + m.chain[s] + m.list[s])
                  - (held[t][s] + me[t].chain[s] + me[t].list[s])) + 0
          = Out(s) + ((m.chain[s] + m.list[s]) - (me[t].chain[s] + me[t].list[s]))
    BY <1>6, <1>7, <1>8, SMT
  <2> QED BY <2>1, <2>2, Zenon
<1>12. s # x => m.chain[s] + m.list[s] = me[t].chain[s] + me[t].list[s]
  BY Zenon DEF Touches
<1>13. Out(s) = Out(s) + ((me[t].chain[s] + me[t].list[s]) - (me[t].chain[s] + me[t].list[s]))
  BY <1>6, <1>8, NatIsInt, SameSum, ZenonT(30)
<1> QED BY <1>11, <1>12, <1>13, Zenon DEF OutMoves

\* A step that changes one span and accounts for it keeps the books.
LEMMA BusyMove ==
  ASSUME SumLaws, Typed, Typed', OInv, ListsExact', NEW t \in Threads, NEW c \in Classes, NEW x \in Spans,
         NEW p, NEW m, Touches(t, x, p, m), Accounts(t, x, p, m)
  PROVE  OInv'
<1>1. /\ me'[t] = m /\ pc'[t] = p
      /\ \A u \in Threads : u # t => me'[u] = me[u] /\ pc'[u] = pc[u]
  BY GotoIs, Zenon DEF Touches
<1>2. \A s \in Spans : s # x => objects'[s] = objects[s] /\ refcount'[s] = refcount[s] /\ class'[s] = class[s]
  BY Zenon DEF Touches, OneOff
<1>3. ObjectsConserved'
  <2> SUFFICES ASSUME NEW s \in Spans
               PROVE  /\ refcount'[s] = Out(s)'
                      /\ IF InList(s)' THEN objects'[s] + refcount'[s] = PerSpan ELSE refcount'[s] = 0
    BY Zenon DEF ObjectsConserved, InList
  <2>1. /\ refcount[s] = Out(s)
        /\ IF InList(s) THEN objects[s] + refcount[s] = PerSpan ELSE refcount[s] = 0
    BY ConservedIs, Zenon DEF OInv
  <2>2. CASE s = x
    <3>0. OutMoves(t, m, x, x)
      BY TouchOut, Zenon
    <3>1. Out(x)' = Out(x) + ((m.chain[x] + m.list[x]) - (me[t].chain[x] + me[t].list[x]))
      BY <3>0, Zenon DEF OutMoves
    <3>2. refcount'[x] = Out(x)'
      BY <2>1, <2>2, <3>1, Zenon DEF Accounts
    <3> QED BY <2>2, <3>2, Zenon DEF Accounts
  <2>3. CASE s # x
    <3>0. OutMoves(t, m, x, s)
      BY TouchOut, Zenon
    <3>1. Out(s)' = Out(s)
      BY <2>3, <3>0, Zenon DEF OutMoves
    <3>3. \A d \in Classes : s \in Listed(d)' <=> s \in Listed(d)
      BY <2>3, Zenon DEF Touches
    <3>4. objects'[s] = objects[s] /\ refcount'[s] = refcount[s] /\ class'[s] = class[s]
      BY <1>2, <2>3, ZenonT(30)
    <3>5. refcount'[s] = Out(s)'
      BY <2>1, <3>1, <3>4, ZenonT(30)
    <3>6. InList(s)' <=> InList(s)
      <4>1. class[s] \in Classes \cup {Free}
        BY Zenon DEF Typed
      <4>2. PICK d \in Classes \cup {Free} : d = class[s]
        BY <4>1, Zenon
      <4>3. (InList(s) <=> d # Free /\ s \in Listed(d)) /\ (InList(s)' <=> d # Free /\ s \in Listed(d)')
        BY <3>4, <4>2, Zenon DEF InList
      <4> QED BY <3>3, <4>3, Zenon
    <3> QED BY <2>1, <3>4, <3>5, <3>6, Zenon
  <2> QED BY <2>2, <2>3, Zenon
<1>4. ASSUME NEW f, NEW d, Of(class, f, d), class'[x] = class[x] \/ ~(f[x] > 0)
      PROVE  Of(class', f, d)
  BY <1>2, <1>4, Zenon DEF Of
<1>5. class'[x] = class[x] \/ Out(x) = 0
  BY Zenon DEF Accounts
<1>6. ClassOK'
  <2>1. ASSUME NEW u \in Threads
        PROVE  Of(class', me'[u].chain, me'[u].cl) /\ Of(class', me'[u].list, me'[u].at)
    <3>1. CASE u = t
      BY <1>1, <3>1, Zenon DEF Accounts
    <3>2. CASE u # t
      <4>1. me'[u] = me[u] /\ Of(class, me[u].chain, me[u].cl) /\ Of(class, me[u].list, me[u].at)
        BY <1>1, <3>2, Zenon DEF OInv, ClassOK
      <4>2. class'[x] = class[x] \/ (~(me[u].chain[x] > 0) /\ ~(me[u].list[x] > 0))
        BY <1>5, OutZero, Zenon
      <4>3. Of(class', me[u].chain, me[u].cl)
        BY <1>4, <4>1, <4>2, Zenon
      <4>4. Of(class', me[u].list, me[u].at)
        BY <1>4, <4>1, <4>2, Zenon
      <4> QED BY <4>1, <4>3, <4>4, Zenon
    <3> QED BY <3>1, <3>2, Zenon
  <2>2. ASSUME NEW d \in Classes, NEW i \in 1 .. Len(slots'[d])
        PROVE  Of(class', slots'[d][i], d)
    <3>1. slots' = slots
      BY Zenon DEF Touches
    <3>2. Of(class, slots[d][i], d)
      BY <3>1, Zenon DEF OInv, ClassOK
    <3>3. class'[x] = class[x] \/ ~(slots[d][i][x] > 0)
      BY <1>5, <3>1, OutZero, Zenon
    <3>4. Of(class', slots[d][i], d)
      BY <1>4, <3>2, <3>3, Zenon
    <3> QED BY <3>1, <3>4, Zenon
  <2> QED BY <2>1, <2>2, Zenon DEF ClassOK
<1>7. SpansOwned'
  <2>1. \A u \in Threads : u # t => me[u].span # x
    BY ZenonT(30) DEF Accounts
  <2>2. ASSUME NEW u \in Threads, me'[u].span # Free
        PROVE  /\ class'[me'[u].span] = IF pc'[u] = "delete" THEN me'[u].at ELSE me'[u].cl
               /\ pc'[u] = "populated" => objects'[me'[u].span] = PerSpan
               /\ \A d \in Classes : me'[u].span \notin Listed(d)'
    <3>1. CASE u = t
      BY <1>1, <2>2, <3>1, Zenon DEF Accounts
    <3>2. CASE u # t
      <4>1. me'[u] = me[u] /\ pc'[u] = pc[u] /\ me[u].span # Free /\ me[u].span # x
        BY <1>1, <2>1, <2>2, <3>2, Zenon
      <4>2. me[u].span \in Spans
        BY <4>1, Zenon DEF Typed, PlacesOK, Locals
      <4>3. /\ class[me[u].span] = IF pc[u] = "delete" THEN me[u].at ELSE me[u].cl
            /\ pc[u] = "populated" => objects[me[u].span] = PerSpan
            /\ \A d \in Classes : me[u].span \notin Listed(d)
        BY <4>1, Zenon DEF OInv, SpansOwned
      <4>4. objects'[me[u].span] = objects[me[u].span] /\ class'[me[u].span] = class[me[u].span]
        BY <1>2, <4>1, <4>2, Zenon
      <4>5. \A d \in Classes : me[u].span \notin Listed(d)'
        BY <4>1, <4>2, <4>3, Zenon DEF Touches
      <4> QED BY <4>1, <4>3, <4>4, <4>5, Zenon
    <3> QED BY <3>1, <3>2, Zenon
  <2>3. ASSUME NEW u \in Threads, NEW v \in Threads, me'[u].span # Free, me'[u].span = me'[v].span
        PROVE  u = v
    <3>1. \A z \in Threads : z # t => me'[z].span = me[z].span /\ me'[z].span # x
      BY <1>1, <2>1, Zenon
    <3>2. me'[t].span # Free => me'[t].span = x
      BY <1>1, Zenon DEF Accounts
    <3>3. CASE u # t /\ v # t
      <4>1. me[u].span # Free /\ me[u].span = me[v].span
        BY <2>3, <3>1, <3>3, Zenon
      <4> QED BY <4>1, Zenon DEF OInv, SpansOwned
    <3>4. CASE u = t \/ v = t
      BY <2>3, <3>1, <3>2, <3>4, Zenon
    <3> QED BY <3>3, <3>4, Zenon
  <2> QED BY <2>2, <2>3, Zenon DEF SpansOwned
<1> QED BY <1>3, <1>6, <1>7, Zenon DEF OInv

ListsOneOff(c) ==
  /\ OneOff(Classes, c, nonempty_, nonempty_') /\ OneOff(Classes, c, empty_, empty_')
  /\ OneOff(Classes, c, counter_, counter_') /\ OneOff(Classes, c, num_spans_, num_spans_')

\* Only the lists of class c change, and span x, which no other class lists.
LEMMA ListsNext ==
  ASSUME SumLaws, Typed, Typed', ListsExact, NEW c \in Classes, NEW x \in Spans, ListsOneOff(c),
         OneOff(Spans, x, objects, objects'), OneOff(Spans, x, class, class'),
         \A d \in Classes : d # c => x \notin Listed(d),
         ListOK(c, nonempty_'[c], empty_'[c], counter_'[c], num_spans_'[c], objects', class')
  PROVE  ListsExact'
<1>1. ASSUME NEW d \in Classes, d # c
      PROVE  ListOK(d, nonempty_'[d], empty_'[d], counter_'[d], num_spans_'[d], objects', class')
  <2>1. /\ nonempty_'[d] = nonempty_[d] /\ empty_'[d] = empty_[d]
        /\ counter_'[d] = counter_[d] /\ num_spans_'[d] = num_spans_[d]
    BY <1>1, Zenon DEF ListsOneOff, OneOff
  <2>2. ListOK(d, nonempty_[d], empty_[d], counter_[d], num_spans_[d], objects, class)
    BY ListsExactIs, Zenon
  <2>3. nonempty_[d] \in Seq(Spans) /\ empty_[d] \in SUBSET Spans
    BY Zenon DEF Typed
  <2>4. objects \in [Spans -> Nat] /\ objects' \in [Spans -> Nat]
    BY Zenon DEF Typed
  <2>5. x \notin Range(nonempty_[d]) \cup empty_[d]
    BY <1>1, Zenon DEF Listed
  <2>6. ListOK(d, nonempty_[d], empty_[d], counter_[d], num_spans_[d], objects', class')
    BY <2>2, <2>3, <2>4, <2>5, ListOther, Zenon
  <2> QED BY <2>1, <2>6, Zenon
<1>2. \A d \in Classes :
        ListOK(d, nonempty_'[d], empty_'[d], counter_'[d], num_spans_'[d], objects', class')
  BY <1>1, Zenon
<1> QED BY <1>2, Zenon DEF ListsExact, ListOK, Listed

\* And so do the steps that change a span.
LEMMA SpanSteps ==
  ASSUME SumLaws, Typed, Typed', OInv
  PROVE  \A t \in Threads :
           (\/ ReleaseToSpans(t) \/ DeleteSpan(t)
            \/ FetchFromOneSpans(t) \/ NewSpan(t) \/ Populated(t))
             => OInv'
\* A span that is in the lists of a class belongs to it.
<1>ListedFacts. ASSUME NEW c \in Classes, NEW s \in Spans, s \in Listed(c)
                PROVE  class[s] = c /\ InList(s) /\ \A d \in Classes : s \in Listed(d) => d = c
  <2> USE <1>ListedFacts
  <2>1. \A d \in Classes : s \in Listed(d) => class[s] = d
    BY Zenon DEF OInv, ListsExact
  <2>2. class[s] = c /\ \A d \in Classes : s \in Listed(d) => d = c
    BY <2>1, Zenon
  <2>3. class[s] # Free
    BY <2>2, CentralAssumption, Zenon
  <2> QED BY <2>2, <2>3, Zenon DEF InList
\* A span that a thread is about to add or to give back is in no list, has no object
\* out, and is that thread's alone.
<1>OwnedFacts. ASSUME NEW t \in Threads, me[t].span # Free
               PROVE  /\ me[t].span \in Spans /\ pc[t] \in {"delete", "populated"}
                      /\ refcount[me[t].span] = 0 /\ Out(me[t].span) = 0
                      /\ class[me[t].span] \in Classes
                      /\ \A c \in Classes : me[t].span \notin Listed(c)
                      /\ \A u \in Threads : u # t => me[u].span # me[t].span
  <2> USE <1>OwnedFacts
  <2>1. me[t] \in Locals /\ GoodLocals(pc[t], me[t])
    BY MyFacts, Zenon DEF Typed
  <2>2. PICK x \in Spans : x = me[t].span
    BY <2>1, Zenon DEF Locals
  <2>3. pc[t] \in {"delete", "populated"}
    BY <2>1, Zenon DEF GoodLocals
  <2>4. class[x] = (IF pc[t] = "delete" THEN me[t].at ELSE me[t].cl) /\ \A c \in Classes : x \notin Listed(c)
    BY <2>2, Zenon DEF OInv, SpansOwned
  <2>5. class[x] \in Classes
    BY <2>1, <2>3, <2>4, Zenon DEF GoodLocals
  <2>6. ~InList(x)
    BY <2>4, <2>5, Zenon DEF InList
  <2>7. refcount[x] = Out(x) /\ refcount[x] = 0
    BY <2>6, ConservedIs, Zenon DEF OInv
  <2>8. \A u \in Threads : u # t => me[u].span # me[t].span
    BY Zenon DEF OInv, SpansOwned
  <2> QED BY <2>2, <2>3, <2>4, <2>5, <2>7, <2>8, Zenon
<1>OfKeeps. ASSUME NEW k, NEW k2, NEW x \in Spans, NEW f, NEW d, OneOff(Spans, x, k, k2), Of(k, f, d),
                   k2[x] = k[x] \/ ~(f[x] > 0)
            PROVE  Of(k2, f, d)
  <2> USE <1>OfKeeps
  <2> QED BY Zenon DEF Of, OneOff
<1>ListedNotOwned. ASSUME NEW c \in Classes, NEW s \in Spans, s \in Listed(c)
                   PROVE  \A u \in Threads : me[u].span # s
  <2> USE <1>ListedNotOwned
  <2> SUFFICES ASSUME NEW u \in Threads, me[u].span = s PROVE FALSE
    BY Zenon
  <2>1. me[u].span # Free
    BY CentralAssumption, Zenon
  <2> QED BY <2>1, <1>OwnedFacts, Zenon
<1>ReleaseToSpans. ASSUME NEW t \in Threads, ReleaseToSpans(t) PROVE OInv'
  <2> USE <1>ReleaseToSpans
  <2>1. me[t] \in Locals /\ GoodLocals("release", me[t])
    <3>1. pc[t] = "release"
      BY ReleaseToSpansStep, Zenon
    <3>2. me[t] \in Locals /\ GoodLocals(pc[t], me[t])
      BY MyFacts, ZenonT(30) DEF Typed
    <3> QED BY <3>1, <3>2, Zenon
  <2>2. PICK c \in Classes : c = me[t].at
    BY <2>1, Zenon DEF GoodLocals
  <2>24. me[t].span = Free
    BY <2>1, Zenon DEF GoodLocals
  <2>3. PICK x \in Spans : /\ me[t].list[x] > 0
                           /\ refcount' = [refcount EXCEPT ![x] = @ - 1]
                           /\ KeepSpan(t, x) \/ DropSpan(t, x)
    BY ReleaseToSpansStep, Zenon
  <2>5. slots' = slots /\ held' = held /\ class' = class
    BY ReleaseToSpansStep, Zenon
  <2> DEFINE q == nonempty_[c]
             e == empty_[c]
  <2>6. q \in Seq(Spans) /\ e \in SUBSET Spans
    BY Zenon DEF Typed
  <2>7. objects \in [Spans -> Nat] /\ objects' \in [Spans -> Nat]
    BY Zenon DEF Typed
  <2>8. ListOK(c, q, e, counter_[c], num_spans_[c], objects, class)
    BY ListsExactIs, Zenon DEF OInv
  <2>9. class[x] = c
    BY <2>2, <2>3, Zenon DEF OInv, ClassOK, Of
  <2>10. InList(x)
    <3>1. Share(held, me, t, x) <= Out(x) /\ Out(x) \in Nat
      BY OutFacts, Zenon
    <3>2. me[t].list[x] <= Share(held, me, t, x) /\ me[t].list[x] \in Nat /\ Share(held, me, t, x) \in Nat
      BY MyShare, PartOf, Zenon
    <3>3. Out(x) # 0
      BY <2>3, <3>1, <3>2, AtLeast, Zenon
    <3>4. refcount[x] = Out(x) /\ (~InList(x) => refcount[x] = 0)
      BY ConservedIs, Zenon DEF OInv
    <3> QED BY <3>3, <3>4, Zenon
  <2>11. x \in Listed(c)
    BY <2>9, <2>10, Zenon DEF InList
  <2>12. \A d \in Classes : x \in Listed(d) => d = c
    BY <2>11, <1>ListedFacts, Zenon
  <2>13. objects[x] + refcount[x] = PerSpan
    BY <2>10, ConservedIs, Zenon DEF OInv
  <2>14. \A u \in Threads : me[u].span # x
    BY <2>11, <1>ListedNotOwned, Zenon
  <2>15. OneOff(Spans, x, refcount, refcount') /\ refcount'[x] = refcount[x] - 1
    BY <2>3, ZenonT(30) DEF Typed, OneOff
  <2>16. OneOff(Spans, x, class, class') /\ class'[x] = class[x]
    BY <2>5, Zenon DEF OneOff
  <2>17. /\ objects[x] \in Nat /\ refcount[x] \in Int /\ PerSpan \in Nat
         /\ counter_[c] \in Int /\ num_spans_[c] \in Int
    BY CentralAssumption, Zenon DEF Typed
  <2>18. x \in Range(q) \cup e /\ Listed(c) = Range(q) \cup e
    BY <2>11, Zenon DEF Listed
  <2>19. \A s \in Spans : Minus(me[t].list, One(x, 1))[s] = IF s = x THEN me[t].list[s] - 1 ELSE me[t].list[s]
    BY <2>1, TakeOne, Zenon DEF Locals
  <2> DEFINE Rest(m) ==
               /\ m.chain = me[t].chain /\ m.cl = me[t].cl /\ m.at = c
               /\ \A s \in Spans : m.list[s] = IF s = x THEN me[t].list[s] - 1 ELSE me[t].list[s]
  <2>20. ASSUME NEW m, Rest(m)
         PROVE  /\ \A s \in Spans : s # x => m.chain[s] + m.list[s] = me[t].chain[s] + me[t].list[s]
                /\ refcount'[x] = refcount[x] + ((m.chain[x] + m.list[x]) - (me[t].chain[x] + me[t].list[x]))
                /\ Of(class', m.chain, m.cl) /\ Of(class', m.list, m.at)
    <3>1. \A s \in Spans : s # x => m.chain[s] + m.list[s] = me[t].chain[s] + me[t].list[s]
      BY <2>20, Zenon
    <3>2. refcount'[x] = refcount[x] + ((m.chain[x] + m.list[x]) - (me[t].chain[x] + me[t].list[x]))
      <4>1. m.list[x] = me[t].list[x] - 1 /\ m.chain[x] = me[t].chain[x]
        BY <2>20, Zenon
      <4>2. me[t].list[x] \in Nat /\ me[t].chain[x] \in Nat
        BY MyShare, Zenon
      <4>3. refcount[x] - 1 = refcount[x] + ((me[t].chain[x] + (me[t].list[x] - 1)) - (me[t].chain[x] + me[t].list[x]))
        BY <2>17, <4>2, SumLessOne, Zenon
      <4> QED BY <2>15, <4>1, <4>3, Zenon
    <3>3. Of(class', m.chain, m.cl)
      BY <2>5, <2>20, Zenon DEF OInv, ClassOK
    <3>4. Of(class, me[t].list, c)
      BY <2>2, Zenon DEF OInv, ClassOK
    <3>5. Of(class', m.list, m.at)
      BY <2>5, <2>9, <2>20, <3>4, Zenon DEF Of
    <3> QED BY <3>1, <3>2, <3>3, <3>5, Zenon
  <2>21. CASE KeepSpan(t, x)
    <3> DEFINE m == [me[t] EXCEPT !.list = Minus(@, One(x, 1))]
    <3>1. Rest(m) /\ m.span = Free
      BY <2>1, <2>2, <2>19, <2>24, Zenon DEF Locals
    <3>2. /\ Goto(t, "release", m) /\ objects' = [objects EXCEPT ![x] = @ + 1]
          /\ counter_' = [counter_ EXCEPT ![c] = @ + 1] /\ num_spans_' = num_spans_
      BY <2>2, <2>21, Zenon DEF KeepSpan
    <3>3. /\ OneOff(Spans, x, objects, objects') /\ objects'[x] = objects[x] + 1
          /\ OneOff(Classes, c, counter_, counter_') /\ counter_'[c] = counter_[c] + 1
          /\ OneOff(Classes, c, num_spans_, num_spans_') /\ num_spans_'[c] = num_spans_[c]
      BY <3>2, ZenonT(30) DEF Typed, OneOff
    <3>4. counter_'[c] = counter_[c] + (objects'[x] - objects[x])
      <4>1. counter_[c] + 1 = counter_[c] + ((objects[x] + 1) - objects[x])
        BY <2>17, CountUp, Zenon
      <4> QED BY <3>3, <4>1, Zenon
    <3>5. /\ OneOff(Classes, c, nonempty_, nonempty_') /\ OneOff(Classes, c, empty_, empty_')
          /\ \/ objects[x] = 0 /\ nonempty_'[c] = << x >> \o q /\ empty_'[c] = e \ {x}
             \/ objects[x] # 0 /\ nonempty_'[c] = q /\ empty_'[c] = e
      <4>1. CASE objects[x] = 0
        <5>1. nonempty_' = [nonempty_ EXCEPT ![c] = << x >> \o @] /\ empty_' = [empty_ EXCEPT ![c] = @ \ {x}]
          BY <2>2, <2>21, <4>1, Zenon DEF KeepSpan
        <5> QED BY <4>1, <5>1, Zenon DEF Typed, OneOff
      <4>2. CASE objects[x] # 0
        <5>1. nonempty_' = nonempty_ /\ empty_' = empty_
          BY <2>21, <4>2, Zenon DEF KeepSpan
        <5> QED BY <4>2, <5>1, Zenon DEF OneOff
      <4> QED BY <4>1, <4>2, Zenon
    <3>6. objects'[x] > 0
      BY <2>17, <3>3, Positive, Zenon
    <3> HIDE DEF m, q, e, Rest
    <3>7. /\ ListOK(c, nonempty_'[c], empty_'[c], counter_[c] + (objects'[x] - objects[x]), num_spans_[c], objects', class)
          /\ Range(nonempty_'[c]) \cup empty_'[c] = Range(q) \cup e
      <4>1. CASE objects[x] = 0 /\ nonempty_'[c] = << x >> \o q /\ empty_'[c] = e \ {x}
        <5>1. ListOK(c, << x >> \o q, e \ {x}, counter_[c] + (objects'[x] - objects[x]), num_spans_[c], objects', class)
          BY <2>6, <2>7, <2>8, <2>18, <3>3, <3>6, <4>1, ListUp, Zenon
        <5>2. IsInjective(q) /\ x \notin Range(q)
          BY <2>8, <2>18, <4>1, Positive, Zenon DEF ListOK
        <5>3. Range(<< x >> \o q) = Range(q) \cup {x}
          BY <2>6, <5>2, PushFacts, Zenon
        <5>4. Range(<< x >> \o q) \cup (e \ {x}) = Range(q) \cup e
          BY <2>18, <5>2, <5>3, Zenon
        <5> QED BY <4>1, <5>1, <5>4, Zenon
      <4>2. CASE objects[x] # 0 /\ nonempty_'[c] = q /\ empty_'[c] = e
        <5>1. x \in Range(q)
          BY <2>8, <2>17, <2>18, <4>2, Zenon DEF ListOK
        <5>2. ListOK(c, q, e, counter_[c] + (objects'[x] - objects[x]), num_spans_[c], objects', class)
          BY <2>6, <2>7, <2>8, <3>3, <3>6, <5>1, ListStay, Zenon
        <5> QED BY <4>2, <5>2, Zenon
      <4> QED BY <3>5, <4>1, <4>2, ZenonT(30)
    <3>8. ListOK(c, nonempty_'[c], empty_'[c], counter_'[c], num_spans_'[c], objects', class')
      BY <2>5, <3>3, <3>4, <3>7, Zenon
    <3>9. ListsOneOff(c)
      BY <3>3, <3>5, Zenon DEF ListsOneOff
    <3>10. ListsExact'
      BY <2>12, <2>16, <3>3, <3>8, <3>9, ListsNext, Zenon DEF OInv
    <3>11. Listed(c)' = Listed(c)
      BY <2>18, <3>7, ZenonT(30) DEF Listed
    <3>12. \A d \in Classes : Listed(d)' = Listed(d)
      BY <3>9, <3>11, Zenon DEF ListsOneOff, OneOff, Listed
    <3>13. Touches(t, x, "release", m)
      BY <2>5, <2>15, <2>16, <2>20, <3>1, <3>2, <3>3, <3>12, Zenon DEF Touches
    <3>14. InList(x)'
      BY <2>5, <2>9, <2>10, <2>11, <3>11, Zenon DEF InList
    <3>15. objects'[x] + refcount'[x] = PerSpan
      <4>1. (objects[x] + 1) + (refcount[x] - 1) = objects[x] + refcount[x]
        BY <2>17, OneBack, Zenon
      <4> QED BY <2>13, <2>15, <3>3, <4>1, Zenon
    <3>16. Accounts(t, x, "release", m)
      BY <2>14, <2>16, <2>20, <3>1, <3>14, <3>15, Zenon DEF Accounts
    <3> QED BY <3>10, <3>13, <3>16, BusyMove, Zenon
  <2>22. CASE DropSpan(t, x)
    <3> DEFINE m == [me[t] EXCEPT !.list = Minus(@, One(x, 1)), !.span = x]
    <3>1. Rest(m) /\ m.span = x
      BY <2>1, <2>2, <2>19, Zenon DEF Locals
    <3>2. /\ Goto(t, "delete", m) /\ objects' = [objects EXCEPT ![x] = 0] /\ refcount[x] = 1
          /\ nonempty_' = [nonempty_ EXCEPT ![c] = DLL_Remove(@, x)]
          /\ empty_' = [empty_ EXCEPT ![c] = @ \ {x}]
          /\ counter_' = [counter_ EXCEPT ![c] = @ + 1 - PerSpan]
          /\ num_spans_' = [num_spans_ EXCEPT ![c] = @ - 1]
      BY <2>2, <2>22, Zenon DEF DropSpan
    <3>3. /\ OneOff(Spans, x, objects, objects')
          /\ OneOff(Classes, c, counter_, counter_') /\ counter_'[c] = counter_[c] + 1 - PerSpan
          /\ OneOff(Classes, c, num_spans_, num_spans_') /\ num_spans_'[c] = num_spans_[c] - 1
      BY <3>2, ZenonT(30) DEF Typed, OneOff
    <3>4. /\ OneOff(Classes, c, nonempty_, nonempty_') /\ nonempty_'[c] = DLL_Remove(q, x)
          /\ OneOff(Classes, c, empty_, empty_') /\ empty_'[c] = e \ {x}
      BY <3>2, ZenonT(30) DEF Typed, OneOff
    <3>5. counter_'[c] = counter_[c] - objects[x]
      <4>1. counter_[c] + 1 - (objects[x] + 1) = counter_[c] - objects[x]
        BY <2>17, CountSpan, Zenon
      <4>2. PerSpan = objects[x] + 1
        BY <2>13, <3>2, Zenon
      <4> QED BY <3>3, <4>1, <4>2, Zenon
    <3> HIDE DEF m, q, e, Rest
    <3>6. /\ ListOK(c, DLL_Remove(q, x), e \ {x}, counter_[c] - objects[x], num_spans_[c] - 1, objects, class)
          /\ Range(DLL_Remove(q, x)) \cup (e \ {x}) = (Range(q) \cup e) \ {x}
      <4> DEFINE n == counter_[c]
                 w == num_spans_[c]
      <4>1. x \in Range(q) \cup e /\ ListOK(c, q, e, n, w, objects, class)
        BY <2>8, <2>18, Zenon
      <4> HIDE DEF n, w
      <4>2. ListOK(c, DLL_Remove(q, x), e \ {x}, n - objects[x], w - 1, objects, class)
        BY <2>6, <2>7, <4>1, ListDrop, Zenon
      <4>3. Range(DLL_Remove(q, x)) \cup (e \ {x}) = (Range(q) \cup e) \ {x}
        <5>1. IsInjective(q)
          BY <2>8, Zenon DEF ListOK
        <5>2. Range(DLL_Remove(q, x)) = Range(q) \ {x}
          BY <2>6, <5>1, UnlinkFacts, Zenon
        <5> QED BY <5>2, Zenon
      <4> QED BY <4>2, <4>3, Zenon DEF n, w
    <3>7. ListOK(c, nonempty_'[c], empty_'[c], counter_'[c], num_spans_'[c], objects, class)
      BY <3>3, <3>4, <3>5, <3>6, Zenon
    <3>8. Listed(c)' = Listed(c) \ {x}
      BY <2>18, <3>4, <3>6, ZenonT(30) DEF Listed
    <3>9. ListsOneOff(c)
      BY <3>3, <3>4, Zenon DEF ListsOneOff
    <3>10. ListOK(c, nonempty_'[c], empty_'[c], counter_'[c], num_spans_'[c], objects', class')
      <4>1. nonempty_'[c] \in Seq(Spans) /\ empty_'[c] \in SUBSET Spans
        BY Zenon DEF Typed
      <4>2. x \notin Range(nonempty_'[c]) \cup empty_'[c]
        BY <3>8, Zenon DEF Listed
      <4> QED BY <2>7, <2>16, <3>3, <3>7, <4>1, <4>2, ListOther, Zenon
    <3>11. ListsExact'
      BY <2>12, <2>16, <3>3, <3>9, <3>10, ListsNext, Zenon DEF OInv
    <3>12. \A d \in Classes : d # c => Listed(d)' = Listed(d)
      BY <3>9, Zenon DEF ListsOneOff, OneOff, Listed
    <3>13. \A d \in Classes, s \in Spans : s # x => (s \in Listed(d)' <=> s \in Listed(d))
      BY <3>8, <3>12, Zenon
    <3>14. \A d \in Classes : x \notin Listed(d)'
      BY <2>12, <3>8, <3>12, Zenon
    <3>15. Touches(t, x, "delete", m)
      BY <2>5, <2>15, <2>16, <2>20, <3>1, <3>2, <3>3, <3>13, Zenon DEF Touches
    <3>16. ~InList(x)'
      BY <2>5, <2>9, <3>14, Zenon DEF InList
    <3>17. refcount'[x] = 0
      BY <2>15, <3>2, Positive, Zenon
    <3>18. m.at = c
      BY <3>1, Zenon DEF Rest
    <3>19. Accounts(t, x, "delete", m)
      BY <2>5, <2>9, <2>14, <2>16, <2>20, <3>1, <3>14, <3>16, <3>17, <3>18, Zenon DEF Accounts
    <3> QED BY <3>11, <3>15, <3>19, BusyMove, Zenon
  <2> QED BY <2>3, <2>21, <2>22, Zenon
<1>DeleteSpan. ASSUME NEW t \in Threads, DeleteSpan(t) PROVE OInv'
  <2> USE <1>DeleteSpan
  <2>1. me[t] \in Locals /\ GoodLocals("delete", me[t])
    <3>1. pc[t] = "delete"
      BY Zenon DEF DeleteSpan
    <3>2. me[t] \in Locals /\ GoodLocals(pc[t], me[t])
      BY MyFacts, ZenonT(30) DEF Typed
    <3> QED BY <3>1, <3>2, Zenon
  <2>2. PICK x \in Spans : x = me[t].span
    BY <2>1, Zenon DEF GoodLocals
  <2>3. me[t].span # Free
    BY <2>2, CentralAssumption, Zenon
  <2>4. /\ refcount[x] = 0 /\ Out(x) = 0 /\ \A c \in Classes : x \notin Listed(c)
        /\ \A u \in Threads : u # t => me[u].span # x
    BY <2>2, <2>3, <1>OwnedFacts, Zenon
  <2>5. PICK c \in Classes : c = me[t].at
    BY <2>1, Zenon DEF GoodLocals
  <2> DEFINE m == [me[t] EXCEPT !.span = Free]
  <2>6. /\ m.span = Free /\ m.chain = me[t].chain /\ m.cl = me[t].cl
        /\ m.list = me[t].list /\ m.at = me[t].at
    BY <2>1, Zenon DEF Locals
  <2>7. /\ class' = [class EXCEPT ![x] = Free] /\ Goto(t, "deleted", m)
        /\ slots' = slots /\ held' = held /\ objects' = objects /\ refcount' = refcount
        /\ nonempty_' = nonempty_ /\ empty_' = empty_ /\ counter_' = counter_ /\ num_spans_' = num_spans_
    BY <2>2, Zenon DEF DeleteSpan, cvars, lists
  <2>8. OneOff(Spans, x, class, class') /\ class'[x] = Free
    BY <2>7, Zenon DEF Typed, OneOff
  <2>9. /\ OneOff(Spans, x, objects, objects') /\ OneOff(Spans, x, refcount, refcount')
        /\ \A d : Listed(d)' = Listed(d)
    BY <2>7, Zenon DEF OneOff, Listed
  <2> HIDE DEF m
  <2>10. Touches(t, x, "deleted", m)
    BY <2>6, <2>7, <2>8, <2>9, Zenon DEF Touches
  <2>11. ListsExact'
    <3>1. ListsOneOff(c)
      BY <2>7, Zenon DEF ListsOneOff, OneOff
    <3>2. ListOK(c, nonempty_[c], empty_[c], counter_[c], num_spans_[c], objects, class)
      BY ListsExactIs, Zenon DEF OInv
    <3>3. nonempty_[c] \in Seq(Spans) /\ empty_[c] \in SUBSET Spans /\ objects \in [Spans -> Nat]
      BY Zenon DEF Typed
    <3>4. x \notin Range(nonempty_[c]) \cup empty_[c] /\ OneOff(Spans, x, objects, objects)
      BY <2>4, Zenon DEF Listed, OneOff
    <3>5. ListOK(c, nonempty_[c], empty_[c], counter_[c], num_spans_[c], objects, class')
      BY <2>8, <3>2, <3>3, <3>4, ListOther, Zenon
    <3>6. ListOK(c, nonempty_'[c], empty_'[c], counter_'[c], num_spans_'[c], objects', class')
      BY <2>7, <3>5, Zenon
    <3> QED BY <2>4, <2>8, <2>9, <3>1, <3>6, ListsNext, Zenon DEF OInv
  <2>12. Accounts(t, x, "deleted", m)
    <3>1. refcount'[x] = refcount[x] + ((m.chain[x] + m.list[x]) - (me[t].chain[x] + me[t].list[x]))
      <4>1. refcount[x] = refcount[x] + ((me[t].chain[x] + me[t].list[x]) - (me[t].chain[x] + me[t].list[x]))
        <5>1. refcount[x] \in Int /\ me[t].chain[x] \in Nat /\ me[t].list[x] \in Nat
          BY MyShare, Zenon DEF Typed
        <5> QED BY <5>1, SameSum, Zenon
      <4> QED BY <2>6, <2>7, <4>1, Zenon
    <3>2. ~InList(x)'
      BY <2>8, Zenon DEF InList
    <3>3. \A f, d : Of(class, f, d) /\ ~(f[x] > 0) => Of(class', f, d)
      BY <2>8, Zenon DEF Of, OneOff
    <3>4. ~(me[t].chain[x] > 0) /\ ~(me[t].list[x] > 0)
      BY <2>4, OutZero, Zenon
    <3>5. Of(class', m.chain, m.cl) /\ Of(class', m.list, m.at)
      BY <2>6, <3>3, <3>4, Zenon DEF OInv, ClassOK
    <3>6. refcount'[x] = 0
      BY <2>4, <2>7, Zenon
    <3> QED BY <2>4, <2>6, <3>1, <3>2, <3>5, <3>6, Zenon DEF Accounts
  <2> QED BY <2>10, <2>11, <2>12, BusyMove, Zenon
<1>Fetch. ASSUME NEW t \in Threads, FetchFromOneSpans(t) PROVE OInv'
  <2> USE <1>Fetch
  <2>1. me[t] \in Locals
    BY MyFacts, ZenonT(30) DEF Typed
  <2>2. PICK c \in Classes : c = me[t].cl
    BY FetchStep, Zenon
  <2>3. PICK x \in Spans :
          \E n \in Nat : /\ nonempty_[c] # << >> /\ x = Head(nonempty_[c])
                         /\ n <= objects[x] /\ FetchOf(t, c, x, n)
    BY <2>2, FetchStep, Zenon
  <2>4. PICK n \in Nat : /\ nonempty_[c] # << >> /\ x = Head(nonempty_[c])
                         /\ n <= objects[x] /\ FetchOf(t, c, x, n)
    BY <2>3, Zenon
  <2>5. slots' = slots /\ held' = held /\ class' = class /\ num_spans_' = num_spans_
    BY FetchStep, Zenon DEF cvars
  <2> DEFINE m == [me[t] EXCEPT !.chain = Plus(@, One(x, n))]
             q == nonempty_[c]
             e == empty_[c]
  <2>6. q \in Seq(Spans) /\ e \in SUBSET Spans
    BY Zenon DEF Typed
  <2>7. objects \in [Spans -> Nat] /\ objects' \in [Spans -> Nat]
    BY Zenon DEF Typed
  <2>8. ListOK(c, q, e, counter_[c], num_spans_[c], objects, class)
    BY ListsExactIs, Zenon DEF OInv
  <2>9. IsInjective(q)
    BY <2>8, Zenon DEF ListOK
  <2>10. x \in Range(q) /\ Range(Tail(q)) = Range(q) \ {x}
    BY <2>4, <2>6, <2>9, TailFacts, Zenon
  <2>11. x \in Listed(c)
    BY <2>10, Zenon DEF Listed
  <2>12. class[x] = c /\ InList(x) /\ \A d \in Classes : x \in Listed(d) => d = c
    BY <2>11, <1>ListedFacts, Zenon
  <2>13. objects[x] + refcount[x] = PerSpan
    BY <2>12, ConservedIs, Zenon DEF OInv
  <2>14. \A u \in Threads : me[u].span # x
    BY <2>11, <1>ListedNotOwned, Zenon
  <2>15. /\ OneOff(Spans, x, objects, objects') /\ objects'[x] = objects[x] - n
         /\ OneOff(Spans, x, refcount, refcount') /\ refcount'[x] = refcount[x] + n
    BY <2>4, Zenon DEF FetchOf, Typed, OneOff
  <2>16. OneOff(Spans, x, class, class') /\ class'[x] = class[x]
    BY <2>5, Zenon DEF OneOff
  <2>17. objects[x] \in Nat /\ refcount[x] \in Int /\ PerSpan \in Nat
    BY CentralAssumption, Zenon DEF Typed
  <2>18. /\ counter_'[c] = counter_[c] - n /\ counter_[c] \in Int
         /\ OneOff(Classes, c, counter_, counter_') /\ OneOff(Classes, c, num_spans_, num_spans_')
         /\ num_spans_'[c] = num_spans_[c]
    BY <2>4, <2>5, Zenon DEF FetchOf, Typed, OneOff
  <2>19. counter_'[c] = counter_[c] + (objects'[x] - objects[x])
    <3>1. counter_[c] - n = counter_[c] + ((objects[x] - n) - objects[x])
      BY <2>17, <2>18, CountDown, Zenon
    <3> QED BY <2>15, <2>18, <3>1, Zenon
  <2>20. /\ OneOff(Classes, c, nonempty_, nonempty_') /\ OneOff(Classes, c, empty_, empty_')
         /\ \/ objects'[x] = 0 /\ nonempty_'[c] = Tail(q) /\ empty_'[c] = e \cup {x}
            \/ objects'[x] > 0 /\ nonempty_'[c] = q /\ empty_'[c] = e
    <3>1. CASE objects[x] = n
      <4>1. nonempty_' = [nonempty_ EXCEPT ![c] = Tail(@)] /\ empty_' = [empty_ EXCEPT ![c] = @ \cup {x}]
        BY <2>4, <3>1, Zenon DEF FetchOf
      <4>2. objects'[x] = 0
        BY <2>15, <3>1, NoneLeft, Zenon
      <4> QED BY <4>1, <4>2, Zenon DEF Typed, OneOff
    <3>2. CASE objects[x] # n
      <4>1. nonempty_' = nonempty_ /\ empty_' = empty_
        BY <2>4, <3>2, Zenon DEF FetchOf
      <4>2. objects'[x] > 0
        BY <2>4, <2>15, <2>17, <3>2, SomeLeft, Zenon
      <4> QED BY <4>1, <4>2, ZenonT(30) DEF OneOff
    <3> QED BY <3>1, <3>2, ZenonT(30)
  <2>21. m.span = me[t].span /\ m.cl = c /\ m.list = me[t].list /\ m.at = me[t].at
    BY <2>1, <2>2, Zenon DEF Locals
  <2>22. \A s \in Spans : m.chain[s] = IF s = x THEN me[t].chain[s] + n ELSE me[t].chain[s]
    <3>1. me[t].chain \in Chains /\ m.chain = Plus(me[t].chain, One(x, n))
      BY <2>1, Zenon DEF Locals
    <3>2. AddsTo(Plus(me[t].chain, One(x, n)), me[t].chain, x, n)
      BY <3>1, AddSome, Zenon
    <3> HIDE DEF m
    <3> QED BY <3>1, <3>2, Zenon DEF AddsTo
  <2>23. Goto(t, "fetch", m)
    BY <2>4, Zenon DEF FetchOf
  <2>24. me[t].span = Free
    BY MyFacts, FetchStep, Zenon DEF Typed, GoodLocals
  <2> HIDE DEF m, q, e
  <2>25. ListOK(c, nonempty_'[c], empty_'[c], counter_[c] + (objects'[x] - objects[x]), num_spans_[c], objects', class)
    <3>1. CASE objects'[x] = 0 /\ nonempty_'[c] = Tail(q) /\ empty_'[c] = e \cup {x}
      <4>1. ListOK(c, Tail(q), e \cup {x}, counter_[c] + (objects'[x] - objects[x]), num_spans_[c], objects', class)
        BY <2>4, <2>6, <2>7, <2>8, <2>15, <3>1, ListDown, Zenon DEF q
      <4> QED BY <3>1, <4>1, Zenon
    <3>2. CASE objects'[x] > 0 /\ nonempty_'[c] = q /\ empty_'[c] = e
      <4>1. ListOK(c, q, e, counter_[c] + (objects'[x] - objects[x]), num_spans_[c], objects', class)
        BY <2>6, <2>7, <2>8, <2>10, <2>15, <3>2, ListStay, Zenon
      <4> QED BY <3>2, <4>1, Zenon
    <3> QED BY <2>20, <3>1, <3>2, ZenonT(30)
  <2>26. ListOK(c, nonempty_'[c], empty_'[c], counter_'[c], num_spans_'[c], objects', class')
    BY <2>5, <2>18, <2>19, <2>25, Zenon
  <2>27. ListsOneOff(c)
    BY <2>18, <2>20, Zenon DEF ListsOneOff
  <2>28. ListsExact'
    BY <2>12, <2>15, <2>16, <2>26, <2>27, ListsNext, Zenon DEF OInv
  <2>29. Listed(c)' = Listed(c)
    <3>1. Listed(c) = Range(q) \cup e /\ Listed(c)' = Range(nonempty_'[c]) \cup empty_'[c]
      BY Zenon DEF Listed, q, e
    <3> QED BY <2>10, <2>20, <3>1, Zenon
  <2>30. \A d \in Classes : Listed(d)' = Listed(d)
    BY <2>27, <2>29, Zenon DEF ListsOneOff, OneOff, Listed
  <2>31. \A s \in Spans : s # x => m.chain[s] + m.list[s] = me[t].chain[s] + me[t].list[s]
    BY <2>21, <2>22, Zenon
  <2>32. Touches(t, x, "fetch", m)
    BY <2>5, <2>15, <2>16, <2>23, <2>30, <2>31, Zenon DEF Touches
  <2>33. Accounts(t, x, "fetch", m)
    <3>1. refcount'[x] = refcount[x] + ((m.chain[x] + m.list[x]) - (me[t].chain[x] + me[t].list[x]))
      <4>1. m.chain[x] = me[t].chain[x] + n /\ m.list[x] = me[t].list[x]
        BY <2>21, <2>22, Zenon
      <4>2. me[t].list[x] \in Nat /\ me[t].chain[x] \in Nat
        BY MyShare, Zenon
      <4>3. refcount[x] + n = refcount[x] + (((me[t].chain[x] + n) + me[t].list[x]) - (me[t].chain[x] + me[t].list[x]))
        BY <2>17, <4>2, SMT
      <4> QED BY <2>15, <4>1, <4>3, Zenon
    <3>2. InList(x)'
      BY <2>5, <2>11, <2>12, <2>29, Zenon DEF InList
    <3>3. objects'[x] + refcount'[x] = PerSpan
      <4>1. (objects[x] - n) + (refcount[x] + n) = objects[x] + refcount[x]
        BY <2>17, SomeOut, Zenon
      <4> QED BY <2>13, <2>15, <4>1, Zenon
    <3>4. Of(class', m.chain, m.cl)
      <4>1. Of(class, me[t].chain, c)
        BY <2>2, Zenon DEF OInv, ClassOK
      <4> QED BY <2>5, <2>12, <2>21, <2>22, <4>1, Zenon DEF Of
    <3>5. Of(class', m.list, m.at)
      BY <2>5, <2>21, Zenon DEF OInv, ClassOK
    <3> QED BY <2>14, <2>16, <2>21, <2>24, <3>1, <3>2, <3>3, <3>4, <3>5, Zenon DEF Accounts
  <2> QED BY <2>28, <2>32, <2>33, BusyMove, Zenon
<1>NewSpan. ASSUME NEW t \in Threads, NewSpan(t) PROVE OInv'
  <2> USE <1>NewSpan
  <2>1. me[t] \in Locals /\ GoodLocals("populate", me[t])
    <3>1. pc[t] = "populate"
      BY Zenon DEF NewSpan
    <3>2. me[t] \in Locals /\ GoodLocals(pc[t], me[t])
      BY MyFacts, ZenonT(30) DEF Typed
    <3> QED BY <3>1, <3>2, Zenon
  <2>2. PICK c \in Classes : c = me[t].cl
    BY <2>1, Zenon DEF GoodLocals
  <2>3. me[t].span = Free
    BY <2>1, Zenon DEF GoodLocals
  <2>4. /\ slots' = slots /\ held' = held
        /\ nonempty_' = nonempty_ /\ empty_' = empty_ /\ counter_' = counter_ /\ num_spans_' = num_spans_
    BY Zenon DEF NewSpan, cvars, lists
  <2>5. CASE Goto(t, "populated", me[t]) /\ UNCHANGED spans
    <3>1. UNCHANGED << slots, held, lists, spans >>
      BY <2>4, <2>5, Zenon DEF lists
    <3> QED BY <2>2, <2>3, <2>5, <3>1, QuietLocals, Zenon
  <2>6. ASSUME NEW x \in Spans, class[x] = Free,
               class' = [class EXCEPT ![x] = me[t].cl],
               objects' = [objects EXCEPT ![x] = PerSpan],
               refcount' = [refcount EXCEPT ![x] = 0],
               Goto(t, "populated", [me[t] EXCEPT !.span = x])
        PROVE  OInv'
    <3> DEFINE m == [me[t] EXCEPT !.span = x]
    <3>1. /\ m.span = x /\ m.chain = me[t].chain /\ m.cl = c
          /\ m.list = me[t].list /\ m.at = me[t].at
      BY <2>1, <2>2, Zenon DEF Locals
    <3>2. /\ OneOff(Spans, x, class, class') /\ class'[x] = c
          /\ OneOff(Spans, x, objects, objects') /\ objects'[x] = PerSpan
          /\ OneOff(Spans, x, refcount, refcount') /\ refcount'[x] = 0
      BY <2>2, <2>6, Zenon DEF Typed, OneOff
    <3>3. \A d \in Classes : x \notin Listed(d)
      BY <2>6, CentralAssumption, Zenon DEF OInv, ListsExact
    <3>4. refcount[x] = Out(x) /\ refcount[x] = 0
      BY <2>6, ConservedIs, Zenon DEF OInv, InList
    <3>5. \A d : Listed(d)' = Listed(d)
      BY <2>4, Zenon DEF Listed
    <3>6. \A u \in Threads : me[u].span # x
      <4> SUFFICES ASSUME NEW u \in Threads, me[u].span = x PROVE FALSE
        BY Zenon
      <4>1. me[u].span # Free
        BY CentralAssumption, Zenon
      <4>2. class[me[u].span] \in Classes
        BY <4>1, <1>OwnedFacts, Zenon
      <4> QED BY <2>6, <4>2, CentralAssumption, Zenon
    <3>7. Goto(t, "populated", m)
      BY <2>6, Zenon
    <3> HIDE DEF m
    <3>8. Touches(t, x, "populated", m)
      BY <2>4, <3>1, <3>2, <3>5, <3>7, Zenon DEF Touches
    <3>9. ListsExact'
      <4>1. ListsOneOff(c)
        BY <2>4, Zenon DEF ListsOneOff, OneOff
      <4>2. ListOK(c, nonempty_[c], empty_[c], counter_[c], num_spans_[c], objects, class)
        BY ListsExactIs, Zenon DEF OInv
      <4>3. nonempty_[c] \in Seq(Spans) /\ empty_[c] \in SUBSET Spans
        BY Zenon DEF Typed
      <4>4. objects \in [Spans -> Nat] /\ objects' \in [Spans -> Nat]
        BY Zenon DEF Typed
      <4>5. x \notin Range(nonempty_[c]) \cup empty_[c]
        BY <3>3, Zenon DEF Listed
      <4>6. ListOK(c, nonempty_[c], empty_[c], counter_[c], num_spans_[c], objects', class')
        BY <3>2, <4>2, <4>3, <4>4, <4>5, ListOther, Zenon
      <4>7. ListOK(c, nonempty_'[c], empty_'[c], counter_'[c], num_spans_'[c], objects', class')
        BY <2>4, <4>6, Zenon
      <4> QED BY <3>2, <3>3, <4>1, <4>7, ListsNext, Zenon DEF OInv
    <3>10. Accounts(t, x, "populated", m)
      <4>1. refcount'[x] = refcount[x] + ((m.chain[x] + m.list[x]) - (me[t].chain[x] + me[t].list[x]))
        <5>1. refcount[x] = refcount[x] + ((me[t].chain[x] + me[t].list[x]) - (me[t].chain[x] + me[t].list[x]))
          <6>1. refcount[x] \in Int /\ me[t].chain[x] \in Nat /\ me[t].list[x] \in Nat
            BY MyShare, Zenon DEF Typed
          <6> QED BY <6>1, SameSum, Zenon
        <5> QED BY <3>1, <3>2, <3>4, <5>1, Zenon
      <4>2. \A d \in Classes : x \notin Listed(d)'
        BY <3>3, <3>5, Zenon
      <4>3. ~InList(x)'
        BY <3>2, <4>2, Zenon DEF InList
      <4>5. ~(me[t].chain[x] > 0) /\ ~(me[t].list[x] > 0)
        BY <3>4, OutZero, Zenon
      <4>6. Of(class', me[t].chain, me[t].cl) /\ Of(class', me[t].list, me[t].at)
        BY <3>2, <4>5, <1>OfKeeps, Zenon DEF OInv, ClassOK
      <4>7. Of(class', m.chain, m.cl) /\ Of(class', m.list, m.at)
        BY <2>2, <3>1, <4>6, Zenon
      <4>8. Out(x) = 0
        BY <3>4, Zenon
      <4> QED BY <3>1, <3>2, <3>6, <4>1, <4>2, <4>3, <4>7, <4>8, Zenon DEF Accounts
    <3> QED BY <3>8, <3>9, <3>10, BusyMove, Zenon
  <2> QED BY <2>5, <2>6, Zenon DEF NewSpan
<1>Populated. ASSUME NEW t \in Threads, Populated(t) PROVE OInv'
  <2> USE <1>Populated
  <2>1. me[t] \in Locals /\ GoodLocals("populated", me[t]) /\ pc[t] = "populated"
    BY MyFacts, Zenon DEF Typed, Populated
  <2>2. PICK c \in Classes : c = me[t].cl
    BY <2>1, Zenon DEF GoodLocals
  <2> DEFINE m == [me[t] EXCEPT !.span = Free, !.done = TRUE]
  <2>3. /\ m.span = Free /\ m.chain = me[t].chain /\ m.cl = me[t].cl
        /\ m.list = me[t].list /\ m.at = me[t].at
    BY <2>1, Zenon DEF Locals
  <2>4. /\ slots' = slots /\ held' = held /\ objects' = objects /\ refcount' = refcount /\ class' = class
        /\ Goto(t, "fetch", m)
    BY Zenon DEF Populated, spans
  <2>5. CASE me[t].span = Free /\ UNCHANGED lists
    <3>1. UNCHANGED << slots, held, lists, spans >>
      BY <2>4, <2>5, Zenon DEF spans
    <3> HIDE DEF m
    <3> QED BY <2>2, <2>3, <2>4, <2>5, <3>1, QuietLocals, Zenon
  <2>6. CASE /\ me[t].span # Free
             /\ nonempty_' = [nonempty_ EXCEPT ![c] = << me[t].span >> \o @]
             /\ num_spans_' = [num_spans_ EXCEPT ![c] = @ + 1]
             /\ counter_' = [counter_ EXCEPT ![c] = @ + PerSpan]
             /\ UNCHANGED empty_
    <3>1. PICK x \in Spans : x = me[t].span
      BY <2>6, <1>OwnedFacts, Zenon
    <3>2. /\ refcount[x] = 0 /\ \A d \in Classes : x \notin Listed(d)
          /\ \A u \in Threads : u # t => me[u].span # x
      BY <2>6, <3>1, <1>OwnedFacts, Zenon
    <3>3. class[x] = c /\ objects[x] = PerSpan
      BY <2>1, <2>2, <2>6, <3>1, Zenon DEF OInv, SpansOwned
    <3>4. PerSpan \in Nat /\ PerSpan > 0 /\ c # Free
      BY CentralAssumption, Positive, Zenon
    <3>5. /\ nonempty_'[c] = << x >> \o nonempty_[c] /\ empty_'[c] = empty_[c]
          /\ counter_'[c] = counter_[c] + objects[x] /\ num_spans_'[c] = num_spans_[c] + 1
      BY <2>6, <3>1, <3>3, Zenon DEF Typed
    <3>6. ListsOneOff(c)
      BY <2>6, Zenon DEF ListsOneOff, OneOff, Typed
    <3>7. ListOK(c, nonempty_[c], empty_[c], counter_[c], num_spans_[c], objects, class)
      BY ListsExactIs, Zenon DEF OInv
    <3>8. nonempty_[c] \in Seq(Spans) /\ empty_[c] \in SUBSET Spans /\ objects \in [Spans -> Nat]
      BY Zenon DEF Typed
    <3>9. x \notin Range(nonempty_[c]) \cup empty_[c]
      BY <3>2, Zenon DEF Listed
    <3>10. ListOK(c, << x >> \o nonempty_[c], empty_[c], counter_[c] + objects[x], num_spans_[c] + 1, objects, class)
      BY <3>3, <3>4, <3>7, <3>8, <3>9, ListPush, Zenon
    <3>11. ListOK(c, nonempty_'[c], empty_'[c], counter_'[c], num_spans_'[c], objects', class')
      BY <2>4, <3>5, <3>10, Zenon
    <3>12. /\ OneOff(Spans, x, objects, objects') /\ OneOff(Spans, x, refcount, refcount')
           /\ OneOff(Spans, x, class, class')
      BY <2>4, Zenon DEF OneOff
    <3>13. ListsExact'
      BY <3>2, <3>6, <3>11, <3>12, ListsNext, Zenon DEF OInv
    <3>14. Range(<< x >> \o nonempty_[c]) = Range(nonempty_[c]) \cup {x}
      BY <3>7, <3>8, <3>9, PushFacts, Zenon DEF ListOK
    <3>15. Listed(c)' = Listed(c) \cup {x}
      BY <3>5, <3>14, Zenon DEF Listed
    <3>16. \A d \in Classes : d # c => Listed(d)' = Listed(d)
      BY <3>6, Zenon DEF ListsOneOff, OneOff, Listed
    <3>17. \A d \in Classes, s \in Spans : s # x => (s \in Listed(d)' <=> s \in Listed(d))
      BY <3>15, <3>16, Zenon
    <3> HIDE DEF m
    <3>18. Touches(t, x, "fetch", m)
      BY <2>3, <2>4, <3>12, <3>17, Zenon DEF Touches
    <3>19. Accounts(t, x, "fetch", m)
      <4>1. refcount'[x] = refcount[x] + ((m.chain[x] + m.list[x]) - (me[t].chain[x] + me[t].list[x]))
        <5>1. refcount[x] = refcount[x] + ((me[t].chain[x] + me[t].list[x]) - (me[t].chain[x] + me[t].list[x]))
          <6>1. refcount[x] \in Int /\ me[t].chain[x] \in Nat /\ me[t].list[x] \in Nat
            BY MyShare, Zenon DEF Typed
          <6> QED BY <6>1, SameSum, Zenon
        <5> QED BY <2>3, <2>4, <5>1, Zenon
      <4>2. InList(x)'
        BY <2>4, <3>3, <3>4, <3>15, Zenon DEF InList
      <4>3. objects'[x] + refcount'[x] = PerSpan
        BY <2>4, <3>2, <3>3, <3>4, NoneLeft, Zenon
      <4>4. Of(class', m.chain, m.cl) /\ Of(class', m.list, m.at)
        BY <2>3, <2>4, Zenon DEF OInv, ClassOK
      <4> QED BY <2>3, <2>4, <3>2, <4>1, <4>2, <4>3, <4>4, Zenon DEF Accounts
    <3> QED BY <3>13, <3>18, <3>19, BusyMove, Zenon
  <2> QED BY <2>2, <2>5, <2>6, Zenon DEF Populated
<1> QED BY <1>ReleaseToSpans, <1>DeleteSpan, <1>Fetch, <1>NewSpan, <1>Populated, Zenon

\* Together: no step loses an object.
LEMMA NextObjects ==
  ASSUME SumLaws, Typed, Typed', OInv
  PROVE  [Next]_vars => OInv'
<1>1. ASSUME UNCHANGED vars PROVE OInv'
  <2>1. ListsExact' /\ SpansOwned'
    BY <1>1, Zenon DEF vars, OInv, ListsExact, Listed, SpansOwned
  <2>2. ObjectsConserved'
    BY <1>1, Zenon DEF vars, OInv, ObjectsConserved, Listed, Out
  <2>3. ClassOK'
    BY <1>1, Zenon DEF vars, OInv, ClassOK
  <2> QED BY <2>1, <2>2, <2>3, Zenon DEF OInv
<1>2. ASSUME Next PROVE OInv'
  <2>1. PICK t \in Threads :
          \/ InsertRange(t) \/ EvictFails(t) \/ EvictFrom(t) \/ ShrinkCache(t) \/ Relock(t)
          \/ Deleted(t) \/ Released(t) \/ RemoveRange(t) \/ Populate(t) \/ Fetched(t)
          \/ ReleaseToSpans(t) \/ DeleteSpan(t)
          \/ FetchFromOneSpans(t) \/ NewSpan(t) \/ Populated(t)
    BY <1>2, Zenon DEF Next
  <2>2. CASE \/ InsertRange(t) \/ EvictFails(t) \/ EvictFrom(t) \/ ShrinkCache(t) \/ Relock(t)
             \/ Deleted(t) \/ Released(t) \/ RemoveRange(t) \/ Populate(t) \/ Fetched(t)
    BY <2>2, QuietSteps, Zenon
  <2>3. CASE \/ ReleaseToSpans(t) \/ DeleteSpan(t)
             \/ FetchFromOneSpans(t) \/ NewSpan(t) \/ Populated(t)
    BY <2>3, SpanSteps, Zenon
  <2> QED BY <2>1, <2>2, <2>3, Zenon
<1> QED BY <1>1, <1>2, Zenon

=============================================================================
