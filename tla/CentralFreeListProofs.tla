------------------------ MODULE CentralFreeListProofs ------------------------
(***************************************************************************)
(* The central free lists keep what they promise: sums over finite sets add  *)
(* up as the steps of CentralStepsProofs need them to, the initial state     *)
(* satisfies the invariant, and with it every state does.                    *)
(***************************************************************************)
EXTENDS CentralStepsProofs, FiniteSetTheorems

-----------------------------------------------------------------------------
(* Sums over finite sets. *)

\* g is the function that the recursion of SumFunctionOnSet describes on the subsets of S.
SumSolution(g, f, S) ==
  g = [s \in SUBSET S |-> IF s = {} THEN 0 ELSE LET x == CHOOSE y \in s : TRUE IN f[x] + g[s \ {x}]]

LEMMA SumIs ==
  ASSUME NEW f, NEW S
  PROVE SumFunctionOnSet(f, S) = (CHOOSE g : SumSolution(g, f, S))[S]
BY DEF SumFunctionOnSet, FoldFunctionOnSet, MapThenFoldSet, SumSolution

\* A non-empty set of subsets of a finite set has a minimal one: the induction of this section.
LEMMA SetMin ==
  ASSUME NEW S, IsFiniteSet(S), NEW Z, Z \subseteq SUBSET S, Z # {}
  PROVE  \E T \in Z : \A U \in Z : U \subseteq T => U = T
<1>1. IsWellFoundedOn(StrictSubsetOrdering(S), SUBSET S)
  BY FS_StrictSubsetOrderingWellFounded, FS_FiniteSubsetsOfFinite, Zenon
<1>2. PICK T \in Z : \A U \in Z : ~(<< U, T >> \in StrictSubsetOrdering(S))
  BY <1>1, WFMin, Zenon
<1> QED BY <1>2, Zenon DEF StrictSubsetOrdering

LEMMA SumSolutionUnique ==
  ASSUME NEW f, NEW S, IsFiniteSet(S), NEW T \in SUBSET S, NEW g, NEW h,
         SumSolution(g, f, S), SumSolution(h, f, T)
  PROVE  \A s \in SUBSET T : g[s] = h[s]
<1> DEFINE Z == {s \in SUBSET T : g[s] # h[s]}
<1>1. SUFFICES ASSUME Z # {} PROVE FALSE
  OBVIOUS
<1>2. IsFiniteSet(T)
  BY FS_Subset
<1>3. PICK s \in Z : \A U \in Z : U \subseteq s => U = s
  <2>1. Z \subseteq SUBSET T OBVIOUS
  <2> HIDE DEF Z
  <2> QED BY <1>1, <1>2, <2>1, SetMin
<1>4. s \in SUBSET T /\ s \in SUBSET S /\ g[s] # h[s]
  OBVIOUS
<1>5. s # {}
  BY <1>4 DEF SumSolution
<1> DEFINE x == CHOOSE y \in s : TRUE
<1>6. x \in s
  BY <1>5
<1>7. g[s \ {x}] = h[s \ {x}]
  BY <1>3, <1>4, <1>6
<1>8. g[s] = f[x] + g[s \ {x}]
  BY <1>4, <1>5 DEF SumSolution
<1>9. h[s] = f[x] + h[s \ {x}]
  BY <1>4, <1>5 DEF SumSolution
<1> QED BY <1>4, <1>7, <1>8, <1>9

LEMMA SumSolutionExists ==
  ASSUME NEW f, NEW S, IsFiniteSet(S)
  PROVE  \A T \in SUBSET S : \E g : SumSolution(g, f, T)
<1> DEFINE Z == {T \in SUBSET S : ~ \E g : SumSolution(g, f, T)}
<1>1. SUFFICES ASSUME Z # {} PROVE FALSE
  OBVIOUS
<1>2. PICK T \in Z : \A U \in Z : U \subseteq T => U = T
  <2>1. Z \subseteq SUBSET S OBVIOUS
  <2> HIDE DEF Z
  <2> QED BY <1>1, <2>1, SetMin
<1> DEFINE G(U) == CHOOSE g : SumSolution(g, f, U)
           pick(s) == CHOOSE y \in s : TRUE
           g == [s \in SUBSET T |-> IF s = {} THEN 0
                                    ELSE f[pick(s)] + G(s \ {pick(s)})[s \ {pick(s)}]]
<1>3. \A U \in SUBSET T : U # T => SumSolution(G(U), f, U)
  BY <1>2, Zenon
<1>4. \A s \in SUBSET T : s # {} => pick(s) \in s
  OBVIOUS
<1>5. \A U \in SUBSET T : U # T => g[U] = G(U)[U]
  <2> SUFFICES ASSUME NEW U \in SUBSET T, U # T PROVE g[U] = G(U)[U]
    BY Zenon
  <2>1. SumSolution(G(U), f, U)
    BY <1>3
  <2>2. CASE U = {}
    BY <2>1, <2>2, Zenon DEF SumSolution
  <2>3. CASE U # {}
    <3> DEFINE W == U \ {pick(U)}
    <3>1. W \in SUBSET U /\ W \in SUBSET T /\ W # T
      BY <1>4, <2>3
    <3>2. SumSolution(G(W), f, W)
      BY <1>3, <3>1, Zenon
    <3>3. IsFiniteSet(U)
      BY <1>2, FS_Subset
    <3>4. G(U)[W] = G(W)[W]
      <4> HIDE DEF W, G
      <4> QED BY <2>1, <3>1, <3>2, <3>3, SumSolutionUnique
    <3>5. G(U)[U] = f[pick(U)] + G(U)[W]
      <4> HIDE DEF G
      <4> QED BY <2>1, <2>3 DEF SumSolution
    <3> HIDE DEF G
    <3> QED BY <2>3, <3>4, <3>5
  <2> QED BY <2>2, <2>3
<1>6. \A s \in SUBSET T : s # {} => g[s] = f[pick(s)] + g[s \ {pick(s)}]
  <2> SUFFICES ASSUME NEW s \in SUBSET T, s # {} PROVE g[s] = f[pick(s)] + g[s \ {pick(s)}]
    BY Zenon
  <2>1. s \ {pick(s)} \in SUBSET T /\ s \ {pick(s)} # T
    BY <1>4
  <2>2. g[s] = f[pick(s)] + G(s \ {pick(s)})[s \ {pick(s)}]
    <3> HIDE DEF G, pick
    <3> QED OBVIOUS
  <2> HIDE DEF g, G, pick
  <2> QED BY <1>5, <2>1, <2>2
<1>7. g[{}] = 0
  OBVIOUS
<1>8. SumSolution(g, f, T)
  <2>1. g = [s \in SUBSET T |-> g[s]]
    <3> HIDE DEF G, pick
    <3> QED OBVIOUS
  <2>2. \A s \in SUBSET T : g[s] = IF s = {} THEN 0 ELSE f[pick(s)] + g[s \ {pick(s)}]
    <3> HIDE DEF g, pick
    <3> QED BY <1>6, <1>7, Zenon
  <2> HIDE DEF g
  <2> QED BY <2>1, <2>2, Zenon DEF SumSolution
<1> QED BY <1>2, <1>8

\* The sum of nothing, and the sum of a set by the element its fold takes first.
LEMMA SumRecursion ==
  ASSUME NEW f, NEW S, IsFiniteSet(S)
  PROVE  /\ SumFunctionOnSet(f, {}) = 0
         /\ S # {} => LET x == CHOOSE y \in S : TRUE
                      IN  SumFunctionOnSet(f, S) = f[x] + SumFunctionOnSet(f, S \ {x})
<1> DEFINE G(U) == CHOOSE g : SumSolution(g, f, U)
           x == CHOOSE y \in S : TRUE
<1>1. \A U \in SUBSET S : SumSolution(G(U), f, U)
  BY SumSolutionExists, Zenon
<1>2. \A U : SumFunctionOnSet(f, U) = G(U)[U]
  BY SumIs
<1> HIDE DEF G
<1>3. SumSolution(G({}), f, {})
  BY <1>1
<1>4. G({})[{}] = 0
  BY <1>3 DEF SumSolution
<1>5. ASSUME S # {} PROVE G(S)[S] = f[x] + G(S \ {x})[S \ {x}]
  <2> DEFINE W == S \ {x}
  <2>1. SumSolution(G(S), f, S) /\ SumSolution(G(W), f, W)
    BY <1>1
  <2>2. G(S)[S] = f[x] + G(S)[W]
    BY <1>5, <2>1 DEF SumSolution
  <2>3. G(S)[W] = G(W)[W]
    <3>1. W \in SUBSET S OBVIOUS
    <3> HIDE DEF W
    <3> QED BY <2>1, <3>1, SumSolutionUnique
  <2> QED BY <2>2, <2>3
<1> QED BY <1>2, <1>4, <1>5

LEMMA Plus3 == \A a, b, r \in Int : a + (b + r) = b + (a + r) /\ a + b = b + a
OBVIOUS

\* A sum of integers is one, and does not depend on the order.
LEMMA SumRemove ==
  ASSUME NEW S, IsFiniteSet(S), NEW f, \A y \in S : f[y] \in Int
  PROVE  /\ SumFunctionOnSet(f, S) \in Int
         /\ \A x \in S : SumFunctionOnSet(f, S) = f[x] + SumFunctionOnSet(f, S \ {x})
<1> DEFINE F(T) == SumFunctionOnSet(f, T)
           Good(T) == F(T) \in Int /\ \A x \in T : F(T) = f[x] + F(T \ {x})
           Z == {T \in SUBSET S : ~Good(T)}
<1>1. SUFFICES ASSUME Z # {} PROVE FALSE
  OBVIOUS
<1>2. PICK T \in Z : \A U \in Z : U \subseteq T => U = T
  <2>1. Z \subseteq SUBSET S OBVIOUS
  <2> HIDE DEF Z
  <2> QED BY <1>1, <2>1, SetMin
<1>3. \A U \in SUBSET T : U # T => Good(U)
  <2> HIDE DEF F
  <2> QED BY <1>2
<1>4. IsFiniteSet(T)
  BY <1>2, FS_Subset
<1>5. F({}) = 0
  BY FS_EmptySet, SumRecursion, Zenon
<1>6. T # {}
  <2>1. Good({})
    <3> HIDE DEF F
    <3> QED BY <1>5
  <2> HIDE DEF F
  <2> QED BY <1>2, <2>1, Zenon
<1>7. PICK x \in T : F(T) = f[x] + F(T \ {x})
  <2>1. (CHOOSE y \in T : TRUE) \in T BY <1>6
  <2> QED BY <1>4, <1>6, <2>1, SumRecursion, Zenon
<1> HIDE DEF F
<1>8. Good(T \ {x})
  BY <1>3
<1>9. F(T) \in Int
  BY <1>7, <1>8, f[x] \in Int
<1>10. ASSUME NEW y \in T PROVE F(T) = f[y] + F(T \ {y})
  <2>1. CASE y = x
    BY <1>7, <2>1
  <2>2. CASE y # x
    <3>1. F(T \ {x}) = f[y] + F((T \ {x}) \ {y})
      BY <1>8, <2>2
    <3>2. Good(T \ {y})
      BY <1>3
    <3>3. F(T \ {y}) = f[x] + F((T \ {y}) \ {x})
      BY <3>2, <2>2
    <3>4. (T \ {y}) \ {x} = (T \ {x}) \ {y}
      OBVIOUS
    <3>5. F((T \ {x}) \ {y}) \in Int
      BY <1>3
    <3>6. f[x] \in Int /\ f[y] \in Int
      OBVIOUS
    <3> DEFINE r == F((T \ {x}) \ {y})
    <3>7. f[x] + (f[y] + r) = f[y] + (f[x] + r)
      BY <3>5, <3>6, Plus3, Zenon
    <3>8. F(T) = f[x] + (f[y] + r)
      BY <1>7, <3>1, Zenon
    <3>9. F(T \ {y}) = f[x] + r
      BY <3>3, <3>4, Zenon
    <3> QED BY <3>7, <3>8, <3>9, Zenon
  <2> QED BY <2>1, <2>2
<1> QED BY <1>2, <1>9, <1>10

\* Two functions that agree have the same sum.
LEMMA SumEqual ==
  ASSUME NEW S, IsFiniteSet(S), NEW f, NEW g, \A y \in S : f[y] = g[y] /\ f[y] \in Int
  PROVE  SumFunctionOnSet(f, S) = SumFunctionOnSet(g, S)
<1> DEFINE F(T) == SumFunctionOnSet(f, T)
           G(T) == SumFunctionOnSet(g, T)
           Z == {T \in SUBSET S : F(T) # G(T)}
<1>1. SUFFICES ASSUME Z # {} PROVE FALSE
  OBVIOUS
<1>2. PICK T \in Z : \A U \in Z : U \subseteq T => U = T
  <2>1. Z \subseteq SUBSET S OBVIOUS
  <2> HIDE DEF Z
  <2> QED BY <1>1, <2>1, SetMin
<1>3. IsFiniteSet(T)
  BY <1>2, FS_Subset
<1>4. T # {}
  BY <1>2, FS_EmptySet, SumRecursion, Zenon
<1>5. PICK x \in T : TRUE
  BY <1>4
<1>6. F(T) = f[x] + F(T \ {x}) /\ G(T) = g[x] + G(T \ {x})
  <2>1. \A y \in T : f[y] \in Int /\ g[y] \in Int
    OBVIOUS
  <2> QED BY <1>3, <2>1, SumRemove
<1>7. F(T \ {x}) = G(T \ {x})
  <2> HIDE DEF F, G
  <2> QED BY <1>2
<1> QED BY <1>2, <1>6, <1>7

\* One value of the function changes.
LEMMA SumUpdate ==
  ASSUME NEW S, IsFiniteSet(S), NEW f, NEW g, NEW x \in S,
         \A y \in S : f[y] \in Int /\ g[y] \in Int,
         \A y \in S : y # x => f[y] = g[y]
  PROVE  SumFunctionOnSet(g, S) = SumFunctionOnSet(f, S) + g[x] - f[x]
<1>1. /\ SumFunctionOnSet(f, S) = f[x] + SumFunctionOnSet(f, S \ {x})
      /\ SumFunctionOnSet(g, S) = g[x] + SumFunctionOnSet(g, S \ {x})
  BY SumRemove
<1>2. IsFiniteSet(S \ {x})
  BY FS_RemoveElement
<1>3. SumFunctionOnSet(f, S \ {x}) = SumFunctionOnSet(g, S \ {x})
  BY <1>2, SumEqual
<1>4. SumFunctionOnSet(f, S \ {x}) \in Int
  BY <1>2, SumRemove
<1>5. f[x] \in Int /\ g[x] \in Int
  OBVIOUS
<1> QED BY <1>1, <1>3, <1>4, <1>5

\* An element joins.
LEMMA SumInsert ==
  ASSUME NEW S, IsFiniteSet(S), NEW f, NEW x, x \notin S, \A y \in S \cup {x} : f[y] \in Int
  PROVE  SumFunctionOnSet(f, S \cup {x}) = SumFunctionOnSet(f, S) + f[x]
<1>1. IsFiniteSet(S \cup {x})
  BY FS_AddElement
<1>2. SumFunctionOnSet(f, S \cup {x}) = f[x] + SumFunctionOnSet(f, (S \cup {x}) \ {x})
  BY <1>1, SumRemove
<1>3. (S \cup {x}) \ {x} = S
  OBVIOUS
<1>4. SumFunctionOnSet(f, S) \in Int
  BY SumRemove
<1>5. f[x] \in Int
  OBVIOUS
<1> QED BY <1>2, <1>3, <1>4, <1>5, Plus3, Zenon

\* A sum of naturals is one, and at least each of its terms.
LEMMA SumNat ==
  ASSUME NEW S, IsFiniteSet(S), NEW f, \A y \in S : f[y] \in Nat
  PROVE  /\ SumFunctionOnSet(f, S) \in Nat
         /\ \A x \in S : f[x] <= SumFunctionOnSet(f, S)
<1>PlusNat. \A a, b \in Nat : a + b \in Nat /\ a <= a + b
  OBVIOUS
<1> DEFINE F(T) == SumFunctionOnSet(f, T)
           Z == {T \in SUBSET S : F(T) \notin Nat}
<1>1. Z = {}
  <2>1. SUFFICES ASSUME Z # {} PROVE FALSE
    OBVIOUS
  <2>2. PICK T \in Z : \A U \in Z : U \subseteq T => U = T
    <3>1. Z \subseteq SUBSET S OBVIOUS
    <3> HIDE DEF Z
    <3> QED BY <2>1, <3>1, SetMin
  <2>3. IsFiniteSet(T)
    BY <2>2, FS_Subset
  <2>4. F({}) = 0
    BY FS_EmptySet, SumRecursion, Zenon
  <2>5. T # {}
    BY <2>2, <2>4, 0 \in Nat, Zenon
  <2>6. PICK x \in T : TRUE
    BY <2>5
  <2>7. F(T) = f[x] + F(T \ {x})
    BY <2>3, SumRemove
  <2> HIDE DEF F
  <2>8. F(T \ {x}) \in Nat
    BY <2>2
  <2> QED BY <2>2, <2>7, <2>8, f[x] \in Nat
<1>2. \A x \in S : F(S) = f[x] + F(S \ {x})
  BY SumRemove
<1> HIDE DEF F
<1>3. F(S) \in Nat /\ \A x \in S : F(S \ {x}) \in Nat
  BY <1>1
<1>4. \A x \in S : f[x] <= F(S)
  BY <1>2, <1>3, <1>PlusNat, Zenon
<1> QED BY <1>3, <1>4 DEF F

LEMMA LawsHold == SumLaws
<1>1. SubsetLaw /\ CardinalityLaw
  BY FS_Subset, FS_CardinalityType DEF SubsetLaw, CardinalityLaw
<1>2. AddLaw
  BY FS_AddElement DEF AddLaw
<1>3. RemoveLaw
  BY FS_RemoveElement DEF RemoveLaw
<1>4. IntervalLaw
  BY FS_Interval DEF IntervalLaw
<1>5. SumNatLaw
  BY SumNat DEF SumNatLaw
<1>6. SumRemoveLaw
  BY SumRemove DEF SumRemoveLaw
<1>7. SumEqualLaw
  BY SumEqual DEF SumEqualLaw
<1>8. SumUpdateLaw
  BY SumUpdate DEF SumUpdateLaw
<1>9. SumInsertLaw
  BY SumInsert, Zenon DEF SumInsertLaw
<1> QED BY <1>1, <1>2, <1>3, <1>4, <1>5, <1>6, <1>7, <1>8, <1>9, ZenonT(30) DEF SumLaws

-----------------------------------------------------------------------------
(* The sizes of the transfer caches. *)

Claim(m) == m.victim # Free /\ m.done

Claimants == {t \in Threads : Claims(t)}

Entries == SumFunction([c \in Classes |-> Min({InitEntries[c], max_cache_size_[c]})])

\* EntriesFit, in the terms of EntriesMove.
LEMMA EntriesFitIs ==
  EntriesFit <=> /\ \A c \in Classes : Used(c) <= cache_size_[c] /\ cache_size_[c] <= max_cache_size_[c]
                 /\ SumFunction(cache_size_) + Cardinality(Claimants) <= Entries
BY DEF EntriesFit, Claimants, Entries

LEMMA EntriesType == Entries \in Nat
<1> DEFINE f == [c \in Classes |-> Min({InitEntries[c], max_cache_size_[c]})]
<1>1. \A c \in Classes : f[c] \in Nat
  <2> SUFFICES ASSUME NEW c \in Classes PROVE Min({InitEntries[c], max_cache_size_[c]}) \in Nat
    OBVIOUS
  <2>1. InitEntries[c] \in Nat /\ max_cache_size_[c] \in Nat
    BY CentralAssumption
  <2> QED BY <2>1, MinPair
<1>2. DOMAIN f = Classes /\ IsFiniteSet(Classes)
  BY CentralAssumption
<1> HIDE DEF f
<1>3. SumFunction(f) \in Nat
  BY <1>1, <1>2, SumNat DEF SumFunction
<1> QED BY <1>3 DEF f, Entries

\* No entry is made up when two classes exchange one.
LEMMA NextEntries ==
  ASSUME Typed, Typed', EntriesFit
  PROVE  [Next]_vars => EntriesFit'
\* One thread moves on: how the number of entries and of claims on entries changes.
<1>EntriesMove. ASSUME NEW t \in Threads, NEW p, NEW m, Goto(t, p, m),
                       SumFunction(cache_size_) + Cardinality(Claimants) <= Entries, Entries \in Int,
                       \/ cache_size_' = cache_size_ /\ (Claim(m) => Claims(t))
                       \/ \E v \in Classes : cache_size_' = [cache_size_ EXCEPT ![v] = @ - 1]
                       \/ \E c \in Classes : /\ cache_size_' = [cache_size_ EXCEPT ![c] = @ + 1]
                                             /\ Claims(t) /\ ~Claim(m)
                PROVE  SumFunction(cache_size_') + Cardinality(Claimants') <= Entries
  <2> USE <1>EntriesMove
  <2>1. \A u \in Threads : me'[u] = (IF u = t THEN m ELSE me[u])
    BY DEF Goto, Typed, PlacesOK
  <2>2. \A u \in Threads : Claims(u)' <=> IF u = t THEN Claim(m) ELSE Claims(u)
    BY <2>1, Zenon DEF Claims, Claim
  <2>3. IsFiniteSet(Claimants) /\ IsFiniteSet(Claimants') /\ Cardinality(Claimants) \in Nat
    <3>1. Claimants \subseteq Threads /\ Claimants' \subseteq Threads
      BY DEF Claimants
    <3> QED BY <3>1, CentralAssumption, FS_Subset, FS_CardinalityType, ZenonT(30)
  <2>4. /\ SumFunction(cache_size_) = SumFunctionOnSet(cache_size_, Classes)
        /\ SumFunction(cache_size_') = SumFunctionOnSet(cache_size_', Classes)
    BY DEF SumFunction, Typed
  <2>5. \A d \in Classes : cache_size_[d] \in Int /\ cache_size_'[d] \in Int
    BY DEF Typed
  <2>10. IsFiniteSet(Classes)
    BY CentralAssumption
  <2>6. SumFunctionOnSet(cache_size_, Classes) \in Int
    BY <2>5, <2>10, SumRemove
  <2>7. CASE cache_size_' = cache_size_ /\ (Claim(m) => Claims(t))
    <3>1. Claimants' \subseteq Claimants
      BY <2>2, <2>7 DEF Claimants
    <3>2. Cardinality(Claimants') \in Nat /\ Cardinality(Claimants') <= Cardinality(Claimants)
      BY <2>3, <3>1, FS_Subset, FS_CardinalityType, ZenonT(30)
    <3> QED BY <2>3, <2>4, <2>6, <2>7, <3>2
  <2>8. ASSUME NEW v \in Classes, cache_size_' = [cache_size_ EXCEPT ![v] = @ - 1]
        PROVE  SumFunction(cache_size_') + Cardinality(Claimants') <= Entries
    <3>1. Claimants' \subseteq Claimants \cup {t}
      BY <2>2 DEF Claimants
    <3>2. IsFiniteSet(Claimants \cup {t}) /\ Cardinality(Claimants \cup {t}) <= Cardinality(Claimants) + 1
      <4>1. /\ IsFiniteSet(Claimants \cup {t})
            /\ Cardinality(Claimants \cup {t})
                 = IF t \in Claimants THEN Cardinality(Claimants) ELSE Cardinality(Claimants) + 1
        BY <2>3, FS_AddElement, Zenon
      <4> QED BY <2>3, <4>1
    <3>3. Cardinality(Claimants \cup {t}) \in Nat
      BY <3>2, FS_CardinalityType
    <3>4. Cardinality(Claimants') \in Nat /\ Cardinality(Claimants') <= Cardinality(Claimants \cup {t})
      BY <2>3, <3>1, <3>2, FS_Subset, FS_CardinalityType, ZenonT(30)
    <3>5. /\ cache_size_'[v] = cache_size_[v] - 1
          /\ \A d \in Classes : d # v => cache_size_[d] = cache_size_'[d]
      BY <2>8 DEF Typed
    <3>8. PICK g : g = cache_size_'
      OBVIOUS
    <3>9. \A d \in Classes : cache_size_[d] \in Int /\ g[d] \in Int
      BY <2>5, <3>8
    <3>10. \A d \in Classes : d # v => cache_size_[d] = g[d]
      BY <3>5, <3>8
    <3>6. SumFunctionOnSet(cache_size_', Classes)
            = SumFunctionOnSet(cache_size_, Classes) + cache_size_'[v] - cache_size_[v]
      BY <2>10, <3>8, <3>9, <3>10, SumUpdate
    <3>7. SumFunctionOnSet(cache_size_', Classes) = SumFunctionOnSet(cache_size_, Classes) - 1
      BY <2>5, <2>6, <3>5, <3>6
    <3> QED BY <2>3, <2>4, <2>6, <3>2, <3>3, <3>4, <3>7
  <2>9. ASSUME NEW c \in Classes, cache_size_' = [cache_size_ EXCEPT ![c] = @ + 1], Claims(t), ~Claim(m)
        PROVE  SumFunction(cache_size_') + Cardinality(Claimants') <= Entries
    <3>1. Claimants' = Claimants \ {t} /\ t \in Claimants
      BY <2>2, <2>9 DEF Claimants
    <3>2. Cardinality(Claimants') = Cardinality(Claimants) - 1
      BY <2>3, <3>1, FS_RemoveElement
    <3>5. /\ cache_size_'[c] = cache_size_[c] + 1
          /\ \A d \in Classes : d # c => cache_size_[d] = cache_size_'[d]
      BY <2>9 DEF Typed
    <3>8. PICK g : g = cache_size_'
      OBVIOUS
    <3>9. \A d \in Classes : cache_size_[d] \in Int /\ g[d] \in Int
      BY <2>5, <3>8
    <3>10. \A d \in Classes : d # c => cache_size_[d] = g[d]
      BY <3>5, <3>8, ZenonT(30)
    <3>6. SumFunctionOnSet(cache_size_', Classes)
            = SumFunctionOnSet(cache_size_, Classes) + cache_size_'[c] - cache_size_[c]
      BY <2>10, <3>8, <3>9, <3>10, SumUpdate
    <3>7. SumFunctionOnSet(cache_size_', Classes) = SumFunctionOnSet(cache_size_, Classes) + 1
      BY <2>5, <2>6, <3>5, <3>6
    <3> QED BY <2>3, <2>4, <2>6, <3>2, <3>7
  <2> QED BY <2>7, <2>8, <2>9, ZenonT(30)
\* The sizes stay within the bounds of the arrays: what is left to show is the total.
<1>EntriesStep. ASSUME NEW t \in Threads, NEW p, NEW m, Goto(t, p, m),
                       \A c \in Classes : Used(c)' <= cache_size_'[c] /\ cache_size_'[c] <= max_cache_size_[c],
                       \/ cache_size_' = cache_size_ /\ (Claim(m) => Claims(t))
                       \/ \E v \in Classes : cache_size_' = [cache_size_ EXCEPT ![v] = @ - 1]
                       \/ \E c \in Classes : /\ cache_size_' = [cache_size_ EXCEPT ![c] = @ + 1]
                                             /\ Claims(t) /\ ~Claim(m)
                PROVE  EntriesFit'
  <2> USE <1>EntriesStep
  <2>1. SumFunction(cache_size_) + Cardinality(Claimants) <= Entries
    BY EntriesFitIs
  <2>2. SumFunction(cache_size_') + Cardinality(Claimants') <= Entries
    BY <2>1, <1>EntriesMove, EntriesType
  <2> QED BY <2>2 DEF EntriesFit, Claimants, Entries
<1>EntriesSame. ASSUME NEW t \in Threads, NEW p, NEW m, Goto(t, p, m),
                       UNCHANGED << cache_size_, slots >>, Claim(m) => Claims(t)
                PROVE  EntriesFit'
  <2> USE <1>EntriesSame
  <2>1. \A c \in Classes : Used(c)' <= cache_size_'[c] /\ cache_size_'[c] <= max_cache_size_[c]
    BY DEF EntriesFit, Used
  <2> QED BY <2>1, <1>EntriesStep, Zenon
<1>IdleClaims. /\ ~Claim(Idle)
               /\ \A f, c : ~Claim([Idle EXCEPT !.list = f, !.at = c])
               /\ \A f, c : ~Claim([Idle EXCEPT !.cl = c, !.chain = f])
               /\ \A n, c : ~Claim([Idle EXCEPT !.cl = c, !.N = n])
  BY DEF Claim, Idle
\* One entry more, or one less, in the cache of one class.
<1>UsedFacts. ASSUME NEW c \in Classes
              PROVE  /\ \A d \in Classes : Used(d) \in Nat
                     /\ \A f : slots' = [slots EXCEPT ![c] = Append(@, f)] =>
                          \A d \in Classes : Used(d)' = IF d = c THEN Used(d) + 1 ELSE Used(d)
                     /\ DropEntry(c) /\ Used(c) > 0 =>
                          \A d \in Classes : Used(d)' = IF d = c THEN Used(d) - 1 ELSE Used(d)
  <2> USE <1>UsedFacts
  <2>1. slots \in [Classes -> Seq(Chains)]
    BY DEF Typed
  <2>2. \A d \in Classes : slots[d] \in Seq(Chains)
    BY <2>1
  <2>3. \A d \in Classes : Used(d) \in Nat
    BY <2>2 DEF Used
  <2>4. ASSUME NEW f, slots' = [slots EXCEPT ![c] = Append(@, f)], NEW d \in Classes
        PROVE  Used(d)' = IF d = c THEN Used(d) + 1 ELSE Used(d)
    <3>1. slots'[d] = IF d = c THEN Append(slots[d], f) ELSE slots[d]
      BY <2>1, <2>4
    <3>2. Len(Append(slots[d], f)) = Len(slots[d]) + 1
      BY <2>2
    <3> QED BY <3>1, <3>2 DEF Used
  <2>5. ASSUME DropEntry(c), Used(c) > 0, NEW d \in Classes
        PROVE  Used(d)' = IF d = c THEN Used(d) - 1 ELSE Used(d)
    <3>1. slots'[d] = IF d = c THEN SubSeq(slots[c], 1, Used(c) - 1) ELSE slots[d]
      BY <2>1, <2>5 DEF DropEntry
    <3>2. Len(SubSeq(slots[c], 1, Len(slots[c]) - 1)) = Len(slots[c]) - 1
      BY <2>2, <2>5, SlotFacts DEF Used
    <3> QED BY <3>1, <3>2 DEF Used
  <2> QED BY <2>3, <2>4, <2>5, Zenon
<1>InsertRange. ASSUME NEW t \in Threads, InsertRange(t) PROVE EntriesFit'
  <2> USE <1>InsertRange
  <2>1. PICK c \in Classes : \E f \in Returns(t, c) : InsertStep(t, c, f)
    BY InsertRangeStep, Zenon
  <2>2. PICK f \in Returns(t, c) : InsertStep(t, c, f)
    BY <2>1
  <2> DEFINE m == [Idle EXCEPT !.list = f, !.at = c]
             n == [Idle EXCEPT !.cl = c, !.chain = f]
  <2>3. cache_size_' = cache_size_
    BY DEF InsertRange
  <2>4. CASE HasRoom(c) /\ StoreEntry(t, c, f)
    <3>1. slots' = [slots EXCEPT ![c] = Append(@, f)] /\ Goto(t, "idle", Idle)
      BY <2>4 DEF StoreEntry
    <3>2. /\ \A d \in Classes : Used(d) \in Nat
          /\ \A d \in Classes : Used(d)' = IF d = c THEN Used(d) + 1 ELSE Used(d)
      BY <3>1, <1>UsedFacts, Zenon
    <3>3. \A d \in Classes : cache_size_[d] \in Nat
      BY DEF Typed
    <3>4. \A d \in Classes : Used(d) <= cache_size_[d] /\ cache_size_[d] <= max_cache_size_[d]
      BY EntriesFitIs
    <3>5. ASSUME NEW d \in Classes
          PROVE  Used(d)' <= cache_size_'[d] /\ cache_size_'[d] <= max_cache_size_[d]
      <4>1. CASE d = c
        BY <2>3, <2>4, <3>2, <3>3, <3>4, <4>1 DEF HasRoom
      <4>2. CASE d # c
        BY <2>3, <3>2, <3>4, <4>2
      <4> QED BY <4>1, <4>2
    <3> QED BY <2>3, <3>1, <3>5, <1>IdleClaims, <1>EntriesStep, Zenon
  <2>5. CASE /\ UNCHANGED slots
             /\ ReleaseChain(t, n) \/ Goto(t, "evict", n)
    <3>1. Goto(t, "release", m) \/ Goto(t, "evict", n)
      BY <2>5 DEF ReleaseChain, Idle
    <3>2. ~Claim(m) /\ ~Claim(n)
      BY <1>IdleClaims, Zenon
    <3>3. UNCHANGED << cache_size_, slots >>
      BY <2>3, <2>5
    <3> HIDE DEF m, n
    <3> QED BY <3>1, <3>2, <3>3, <1>EntriesSame, Zenon
  <2> QED BY <2>2, <2>4, <2>5 DEF InsertStep
<1>ShrinkCache. ASSUME NEW t \in Threads, ShrinkCache(t) PROVE EntriesFit'
  <2> USE <1>ShrinkCache
  <2>1. me[t] \in Locals /\ pc[t] = "invert" /\ GoodLocals("invert", me[t])
    BY MyFacts, ShrinkCacheStep, Zenon DEF Typed
  <2>2. PICK v \in Classes : v = me[t].victim
    BY <2>1 DEF GoodLocals
  <2>3. /\ \A d \in Classes : Used(d) \in Nat /\ cache_size_[d] \in Nat /\ max_cache_size_[d] \in Nat
        /\ \A d \in Classes : Used(d) <= cache_size_[d] /\ cache_size_[d] <= max_cache_size_[d]
    BY <1>UsedFacts, EntriesFitIs, CentralAssumption, Zenon DEF Typed
  <2> DEFINE n == [me[t] EXCEPT !.list = LastEntry(v), !.at = v, !.done = TRUE]
             m(b) == [me[t] EXCEPT !.done = b]
  <2>4. CASE Goto(t, "relock", m(FALSE)) /\ UNCHANGED << lock_, cache_size_, slots >>
    <3>1. ~Claim(m(FALSE))
      BY <2>1 DEF Claim, Locals
    <3> HIDE DEF m
    <3> QED BY <2>4, <3>1, <1>EntriesSame, Zenon
  <2>5. ASSUME cache_size_' = [cache_size_ EXCEPT ![v] = @ - 1]
        PROVE  \A d \in Classes : cache_size_'[d] = IF d = v THEN cache_size_[d] - 1 ELSE cache_size_[d]
    BY <2>5 DEF Typed
  <2>6. CASE /\ cache_size_[v] # 0 /\ Used(v) # cache_size_[v]
             /\ cache_size_' = [cache_size_ EXCEPT ![v] = @ - 1]
             /\ Goto(t, "relock", m(TRUE))
             /\ UNCHANGED << lock_, slots >>
    <3>1. \A d \in Classes : Used(d)' = Used(d)
      BY <2>6 DEF Used
    <3>2. ASSUME NEW d \in Classes
          PROVE  Used(d)' <= cache_size_'[d] /\ cache_size_'[d] <= max_cache_size_[d]
      BY <2>3, <2>5, <2>6, <3>1
    <3> HIDE DEF m
    <3> QED BY <2>6, <3>2, <1>EntriesStep, Zenon
  <2>7. CASE /\ cache_size_[v] # 0 /\ Used(v) = cache_size_[v]
             /\ cache_size_' = [cache_size_ EXCEPT ![v] = @ - 1]
             /\ DropEntry(v)
             /\ Goto(t, "release", n)
    <3>1. \A d \in Classes : Used(d)' = IF d = v THEN Used(d) - 1 ELSE Used(d)
      BY <2>3, <2>7, <1>UsedFacts
    <3>2. ASSUME NEW d \in Classes
          PROVE  Used(d)' <= cache_size_'[d] /\ cache_size_'[d] <= max_cache_size_[d]
      BY <2>3, <2>5, <2>7, <3>1
    <3> HIDE DEF n
    <3> QED BY <2>7, <3>2, <1>EntriesStep, Zenon
  <2> QED BY <2>2, <2>4, <2>6, <2>7, ShrinkCacheStep, Zenon
<1>Relock. ASSUME NEW t \in Threads, Relock(t) PROVE EntriesFit'
  <2> USE <1>Relock
  <2>1. me[t] \in Locals /\ pc[t] = "relock" /\ GoodLocals("relock", me[t])
    BY MyFacts, Zenon DEF Relock, Typed
  <2>2. PICK c \in Classes : c = me[t].cl
    BY <2>1, ZenonT(30) DEF GoodLocals
  <2>3. /\ \A d \in Classes : Used(d) \in Nat /\ cache_size_[d] \in Nat /\ max_cache_size_[d] \in Nat
        /\ \A d \in Classes : Used(d) <= cache_size_[d] /\ cache_size_[d] <= max_cache_size_[d]
    BY <2>2, <1>UsedFacts, EntriesFitIs, CentralAssumption, ZenonT(30) DEF Typed
  <2>4. CASE /\ me[t].done /\ cache_size_[c] < max_cache_size_[c]
             /\ cache_size_' = [cache_size_ EXCEPT ![c] = @ + 1]
             /\ StoreEntry(t, c, me[t].chain)
    <3>1. slots' = [slots EXCEPT ![c] = Append(@, me[t].chain)] /\ Goto(t, "idle", Idle)
      BY <2>4 DEF StoreEntry
    <3>2. \A d \in Classes : Used(d)' = IF d = c THEN Used(d) + 1 ELSE Used(d)
      BY <3>1, <1>UsedFacts, Zenon
    <3>3. \A d \in Classes : cache_size_'[d] = IF d = c THEN cache_size_[d] + 1 ELSE cache_size_[d]
      BY <2>4 DEF Typed
    <3>4. ASSUME NEW d \in Classes
          PROVE  Used(d)' <= cache_size_'[d] /\ cache_size_'[d] <= max_cache_size_[d]
      BY <2>3, <2>4, <3>2, <3>3
    <3>5. Claims(t)
      BY <2>1, <2>4, CentralAssumption DEF Claims, GoodLocals
    <3> QED BY <2>4, <3>1, <3>4, <3>5, <1>IdleClaims, <1>EntriesStep, Zenon
  <2>5. CASE /\ UNCHANGED << cache_size_, slots >>
             /\ ReleaseChain(t, me[t]) \/ NothingEvicted(t)
    <3> DEFINE m == [Idle EXCEPT !.list = me[t].chain, !.at = me[t].cl]
               n == [me[t] EXCEPT !.force = TRUE]
    <3>1. ~Claim(m) /\ (Claim(n) => Claims(t))
      BY <2>1, <1>IdleClaims DEF Claim, Claims, Locals
    <3>2. Goto(t, "release", m) \/ Goto(t, "evict", n)
      BY <2>5, Zenon DEF NothingEvicted, ReleaseChain
    <3> HIDE DEF m, n
    <3> QED BY <2>5, <3>1, <3>2, <1>EntriesSame, Zenon
  <2> QED BY <2>2, <2>4, <2>5, Zenon DEF Relock
<1>Spans. ASSUME NEW t \in Threads, ReleaseToSpans(t) \/ FetchFromOneSpans(t)
          PROVE  EntriesFit'
  <2> USE <1>Spans
  <2>1. me[t] \in Locals
    BY MyFacts, Zenon DEF Typed
  <2>2. UNCHANGED << cache_size_, slots >>
    BY ReleaseToSpansStep, FetchStep, LawsHold DEF cvars
  <2>3. \A s, n : /\ Claim([me[t] EXCEPT !.list = Minus(@, One(s, 1))]) => Claims(t)
                  /\ Claim([me[t] EXCEPT !.list = Minus(@, One(s, 1)), !.span = s]) => Claims(t)
                  /\ Claim([me[t] EXCEPT !.chain = Plus(@, One(s, n))]) => Claims(t)
    BY <2>1 DEF Claim, Claims, Locals
  <2>4. \E s, n : \/ Goto(t, "release", [me[t] EXCEPT !.list = Minus(@, One(s, 1))])
                  \/ Goto(t, "delete", [me[t] EXCEPT !.list = Minus(@, One(s, 1)), !.span = s])
                  \/ Goto(t, "fetch", [me[t] EXCEPT !.chain = Plus(@, One(s, n))])
    BY ReleaseToSpansStep, FetchStep, LawsHold, Zenon DEF KeepSpan, DropSpan, FetchOf
  <2> QED BY <2>2, <2>3, <2>4, <1>EntriesSame, Zenon
<1>RemoveRange. ASSUME NEW t \in Threads, RemoveRange(t) PROVE EntriesFit'
  <2> USE <1>RemoveRange
  <2>1. cache_size_' = cache_size_
    BY RemoveRangeStep, Zenon
  <2>2. PICK c \in Classes, n \in 1 .. Batch :
                \/ Used(c) > 0 /\ DropEntry(c) /\ UNCHANGED << lock_, pc, me >>
                \/ /\ Goto(t, "fetch", [Idle EXCEPT !.cl = c, !.N = n])
                   /\ UNCHANGED << slots, held >>
    BY RemoveRangeStep, Zenon
  <2>3. CASE Used(c) > 0 /\ DropEntry(c) /\ UNCHANGED << lock_, pc, me >>
    <3>1. /\ \A d \in Classes : Used(d) \in Nat
          /\ \A d \in Classes : Used(d)' = IF d = c THEN Used(d) - 1 ELSE Used(d)
      BY <2>3, <1>UsedFacts
    <3>2. \A d \in Classes : cache_size_[d] \in Nat
      BY DEF Typed
    <3>3. \A d \in Classes : Used(d) <= cache_size_[d] /\ cache_size_[d] <= max_cache_size_[d]
      BY EntriesFitIs
    <3>4. \A d \in Classes : Used(d)' <= cache_size_'[d] /\ cache_size_'[d] <= max_cache_size_[d]
      BY <2>1, <3>1, <3>2, <3>3
    <3>5. SumFunction(cache_size_') + Cardinality(Claimants') <= Entries
      <4>1. Claimants' = Claimants
        BY <2>3 DEF Claimants, Claims
      <4> QED BY <2>1, <4>1, EntriesFitIs, Zenon
    <3> QED BY <3>4, <3>5 DEF EntriesFit, Claimants, Entries
  <2>4. CASE /\ Goto(t, "fetch", [Idle EXCEPT !.cl = c, !.N = n])
             /\ UNCHANGED << slots, held >>
    <3>1. UNCHANGED << cache_size_, slots >>
      BY <2>1, <2>4
    <3> QED BY <2>4, <3>1, <1>IdleClaims, <1>EntriesSame, Zenon
  <2> QED BY <2>2, <2>3, <2>4, ZenonT(30)
\* Steps of the other operations, which change no size and no entry.
<1>Others. ASSUME NEW t \in Threads,
                  \/ EvictFails(t) \/ EvictFrom(t) \/ DeleteSpan(t) \/ Deleted(t) \/ Released(t)
                  \/ Populate(t) \/ NewSpan(t) \/ Populated(t) \/ Fetched(t)
           PROVE  EntriesFit'
  <2> USE <1>Others
  <2>1. me[t] \in Locals /\ GoodLocals(pc[t], me[t])
    BY MyFacts, Zenon DEF Typed
  <2>2. UNCHANGED << cache_size_, slots >>
    BY DEF EvictFails, EvictFrom, DeleteSpan, Deleted, Released, Populate, NewSpan, Populated, Fetched, cvars
  <2>3. CASE EvictFails(t)
    <3> DEFINE m == [Idle EXCEPT !.list = me[t].chain, !.at = me[t].cl]
               n == [me[t] EXCEPT !.force = TRUE]
    <3>1. ~Claim(m) /\ (Claim(n) => Claims(t))
      BY <2>1, <1>IdleClaims DEF Claim, Claims, Locals
    <3>2. Goto(t, "release", m) \/ Goto(t, "evict", n)
      BY <2>3, Zenon DEF EvictFails, NothingEvicted, ReleaseChain
    <3> HIDE DEF m, n
    <3> QED BY <2>2, <3>1, <3>2, <1>EntriesSame, Zenon
  <2>4. CASE EvictFrom(t)
    <3>1. PICK v \in Classes : Goto(t, "invert", [me[t] EXCEPT !.victim = v])
      BY <2>4 DEF EvictFrom
    <3> DEFINE n == [me[t] EXCEPT !.victim = v]
    <3>2. ~Claim(n)
      BY <2>1, <2>4 DEF Claim, Locals, GoodLocals, EvictFrom
    <3>3. Goto(t, "invert", n)
      BY <3>1
    <3> HIDE DEF n
    <3> QED BY <2>2, <3>2, <3>3, <1>EntriesSame, Zenon
  <2>5. CASE DeleteSpan(t) \/ Deleted(t) \/ Released(t) \/ Populate(t) \/ Fetched(t)
    <3> DEFINE n == [me[t] EXCEPT !.span = Free]
    <3>1. (Claim(n) => Claims(t)) /\ (Claim(me[t]) => Claims(t)) /\ ~Claim(Idle)
      BY <2>1, <1>IdleClaims DEF Claim, Claims, Locals
    <3>2. \E p : Goto(t, p, n) \/ Goto(t, p, me[t]) \/ Goto(t, p, Idle)
      BY <2>5, Zenon DEF DeleteSpan, Deleted, Released, Populate, Fetched
    <3> HIDE DEF n
    <3> QED BY <2>2, <3>1, <3>2, <1>EntriesSame, Zenon
  <2>6. CASE NewSpan(t)
    <3>1. Claim(me[t]) => Claims(t)
      BY DEF Claim, Claims
    <3>2. \A s : Claim([me[t] EXCEPT !.span = s]) => Claims(t)
      BY <2>1 DEF Claim, Claims, Locals
    <3>3. Goto(t, "populated", me[t]) \/ \E s \in Spans : Goto(t, "populated", [me[t] EXCEPT !.span = s])
      BY <2>6, Zenon DEF NewSpan
    <3> QED BY <2>2, <3>1, <3>2, <3>3, <1>EntriesSame, Zenon
  <2>7. CASE Populated(t)
    <3> DEFINE m == [me[t] EXCEPT !.span = Free, !.done = TRUE]
    <3>1. ~Claim(m)
      BY <2>1, <2>7, Zenon DEF Claim, Locals, GoodLocals, Populated
    <3>2. Goto(t, "fetch", m)
      BY <2>7, Zenon DEF Populated
    <3> HIDE DEF m
    <3> QED BY <2>2, <3>1, <3>2, <1>EntriesSame, Zenon
  <2> QED BY <2>3, <2>4, <2>5, <2>6, <2>7, ZenonT(30)
<1>Stutter. ASSUME UNCHANGED vars PROVE EntriesFit'
  BY <1>Stutter DEF EntriesFit, Claims, Used, vars
<1> QED BY <1>InsertRange, <1>ShrinkCache, <1>Relock, <1>Spans, <1>RemoveRange, <1>Others,
           <1>Stutter, Zenon DEF Next

-----------------------------------------------------------------------------
(* The initial state, and the theorems. *)

LEMMA InitLocks ==
  ASSUME Init PROVE LocksHeld
<1>1. \A t \in Threads, c \in Classes : lock_[c] # t /\ pc[t] = "idle"
  BY CentralAssumption, ZenonT(30) DEF Init
<1> QED BY <1>1 DEF LocksHeld, Holds

LEMMA InitEntriesFit ==
  ASSUME Init PROVE EntriesFit
<1>1. Claimants = {} /\ Cardinality({}) = 0
  BY FS_EmptySet, ZenonT(30) DEF Init, Claimants, Claims, Idle
<1>2. SumFunction(cache_size_) = Entries
  BY ZenonT(30) DEF Init, Entries
<1>3. \A c \in Classes : Used(c) = 0
  BY ZenonT(30) DEF Init, Used
<1>4. ASSUME NEW c \in Classes PROVE 0 <= cache_size_[c] /\ cache_size_[c] <= max_cache_size_[c]
  <2>1. InitEntries[c] \in Nat /\ max_cache_size_[c] \in Nat
    BY CentralAssumption
  <2>2. cache_size_[c] = Min({InitEntries[c], max_cache_size_[c]})
    BY DEF Init
  <2>3. PICK a \in Nat, b \in Nat : a = InitEntries[c] /\ b = max_cache_size_[c]
    BY <2>1, Zenon
  <2>4. Min({a, b}) = IF a <= b THEN a ELSE b
    BY MinPair
  <2> QED BY <2>2, <2>3, <2>4
<1> HIDE DEF Claimants, Entries
<1>5. SumFunction(cache_size_) + Cardinality(Claimants) <= Entries
  BY <1>1, <1>2, EntriesType
<1> QED BY <1>3, <1>4, <1>5, EntriesFitIs, ZenonT(30)

LEMMA InitObjects ==
  ASSUME Init PROVE OInv
<1>1. ASSUME NEW S, IsFiniteSet(S), NEW f, \A y \in S : f[y] = 0
      PROVE  SumFunctionOnSet(f, S) = 0
  <2> DEFINE F(T) == SumFunctionOnSet(f, T)
             Z == {T \in SUBSET S : F(T) # 0}
  <2>1. SUFFICES ASSUME Z # {} PROVE FALSE
    OBVIOUS
  <2>2. PICK T \in Z : \A U \in Z : U \subseteq T => U = T
    <3>1. Z \subseteq SUBSET S OBVIOUS
    <3> HIDE DEF Z
    <3> QED BY <1>1, <2>1, <3>1, SetMin
  <2>3. IsFiniteSet(T) /\ \A y \in T : f[y] = 0 /\ f[y] \in Int
    BY <1>1, <2>2, FS_Subset
  <2>4. F({}) = 0
    BY FS_EmptySet, SumRecursion, ZenonT(30)
  <2>5. PICK x \in T : TRUE
    BY <2>2, <2>4, Zenon
  <2>6. F(T) = f[x] + F(T \ {x})
    BY <2>3, SumRemove
  <2> HIDE DEF F
  <2>7. F(T \ {x}) = 0
    BY <2>2
  <2> QED BY <2>2, <2>3, <2>6, <2>7
<1>2. IsFiniteSet(Threads) /\ IsFiniteSet(Classes) /\ IsFiniteSet({}) /\ Cardinality({}) = 0
  BY CentralAssumption, FS_EmptySet
<1>3. \A c \in Classes : nonempty_[c] = << >> /\ empty_[c] = {} /\ Listed(c) = {} /\ slots[c] = << >>
  BY DEF Init, Listed, Range
<1>4. ListsExact
  <2>1. SumFunctionOnSet(objects, {}) = 0
    BY <1>2, SumRecursion, ZenonT(30)
  <2>2. \A c \in Classes : counter_[c] = 0 /\ num_spans_[c] = 0
    BY DEF Init
  <2>3. Len(<< >>) + 0 = 0 /\ IsInjective(<< >>)
    BY DEF IsInjective
  <2>4. ASSUME NEW c \in Classes
        PROVE  /\ counter_[c] = SumFunctionOnSet(objects, Listed(c))
               /\ num_spans_[c] = Len(nonempty_[c]) + Cardinality(empty_[c])
               /\ IsInjective(nonempty_[c])
    BY <1>2, <1>3, <2>1, <2>2, <2>3, ZenonT(30)
  <2> QED BY <1>3, <2>4, Zenon DEF ListsExact
<1>5. ASSUME NEW s \in Spans PROVE Out(s) = 0
  <2> DEFINE f == [t \in Threads |-> held[t][s] + me[t].chain[s] + me[t].list[s]]
             g(c) == [i \in DOMAIN slots[c] |-> slots[c][i][s]]
             h == [c \in Classes |-> SumFunction(g(c))]
  <2>1. \A t \in Threads : f[t] = 0
    BY DEF Init, Idle, None
  <2>2. DOMAIN f = Threads /\ DOMAIN h = Classes
    BY ZenonT(30)
  <2>3. ASSUME NEW c \in Classes PROVE h[c] = 0
    <3>1. DOMAIN g(c) = {}
      BY <1>3
    <3>2. h[c] = SumFunctionOnSet(g(c), DOMAIN g(c))
      BY DEF SumFunction
    <3> HIDE DEF g, h
    <3>3. SumFunctionOnSet(g(c), {}) = 0
      BY <1>2, SumRecursion, ZenonT(30)
    <3> QED BY <3>1, <3>2, <3>3
  <2>4. Out(s) = SumFunction(f) + SumFunction(h)
    BY DEF Out
  <2> HIDE DEF f, h, g
  <2>5. SumFunction(f) = 0
    BY <1>1, <1>2, <2>1, <2>2 DEF SumFunction
  <2>6. SumFunction(h) = 0
    BY <1>1, <1>2, <2>2, <2>3 DEF SumFunction
  <2> QED BY <2>4, <2>5, <2>6
<1>6. \A s \in Spans : refcount[s] = 0 /\ class[s] = Free
  BY DEF Init, None
<1>7. ObjectsConserved
  BY <1>5, <1>6, Zenon DEF ObjectsConserved
<1>8. ClassOK
  <2>1. \A t \in Threads, s \in Spans : me[t].chain[s] = 0 /\ me[t].list[s] = 0
    BY Zenon DEF Init, Idle, None
  <2>2. \A c \in Classes : 1 .. Len(slots[c]) = {}
    BY <1>3
  <2> QED BY <2>1, <2>2 DEF ClassOK, Of
<1>9. SpansOwned
  <2>1. \A t \in Threads : me[t].span = Free
    BY ZenonT(30) DEF Init, Idle
  <2> QED BY <2>1, Zenon DEF SpansOwned
<1> QED BY <1>4, <1>7, <1>8, <1>9, ZenonT(30) DEF OInv

LEMMA LocksAreOne ==
  ASSUME Typed, LocksHeld PROVE OneLockAtMost
<1> SUFFICES ASSUME NEW t \in Threads
             PROVE  Cardinality({c \in Classes : lock_[c] = t})
                      = IF pc[t] \in {"evict", "release", "fetch"} THEN 1 ELSE 0
  BY DEF OneLockAtMost
<1> DEFINE C == {c \in Classes : lock_[c] = t}
<1>1. me[t] \in Locals /\ GoodLocals(pc[t], me[t])
  BY MyFacts, ZenonT(30) DEF Typed
<1>2. C = {c \in Classes : Holds(pc[t], me[t], c)}
  BY Zenon DEF LocksHeld
<1>3. CASE pc[t] \in {"evict", "fetch"}
  <2>1. me[t].cl \in Classes
    BY <1>1, <1>3 DEF GoodLocals
  <2>2. C = {me[t].cl}
    BY <1>2, <1>3, <2>1 DEF Holds
  <2>3. Cardinality(C) = 1
    BY <2>2, FS_Singleton, ZenonT(30)
  <2> QED BY <1>3, <2>3
<1>4. CASE pc[t] = "release"
  <2>1. me[t].at \in Classes
    BY <1>1, <1>4 DEF GoodLocals
  <2>2. C = {me[t].at}
    BY <1>2, <1>4, <2>1 DEF Holds
  <2>3. Cardinality(C) = 1
    BY <2>2, FS_Singleton, Zenon
  <2> QED BY <1>4, <2>3
<1>5. CASE pc[t] \notin {"evict", "release", "fetch"}
  <2>1. C = {}
    BY <1>2, <1>5 DEF Holds
  <2>2. Cardinality(C) = 0
    BY <2>1, FS_EmptySet
  <2> QED BY <1>5, <2>2
<1> QED BY <1>3, <1>4, <1>5

\* The inductive invariant holds of every behaviour.
LEMMA CentralInvariant == Spec => []CInv
<1>1. Init => CInv
  BY InitTyped, InitLocks, InitEntriesFit, InitObjects, ZenonT(30) DEF CInv, OInv
<1>2. CInv /\ [Next]_vars => CInv'
  <2> SUFFICES ASSUME CInv, [Next]_vars PROVE CInv'
    OBVIOUS
  <2>1. Typed /\ LocksHeld /\ EntriesFit /\ OInv
    BY DEF CInv, OInv
  <2>2. Typed'
    BY <2>1, NextTyped, LawsHold
  <2>3. LocksHeld'
    BY <2>1, NextLocks, LawsHold
  <2>4. EntriesFit'
    BY <2>1, <2>2, NextEntries
  <2>5. OInv'
    BY <2>1, <2>2, NextObjects, LawsHold, ZenonT(30)
  <2> QED BY <2>2, <2>3, <2>4, <2>5 DEF CInv, OInv
<1> QED BY <1>1, <1>2, PTL DEF Spec

\* No thread ever holds the locks of two size classes, and none holds one while it waits
\* for another or works on the page heap: the LockInverter of EvictRandomSizeClass and
\* the unlocking around the page heap in ReleaseToSpans and Populate.
THEOREM OneLockAtATime == Spec => []OneLockAtMost
<1>1. CInv => OneLockAtMost
  BY LocksAreOne, ZenonT(30) DEF CInv
<1> QED BY <1>1, CentralInvariant, PTL

\* No transfer cache outgrows its array and together they never have more entries than
\* they started with: MakeCacheSpace and ShrinkCache, whatever happened to the sizes
\* while the locks were exchanged.
THEOREM CachesFit == Spec => []EntriesFit
<1>1. CInv => EntriesFit
  BY DEF CInv
<1> QED BY <1>1, CentralInvariant, PTL

\* counter_, num_spans_ and the two lists of a class always tell its spans and their free
\* objects: ReleaseToSpans, Populate and FetchFromOneSpans.
THEOREM CountersAreExact == Spec => []ListsExact
<1>1. CInv => ListsExact
  BY DEF CInv
<1> QED BY <1>1, CentralInvariant, PTL

\* No object is lost or handed out twice: the reference count of a span is the number of
\* its objects in the thread caches, in the transfer caches and in the hands of the
\* threads between them, and a span that leaves the lists has none out.
THEOREM NoObjectIsLost == Spec => []ObjectsConserved
<1>1. CInv => ObjectsConserved
  BY DEF CInv
<1> QED BY <1>1, CentralInvariant, PTL

=============================================================================
